---- MODULE MCBrowserSync ----
(***************************************************************************)
(* BrowserSync with small sets of model values.                            *)
(***************************************************************************)
EXTENDS BrowserSync, FiniteSets, TLC

\* Tabs, contents and the accounts of one kind are interchangeable: no
\* definition names one.
Symmetric ==
  Permutations(Tabs) \cup Permutations(Data)
    \cup Permutations(Users \ Admins)

\* Of the publication two regions of the state space, explored side by side:
\* several tabs on a plan whose record this account owns, and one tab on
\* copies, foreign and deleted records, three of them before the plan is edited
\* and two afterwards.
OwnRecordOnly ==
  /\ DOMAIN server \subseteq {PlanId}
  /\ \A id \in DOMAIN server :
       /\ server[id].owner \in Users
       /\ server[id].version + lastVersion <= 4

OneTab ==
  /\ Cardinality({t \in Tabs : phase[t] # "idle"}) <= 1
  /\ lastVersion <= 2
  /\ Cardinality(DOMAIN server) + lastVersion <= 4
  /\ \A id \in DOMAIN server : server[id].version <= 2
====
