---------------------------- MODULE ExclusiveRuns ----------------------------
(***************************************************************************)
(* What a solver client promises its caller: at most one run is active, a  *)
(* run starts once, and it is over once - with its own result, with an     *)
(* error, or because the caller replaced, cancelled or disposed of it.     *)
(***************************************************************************)
EXTENDS Integers

CONSTANTS Runs   \* positive integers

NoRun == 0

VARIABLES
  active,    \* the active run, or NoRun
  outcome,   \* how each run stands
  result     \* the run whose message settled it, NoRun if none did

vars == <<active, outcome, result>>

Init ==
  /\ active = NoRun
  /\ outcome = [r \in Runs |-> "new"]
  /\ result = [r \in Runs |-> NoRun]

\* A new run replaces the active one.
Start(r) ==
  /\ outcome[r] = "new"
  /\ active' = r
  /\ outcome' = [s \in Runs |-> IF s = r THEN "pending"
                                ELSE IF s = active THEN "replaced"
                                ELSE outcome[s]]
  /\ UNCHANGED result

Settle(r) ==
  /\ active = r
  /\ active' = NoRun
  /\ \E how \in {"complete", "error"} :
       outcome' = [outcome EXCEPT ![r] = how]
  /\ result' = [result EXCEPT ![r] = r]

Withdraw(r) ==
  /\ active = r
  /\ active' = NoRun
  /\ \E how \in {"cancelled", "disposed"} :
       outcome' = [outcome EXCEPT ![r] = how]
  /\ UNCHANGED result

Next == \E r \in Runs : Start(r) \/ Settle(r) \/ Withdraw(r)

Spec == Init /\ [][Next]_vars
=============================================================================
