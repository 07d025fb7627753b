---- MODULE MCRecordStore ----
(***************************************************************************)
(* RecordStore with small sets of model values. Clients, payloads, admins  *)
(* and ordinary users are interchangeable: no definition names one.        *)
(***************************************************************************)
EXTENDS RecordStore, FiniteSets, TLC

Symmetric ==
  Permutations(Clients) \cup Permutations(Data)
    \cup Permutations(Admins) \cup Permutations(Users \ Admins)

\* Records never touch each other: one that everybody may create and one that
\* only admins may create are explored side by side, not in combination.
InUse(k) ==
  \/ row[k] # Absent
  \/ \E c \in Clients : req[c] # None /\ req[c].key = k

OneKeyInUse == Cardinality({k \in Keys : InUse(k)}) <= 1
====
