--------------------------- MODULE AccountRemovals ---------------------------
(***************************************************************************)
(* What deleting accounts promises: an account is removed at one moment,   *)
(* by somebody who is an administrator at that moment, and never by        *)
(* itself.  It follows that an administrator always remains.               *)
(***************************************************************************)

CONSTANTS
  Ids,      \* accounts, those that do not exist yet included
  Admins    \* the role of an account never changes

VARIABLES
  users,      \* the accounts that exist
  remover     \* who removed an account

Nobody == 0

Init ==
  /\ users \in SUBSET Ids
  /\ remover = [u \in Ids |-> Nobody]

\* An account that was removed does not come back.
Create(u) ==
  /\ u \notin users
  /\ remover[u] = Nobody
  /\ users' = users \cup {u}
  /\ UNCHANGED remover

Remove(a, u) ==
  /\ a \in users \cap Admins
  /\ u \in users \ {a}
  /\ users' = users \ {u}
  /\ remover' = [remover EXCEPT ![u] = a]

Next == \E u \in Ids : Create(u) \/ \E a \in Ids : Remove(a, u)

Spec == Init /\ [][Next]_<<users, remover>>
=============================================================================
