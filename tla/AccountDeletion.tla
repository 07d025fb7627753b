--------------------------- MODULE AccountDeletion ---------------------------
(***************************************************************************)
(* The transaction of deleteUser (deleteUser.ts), one action per statement *)
(* and lock, under PostgreSQL's READ COMMITTED: a statement works on the   *)
(* rows committed when it began, waits for the lock of each row it wants   *)
(* and skips the row if it has been deleted by then.                       *)
(*                                                                         *)
(* What else locks a row of "users" is here one action: a login, a reset   *)
(* or the insertion of a session holds one row and wants no other.         *)
(***************************************************************************)
EXTENDS Integers

CONSTANTS
  Ids,       \* bound: accounts, ordered as "order by id" orders them
  Admins,    \* those with the role of an administrator, once they exist
  Deleters   \* bound: requests to delete an account under way at once

Unlocked == "unlocked"
Another == "another"   \* a transaction that is no deletion
Nobody == 0

ASSUME DeletionAssumption ==
  /\ Ids \subseteq Nat \ {Nobody} /\ Admins \subseteq Ids
  /\ Deleters \cap {Unlocked, Another} = {}

VARIABLES
  users,      \* the accounts that exist
  remover,    \* ghost: the caller who removed an account
  used,       \* ids that were ever given: they are random and never repeated
  locker,     \* who holds the row lock of an account
  stage,      \* of each request
  caller, target,
  todo,       \* administrators whose rows are still to be locked
  admins      \* those the statement has returned

vars == <<users, remover, used, locker, stage, caller, target, todo,
          admins>>

TypeOK ==
  /\ users \subseteq used /\ used \subseteq Ids
  /\ remover \in [Ids -> Ids \cup {Nobody}]
  /\ locker \in [Ids -> Deleters \cup {Unlocked, Another}]
  /\ stage \in [Deleters -> {"idle", "called", "locking", "deleting"}]
  /\ caller \in [Deleters -> Ids \cup {Nobody}]
  /\ target \in [Deleters -> Ids \cup {Nobody}]
  /\ todo \in [Deleters -> SUBSET Admins]
  /\ admins \in [Deleters -> SUBSET Admins]

Init ==
  /\ users \in {U \in SUBSET Ids : U \cap Admins # {}}
  /\ remover = [u \in Ids |-> Nobody]
  /\ used = users
  /\ locker = [u \in Ids |-> Unlocked]
  /\ stage = [d \in Deleters |-> "idle"]
  /\ caller = [d \in Deleters |-> Nobody]
  /\ target = [d \in Deleters |-> Nobody]
  /\ todo = [d \in Deleters |-> {}]
  /\ admins = [d \in Deleters |-> {}]

-----------------------------------------------------------------------------

\* createUser, from the command line or by an administrator.
Create(u) ==
  /\ u \notin used
  /\ users' = users \cup {u}
  /\ used' = used \cup {u}
  /\ UNCHANGED <<remover, locker, stage, caller, target, todo, admins>>

\* Another transaction takes a row lock and gives it back.
Lock(u) ==
  /\ u \in users
  /\ locker[u] = Unlocked
  /\ locker' = [locker EXCEPT ![u] = Another]
  /\ UNCHANGED <<users, remover, used, stage, caller, target, todo, admins>>

Unlock(u) ==
  /\ locker[u] = Another
  /\ locker' = [locker EXCEPT ![u] = Unlocked]
  /\ UNCHANGED <<users, remover, used, stage, caller, target, todo, admins>>

\* requireAdmin has found that a is signed in and an administrator.  The request
\* names an account there is or was: nobody can guess a random id.
Call(d, a, u) ==
  /\ stage[d] = "idle"
  /\ a \in users \cap Admins
  /\ u \in used
  /\ stage' = [stage EXCEPT ![d] = "called"]
  /\ caller' = [caller EXCEPT ![d] = a]
  /\ target' = [target EXCEPT ![d] = u]
  /\ UNCHANGED <<users, remover, used, locker, todo, admins>>

\* Mutant: the statement asks for every account.
EveryRow == users

\* Where role = admin.
AdminRows == users \cap Admins

\* The select begins: it will lock the administrators there are now.
Select(d) ==
  /\ stage[d] = "called"
  /\ stage' = [stage EXCEPT ![d] = "locking"]
  /\ todo' = [todo EXCEPT ![d] = AdminRows]
  /\ UNCHANGED <<users, remover, used, locker, caller, target, admins>>

\* Mutant: no order by.
Unordered(S) == S

\* Rows are locked in the order of their ids.
NextRows(S) == {u \in S : \A v \in S : u <= v}

\* Mutant: a select without "for update" waits for nobody.
NeverWaits(d, u) == TRUE

\* The row is free, or the transaction has it.
Lockable(d, u) == locker[u] \in {Unlocked, d}

\* The lock of one row, or the discovery that it is gone.
LockNext(d) ==
  /\ stage[d] = "locking"
  /\ \E u \in NextRows(todo[d]) :
       /\ todo' = [todo EXCEPT ![d] = @ \ {u}]
       /\ Lockable(d, u)
       /\ IF u \in users
          THEN /\ locker' = [locker EXCEPT ![u] = d]
               /\ admins' = [admins EXCEPT ![d] = @ \cup {u}]
          ELSE UNCHANGED <<locker, admins>>
  /\ UNCHANGED <<users, remover, used, stage, caller, target>>

\* The transaction is over, its locks are free and the request is answered.
Done(d) ==
  /\ stage' = [stage EXCEPT ![d] = "idle"]
  /\ caller' = [caller EXCEPT ![d] = Nobody]
  /\ target' = [target EXCEPT ![d] = Nobody]
  /\ admins' = [admins EXCEPT ![d] = {}]
  /\ locker' = [u \in Ids |-> IF locker[u] = d THEN Unlocked ELSE locker[u]]

\* Mutant: what requireAdmin found is taken for granted.
Trusted(d) == TRUE

\* The caller is still an administrator.
CallerStays(d) == caller[d] \in admins[d]

\* What deleteUser accepts, with the target's row as a new statement reads it.
Acceptable(d) ==
  /\ CallerStays(d)
  /\ target[d] \in users
  /\ ~(target[d] \in Admins /\ \E a \in Admins : admins[d] = {a})
  /\ target[d] # caller[d]

\* The checks between the two statements.
Check(d) ==
  /\ stage[d] = "locking"
  /\ todo[d] = {}
  /\ IF Acceptable(d)
     THEN /\ stage' = [stage EXCEPT ![d] = "deleting"]
          /\ UNCHANGED <<locker, caller, target, admins>>
     ELSE Done(d)
  /\ UNCHANGED <<users, remover, used, todo>>

\* The delete and the commit; it finds nothing if the target is gone.
Delete(d) ==
  /\ stage[d] = "deleting"
  /\ Lockable(d, target[d])
  /\ users' = users \ {target[d]}
  /\ remover' = IF target[d] \in users
                THEN [remover EXCEPT ![target[d]] = caller[d]] ELSE remover
  /\ Done(d)
  /\ UNCHANGED <<used, todo>>

Next ==
  \/ \E u \in Ids : Create(u) \/ Lock(u) \/ Unlock(u)
  \/ \E d \in Deleters :
       \/ \E a \in Ids, u \in Ids : Call(d, a, u)
       \/ Select(d) \/ LockNext(d) \/ Check(d) \/ Delete(d)

Safety == Init /\ [][Next]_vars

\* Transactions end; a lock that is wanted again and again is granted some time,
\* since PostgreSQL queues who waits for it.
Fairness ==
  /\ \A u \in Ids : WF_vars(Unlock(u))
  /\ \A d \in Deleters :
       WF_vars(Select(d) \/ Check(d)) /\ SF_vars(LockNext(d)) /\ SF_vars(Delete(d))

Spec == Safety /\ Fairness

-----------------------------------------------------------------------------

\* Administrators that delete each other at the same time do not leave an
\* installation that nobody can administer.
AdminRemains == users \cap Admins # {}

\* Transactions that lock many rows each never wait for each other in a circle:
\* every request to delete is answered.
DeletionEnds == \A d \in Deleters : stage[d] # "idle" ~> stage[d] = "idle"

Promise == INSTANCE AccountRemovals

\* A deletion takes place at one moment, by a caller who is an administrator then,
\* although statements, locks and other transactions lie between its steps.
KeepsPromise == Promise!Spec
=============================================================================
