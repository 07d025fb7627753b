-------------------------- MODULE VersionedRecords --------------------------
(***************************************************************************)
(* What the shared record store promises its writers (ADR 0006 and 0011):  *)
(* a record that exists is replaced or removed only by a writer who knew   *)
(* exactly the record it replaces, only by its creator or an admin, and a  *)
(* key never uses a revision twice, even across delete and re-creation.    *)
(* Nothing is said of rows, tombstones, requests or statements:            *)
(* RecordStore shows how the code keeps the promise.                       *)
(***************************************************************************)
EXTENDS Naturals

CONSTANTS
  Clients,      \* browser tabs
  Keys,         \* (store, id) pairs
  AdminOnly,    \* keys of the stores only admins write
  Users,        \* account ids
  Admins,       \* those with role "admin"
  Data,         \* record contents
  MaxVersion,   \* largest revision
  Absent,       \* no record
  Nobody        \* no creator

VARIABLES
  users,        \* accounts that exist
  current,      \* key -> the record, or Absent
  owner,        \* key -> the creator of the record, or Nobody
  high,         \* key -> the largest revision ever used, 0 if none
  base          \* client -> key -> the record the client knows, or Absent

vars == <<users, current, owner, high, base>>

Records == [version : 1 .. MaxVersion, json : Data]

Init ==
  /\ users = Users
  /\ current = [k \in Keys |-> Absent]
  /\ owner = [k \in Keys |-> Nobody]
  /\ high = [k \in Keys |-> 0]
  /\ base = [c \in Clients |-> [k \in Keys |-> Absent]]

Entitled(u, k) == u \in Admins \/ (k \notin AdminOnly /\ owner[k] = u)

\* A client learns of the present record or of one that was superseded.
Observe(c, k) ==
  \E known \in Records \cup {Absent} :
    /\ known # Absent =>
         /\ known.version <= high[k]
         /\ current[k] # Absent /\ current[k].version = known.version
              => known = current[k]
    /\ base' = [base EXCEPT ![c][k] = known]
    /\ UNCHANGED <<users, current, owner, high>>

Publish(k, d) ==
  \E v \in high[k] + 1 .. MaxVersion :
    /\ current' = [current EXCEPT ![k] = [version |-> v, json |-> d]]
    /\ high' = [high EXCEPT ![k] = v]

Create(u, k, d) ==
  /\ current[k] = Absent
  /\ u \in users
  /\ k \in AdminOnly => u \in Admins
  /\ Publish(k, d)
  /\ owner' = [owner EXCEPT ![k] = u]
  /\ UNCHANGED <<users, base>>

Replace(c, u, k, d) ==
  /\ current[k] # Absent
  /\ base[c][k] = current[k]
  /\ Entitled(u, k)
  /\ Publish(k, d)
  /\ UNCHANGED <<users, owner, base>>

Remove(c, u, k) ==
  /\ current[k] # Absent
  /\ base[c][k] = current[k]
  /\ Entitled(u, k)
  /\ current' = [current EXCEPT ![k] = Absent]
  /\ owner' = [owner EXCEPT ![k] = Nobody]
  /\ UNCHANGED <<users, high, base>>

\* The records of a closed account survive without a creator.
CloseAccount(u) ==
  /\ users' = users \ {u}
  /\ owner' = [k \in Keys |-> IF owner[k] = u THEN Nobody ELSE owner[k]]
  /\ UNCHANGED <<current, high, base>>

Next ==
  \/ \E c \in Clients, k \in Keys : Observe(c, k)
  \/ \E u \in Users, k \in Keys, d \in Data : Create(u, k, d)
  \/ \E c \in Clients, u \in Users, k \in Keys, d \in Data :
       Replace(c, u, k, d)
  \/ \E c \in Clients, u \in Users, k \in Keys : Remove(c, u, k)
  \/ \E u \in Users : CloseAccount(u)

Spec == Init /\ [][Next]_vars
=============================================================================
