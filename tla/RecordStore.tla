----------------------------- MODULE RecordStore -----------------------------
(***************************************************************************)
(* The shared record store: the table planner_records, the repository      *)
(* (server/records/recordRepository.ts), the route handlers in front of it *)
(* (api/records/[store]/[id]/route.ts) and the client that talks to them   *)
(* (lib/serverPlannerRecordStorage.ts).                                    *)
(*                                                                         *)
(* A write runs in separate steps, any of which another request or the     *)
(* deletion of an account may come between: the session is looked up, the  *)
(* body is awaited, one SQL statement compares and writes, a second one    *)
(* finds out why nothing matched, and the answer travels back, or is lost. *)
(***************************************************************************)
EXTENDS Naturals

CONSTANTS
  Clients,      \* browser tabs, each with at most one request under way
  Keys,         \* (store, id) pairs
  AdminOnly,    \* the keys of store "project-resources"
  Users,        \* users.id
  Admins,       \* users with role "admin"; no statement changes a role
  Data,         \* record payloads
  MaxVersion,   \* largest value of the integer column (2^31 - 1)
  Absent,       \* a client knows no record; a key has no row
  Nobody,       \* created_by IS NULL
  Empty,        \* the payload {} of a tombstone
  None          \* no request, no answer

ASSUME ConstantsAssumption ==
  /\ AdminOnly \subseteq Keys
  /\ Admins \subseteq Users
  /\ MaxVersion \in Nat \ {0}
  /\ Nobody \notin Users
  /\ Empty \notin Data

\* recordApi.ts: an update stores expectedVersion + 1 in the same column.
MaxExpectedVersion == MaxVersion - 1

VARIABLES
  users,        \* rows of the table users
  row,          \* planner_records: key -> row, or Absent
  seen,         \* client -> key -> record and version it last got, or Absent
  phase,        \* where the client's request is
  req,          \* the authorised request
  reply         \* the answer on its way back

vars == <<users, row, seen, phase, req, reply>>

Records == [version : 1 .. MaxVersion, json : Data]

Rows ==
  [json : Data \cup {Empty}, deleted : BOOLEAN, version : 1 .. MaxVersion,
   createdBy : Users \cup {Nobody}]

\* expected = 0 stands for expectedVersion: null.
Requests ==
  [op : {"create", "update", "delete"}, key : Keys, user : Users,
   json : Data \cup {Empty}, expected : 0 .. MaxExpectedVersion]

Replies ==
  [kind : {"ok", "conflict", "forbidden", "failed"}, version : 0 .. MaxVersion]

\* The model values are not data of the program.
ASSUME SentinelsAssumption ==
  /\ Absent \notin Records
  /\ Absent \notin Rows

Phases == {"idle", "authorized", "unmatched", "answered"}

TypeOK ==
  /\ users \subseteq Users
  /\ row \in [Keys -> Rows \cup {Absent}]
  /\ seen \in [Clients -> [Keys -> Records \cup {Absent}]]
  /\ phase \in [Clients -> Phases]
  /\ req \in [Clients -> Requests \cup {None}]
  /\ reply \in [Clients -> Replies \cup {None}]

Init ==
  /\ users = Users
  /\ row = [k \in Keys |-> Absent]
  /\ seen = [c \in Clients |-> [k \in Keys |-> Absent]]
  /\ phase = [c \in Clients |-> "idle"]
  /\ req = [c \in Clients |-> None]
  /\ reply = [c \in Clients |-> None]

-----------------------------------------------------------------------------

Live(k) == row[k] # Absent /\ ~row[k].deleted

\* Mutant: reads do not filter on the column deleted.
TombstoneToo(k) ==
  IF row[k] # Absent THEN [version |-> row[k].version, json |-> row[k].json]
  ELSE Absent

\* What a read returns: tombstones are hidden.
Visible(k) ==
  IF Live(k) THEN [version |-> row[k].version, json |-> row[k].json]
  ELSE Absent

\* Mutants: the statement compares no version; it compares no creator.
RowOfAnyVersion(q) ==
  /\ Live(q.key)
  /\ q.user \in Admins \/ row[q.key].createdBy = q.user

RowOfAnyCreator(q) == Live(q.key) /\ row[q.key].version = q.expected

\* WHERE deleted = false AND version = expected AND created_by = onlyCreatedBy;
\* onlyCreatedBy is undefined for admins.
RowMatches(q) ==
  /\ Live(q.key)
  /\ row[q.key].version = q.expected
  /\ q.user \in Admins \/ row[q.key].createdBy = q.user

\* Mutant: rejectedWrite is not told whose record the request may change.
NeverForeign(q) == FALSE

\* rejectedWrite: the record is live and someone else's. A creation passes no
\* creator: a live record always conflicts with it.
Foreign(q) ==
  /\ q.op # "create"
  /\ q.user \notin Admins
  /\ Live(q.key)
  /\ row[q.key].createdBy # q.user

\* Mutant: a re-created key starts again at version 1.
RestartVersion(k) == 1

\* The version a creation stores: the one after the tombstone's.
NextVersion(k) == IF row[k] = Absent THEN 1 ELSE row[k].version + 1

\* Mutant: every store may be written by every user.
AnyoneMayWrite(u, k) == TRUE

\* writePolicyFor: "project-resources" is for admins; the other store's
\* restriction to the creator is part of the statement.
PolicyAllows(u, k) == k \in AdminOnly => u \in Admins

\* The column type integer and the foreign key created_by -> users.
Storable(r) ==
  /\ r.version <= MaxVersion
  /\ r.createdBy \in users \cup {Nobody}

Answer(c, kind, version) ==
  /\ phase' = [phase EXCEPT ![c] = "answered"]
  /\ reply' = [reply EXCEPT ![c] = [kind |-> kind, version |-> version]]
  /\ UNCHANGED <<users, seen, req>>

\* One statement: the new row if the table accepts it, else the database
\* throws and the handler answers 500.
Store(c, r) ==
  IF Storable(r)
  THEN /\ row' = [row EXCEPT ![req[c].key] = r]
       /\ Answer(c, "ok", r.version)
  ELSE /\ Answer(c, "failed", 0)
       /\ UNCHANGED row

-----------------------------------------------------------------------------

\* GET: public, needs no session.
GetRecord(c, k) ==
  /\ phase[c] = "idle"
  /\ seen' = [seen EXCEPT ![c][k] = Visible(k)]
  /\ UNCHANGED <<users, row, phase, req, reply>>

\* The handler has found the session and its user, and the store's policy
\* allows the write; the body, with the version the client knows, comes after.
\* A session without an account, a refusal by the policy and a version above
\* the accepted maximum answer 401, 403 and 400 and change nothing.
AuthorizeWrite(c, u, q) ==
  /\ phase[c] = "idle"
  /\ u \in users
  /\ q.user = u
  /\ PolicyAllows(u, q.key)
  /\ q.op = "create" => q.expected = 0 /\ q.json # Empty
  /\ q.op # "create" =>
       /\ seen[c][q.key] # Absent
       /\ q.expected = seen[c][q.key].version
  /\ q.op = "update" => q.json # Empty
  /\ q.op = "delete" => q.json = Empty
  /\ phase' = [phase EXCEPT ![c] = "authorized"]
  /\ req' = [req EXCEPT ![c] = q]
  /\ UNCHANGED <<users, row, seen, reply>>

\* INSERT ... ON CONFLICT DO UPDATE ... WHERE deleted: a fresh row, or the
\* tombstone with the next version and the new creator.
CreatedRow(q) ==
  [json |-> q.json, deleted |-> FALSE, version |-> NextVersion(q.key),
   createdBy |-> q.user]

PutCreate(c) ==
  /\ phase[c] = "authorized"
  /\ req[c].op = "create"
  /\ ~Live(req[c].key)
  /\ Store(c, CreatedRow(req[c]))

\* UPDATE ... SET version = expected + 1; the creator is left alone.
UpdatedRow(q) ==
  [json |-> q.json, deleted |-> FALSE, version |-> q.expected + 1,
   createdBy |-> row[q.key].createdBy]

PutUpdate(c) ==
  /\ phase[c] = "authorized"
  /\ req[c].op = "update"
  /\ RowMatches(req[c])
  /\ Store(c, UpdatedRow(req[c]))

\* A delete keeps the row and its version and drops payload and creator.
Tombstone(q) ==
  [json |-> Empty, deleted |-> TRUE, version |-> row[q.key].version,
   createdBy |-> Nobody]

DeleteRecord(c) ==
  /\ phase[c] = "authorized"
  /\ req[c].op = "delete"
  /\ RowMatches(req[c])
  /\ Store(c, Tombstone(req[c]))

\* The statement matched no row.
NoRowMatched(c) ==
  /\ phase[c] = "authorized"
  /\ IF req[c].op = "create" THEN Live(req[c].key) ELSE ~RowMatches(req[c])
  /\ phase' = [phase EXCEPT ![c] = "unmatched"]
  /\ UNCHANGED <<users, row, seen, req, reply>>

\* A later read picks the error: forbidden if the record is someone else's,
\* else a conflict with the version it is at, 0 if there is none.
RejectedWrite(c) ==
  /\ phase[c] = "unmatched"
  /\ LET k == req[c].key
     IN  IF Foreign(req[c]) THEN Answer(c, "forbidden", 0)
         ELSE Answer(c, "conflict", IF Live(k) THEN row[k].version ELSE 0)
  /\ UNCHANGED row

Settle(c) ==
  /\ phase[c] = "answered"
  /\ phase' = [phase EXCEPT ![c] = "idle"]
  /\ req' = [req EXCEPT ![c] = None]
  /\ reply' = [reply EXCEPT ![c] = None]
  /\ UNCHANGED <<users, row>>

\* The client takes over the version it was given for what it wrote. After a
\* refusal or an error it keeps what it knew and has to read again.
ReceiveAnswer(c) ==
  /\ Settle(c)
  /\ seen' = IF reply[c].kind # "ok" THEN seen
             ELSE [seen EXCEPT ![c][req[c].key] =
                     IF req[c].op = "delete" THEN Absent
                     ELSE [version |-> reply[c].version,
                           json |-> req[c].json]]

\* The connection breaks after the server acted: the client learns nothing.
LoseAnswer(c) == Settle(c) /\ UNCHANGED seen

\* deleteUser by another admin; ON DELETE SET NULL on created_by.
DeleteUser(admin, u) ==
  /\ admin \in users \cap Admins
  /\ u \in users \ {admin}
  /\ users' = users \ {u}
  /\ row' = [k \in Keys |->
               IF row[k] # Absent /\ row[k].createdBy = u
               THEN [row[k] EXCEPT !.createdBy = Nobody]
               ELSE row[k]]
  /\ UNCHANGED <<seen, phase, req, reply>>

Next ==
  \/ \E c \in Clients, k \in Keys : GetRecord(c, k)
  \/ \E c \in Clients, u \in Users, q \in Requests : AuthorizeWrite(c, u, q)
  \/ \E c \in Clients :
       \/ PutCreate(c) \/ PutUpdate(c) \/ DeleteRecord(c)
       \/ NoRowMatched(c) \/ RejectedWrite(c)
       \/ ReceiveAnswer(c) \/ LoseAnswer(c)
  \/ \E admin \in Admins, u \in Users : DeleteUser(admin, u)

Spec == Init /\ [][Next]_vars

-----------------------------------------------------------------------------

\* What a client has been told a key's record is: the record it knows, and the
\* record an answer on its way says it stored.
Told(c, k) ==
  {seen[c][k]} \cup
  (IF /\ phase[c] = "answered"
      /\ reply[c].kind = "ok"
      /\ req[c].op # "delete"
      /\ req[c].key = k
   THEN {[version |-> reply[c].version, json |-> req[c].json]}
   ELSE {})

Known(k) == {Visible(k)} \cup (UNION {Told(c, k) : c \in Clients})

\* A version number stands for one content for ever: whatever two parties, the
\* table included, know under the same version of a key is the same record,
\* although keys are deleted and created again and answers arrive late.
OneContentPerVersion ==
  \A k \in Keys : \A a, b \in Known(k) \ {Absent} :
    a.version = b.version => a = b

\* A conflict answer to an update or a delete never names the version the
\* request expected, although the version is read after the statement failed
\* and other writes may come between (putRecord, deleteRecord, rejectedWrite).
ConflictNamesAnotherVersion ==
  \A c \in Clients :
    (/\ phase[c] = "answered"
     /\ reply[c].kind = "conflict"
     /\ req[c].op # "create")
      => reply[c].version # req[c].expected

\* The only write the database itself refuses is a creation for an account
\* deleted meanwhile: no sequence of writes reaches a version that the integer
\* column cannot hold, so a deleted key can always be created again.
FailureMeansAccountGone ==
  \A c \in Clients :
    (phase[c] = "answered" /\ reply[c].kind = "failed")
      => req[c].op = "create" /\ req[c].user \notin users

\* What a client is told of a write that was not done is true of the record: the
\* two properties above, of conflicts and of failures.
AnswersTrue == ConflictNamesAnotherVersion /\ FailureMeansAccountGone

\* A request authorised before its account was deleted stores nothing after
\* the deletion unless the account was an admin's: the creator is gone from
\* the rows and a creation fails on the foreign key.
NoWriteAfterAccountDeletion ==
  [][\A c \in Clients :
       (/\ phase[c] = "authorized"
        /\ phase'[c] = "answered"
        /\ reply'[c].kind = "ok")
         => \/ req[c].user \in users
            \/ req[c].user \in Admins /\ req[c].op # "create"]_vars

\* The store keeps the promise of VersionedRecords: a write takes effect only
\* on exactly the record the writer knew, by its creator or an admin, and no
\* version of a key is used twice, although only versions are compared.
Current == [k \in Keys |-> Visible(k)]
Owner == [k \in Keys |-> IF row[k] = Absent THEN Nobody ELSE row[k].createdBy]
High == [k \in Keys |-> IF row[k] = Absent THEN 0 ELSE row[k].version]

Promise == INSTANCE VersionedRecords WITH
  current <- Current, owner <- Owner, high <- High, base <- seen

KeepsPromise == Promise!Spec
=============================================================================
