-------------------------- MODULE RecordStoreProofs --------------------------
(***************************************************************************)
(* Theorems about RecordStore, for any number of clients, keys, users and  *)
(* payloads and any width of the version column.                           *)
(***************************************************************************)
EXTENDS RecordStore, TLAPS

USE ConstantsAssumption, SentinelsAssumption

\* What is known of a request under way. It holds the phase, the request and
\* the answer together, and says that the version a request expects is still
\* the one its client knows: a client has one request at a time.
RequestInv ==
  \A c \in Clients :
    /\ phase[c] # "idle" =>
         /\ req[c] \in Requests
         /\ PolicyAllows(req[c].user, req[c].key)
         /\ req[c].op = "create" => req[c].json \in Data
         /\ req[c].op = "update" => req[c].json \in Data
         /\ req[c].op # "create" =>
              /\ seen[c][req[c].key] \in Records
              /\ req[c].expected = seen[c][req[c].key].version
    /\ phase[c] = "answered" =>
         /\ reply[c] \in Replies
         /\ reply[c].kind = "ok" => reply[c].version \in 1 .. MaxVersion

\* What is known of a row: only a live row holds a payload and a creator, and a
\* tombstone leaves room in the column for the version of its re-creation.
RowInv ==
  \A k \in Keys : row[k] # Absent =>
    /\ row[k].createdBy \in users \cup {Nobody}
    /\ ~row[k].deleted => row[k].json \in Data
    /\ row[k].deleted => row[k].version < MaxVersion

BasicInv == TypeOK /\ RequestInv /\ RowInv

-----------------------------------------------------------------------------

LEMMA InitBasicInv == Init => BasicInv
<1> SUFFICES ASSUME Init PROVE BasicInv
  OBVIOUS
<1>1. TypeOK
  BY DEF Init, TypeOK, Phases
<1>2. RequestInv
  BY DEF Init, RequestInv
<1>3. RowInv
  BY DEF Init, RowInv
<1> QED
  BY <1>1, <1>2, <1>3 DEF BasicInv

\* What the three statements store; the database refuses none of them but a
\* creation whose account is gone.
LEMMA CreateStores ==
  ASSUME BasicInv, NEW c \in Clients, PutCreate(c)
  PROVE  LET q == req[c]
             r == CreatedRow(q)
         IN  /\ q \in Requests /\ q.key \in Keys /\ r \in Rows
             /\ ~r.deleted
             /\ r.json = q.json /\ r.json \in Data
             /\ r.version = NextVersion(q.key)
             /\ r.createdBy = q.user
             /\ row[q.key] # Absent =>
                  /\ row[q.key] \in Rows
                  /\ r.version = row[q.key].version + 1
             /\ ~Storable(r) => q.user \notin users
<1> DEFINE q == req[c]
           k == q.key
           r == CreatedRow(q)
<1>1. q \in Requests /\ q.json \in Data
  BY DEF PutCreate, BasicInv, RequestInv
<1>2. k \in Keys /\ q.user \in Users
  BY <1>1 DEF Requests
<1>3. /\ NextVersion(k) \in 1 .. MaxVersion
      /\ row[k] # Absent => row[k] \in Rows /\ NextVersion(k) = row[k].version + 1
  <2>1. CASE row[k] = Absent
    BY <2>1 DEF NextVersion
  <2>2. CASE row[k] # Absent
    <3>1. row[k] \in Rows
      BY <2>2, <1>2 DEF BasicInv, TypeOK
    <3>2. row[k].deleted
      BY <2>2 DEF PutCreate, Live
    <3>3. row[k].version \in 1 .. MaxVersion /\ row[k].version < MaxVersion
      BY <3>1, <3>2, <1>2, <2>2 DEF BasicInv, RowInv, Rows
    <3> QED
      BY <3>1, <3>3, <2>2 DEF NextVersion
  <2> QED
    BY <2>1, <2>2
<1>4. /\ r \in Rows /\ r.deleted = FALSE /\ r.json = q.json
      /\ r.version = NextVersion(k) /\ r.createdBy = q.user
  BY <1>1, <1>2, <1>3 DEF Rows, CreatedRow
<1>5. ~Storable(r) => q.user \notin users
  BY <1>3, <1>4 DEF Storable
<1> QED
  BY <1>1, <1>2, <1>3, <1>4, <1>5

LEMMA UpdateStores ==
  ASSUME BasicInv, NEW c \in Clients, PutUpdate(c)
  PROVE  LET q == req[c]
             r == UpdatedRow(q)
         IN  /\ q \in Requests /\ q.key \in Keys /\ r \in Rows
             /\ Live(q.key) /\ row[q.key] \in Rows
             /\ seen[c][q.key] \in Records
             /\ seen[c][q.key].version = row[q.key].version
             /\ ~r.deleted
             /\ r.json = q.json /\ r.json \in Data
             /\ r.version = row[q.key].version + 1
             /\ r.createdBy = row[q.key].createdBy
             /\ Storable(r)
<1> DEFINE q == req[c]
           k == q.key
           r == UpdatedRow(q)
<1>1. /\ q \in Requests /\ q.json \in Data
      /\ seen[c][k] \in Records /\ q.expected = seen[c][k].version
  BY DEF PutUpdate, BasicInv, RequestInv
<1>2. k \in Keys /\ q.expected \in 0 .. MaxExpectedVersion
  BY <1>1 DEF Requests
<1>3. Live(k) /\ row[k].version = q.expected
  BY DEF PutUpdate, RowMatches
<1>4. row[k] \in Rows
  BY <1>2, <1>3 DEF Live, BasicInv, TypeOK
<1>5. /\ r \in Rows /\ r.deleted = FALSE /\ r.json = q.json
      /\ r.version = q.expected + 1 /\ r.createdBy = row[k].createdBy
  BY <1>1, <1>2, <1>4 DEF Rows, UpdatedRow, MaxExpectedVersion
<1>6. Storable(r)
  <2>1. r.version <= MaxVersion
    BY <1>2, <1>5 DEF MaxExpectedVersion
  <2>2. r.createdBy \in users \cup {Nobody}
    BY <1>2, <1>3, <1>5 DEF BasicInv, RowInv, Live
  <2> QED
    BY <2>1, <2>2 DEF Storable
<1> QED
  BY <1>1, <1>2, <1>3, <1>4, <1>5, <1>6

LEMMA DeleteStores ==
  ASSUME BasicInv, NEW c \in Clients, DeleteRecord(c)
  PROVE  LET q == req[c]
             r == Tombstone(q)
         IN  /\ q \in Requests /\ q.key \in Keys /\ r \in Rows
             /\ Live(q.key) /\ row[q.key] \in Rows
             /\ seen[c][q.key] \in Records
             /\ seen[c][q.key].version = row[q.key].version
             /\ r.deleted /\ r.createdBy = Nobody
             /\ r.version = row[q.key].version
             /\ r.version < MaxVersion
             /\ Storable(r)
<1> DEFINE q == req[c]
           k == q.key
           r == Tombstone(q)
<1>1. /\ q \in Requests
      /\ seen[c][k] \in Records /\ q.expected = seen[c][k].version
  BY DEF DeleteRecord, BasicInv, RequestInv
<1>2. k \in Keys /\ q.expected \in 0 .. MaxExpectedVersion
  BY <1>1 DEF Requests
<1>3. Live(k) /\ row[k].version = q.expected
  BY DEF DeleteRecord, RowMatches
<1>4. row[k] \in Rows
  BY <1>2, <1>3 DEF Live, BasicInv, TypeOK
<1>5. /\ r \in Rows /\ r.deleted = TRUE
      /\ r.version = row[k].version /\ r.createdBy = Nobody
  BY <1>4 DEF Rows, Tombstone
<1>6. r.version < MaxVersion
  BY <1>2, <1>3, <1>5 DEF MaxExpectedVersion
<1>7. Storable(r)
  <2>1. r.version <= MaxVersion
    BY <1>2, <1>3, <1>5 DEF MaxExpectedVersion
  <2> QED
    BY <2>1, <1>5 DEF Storable
<1> QED
  BY <1>1, <1>2, <1>3, <1>4, <1>5, <1>6, <1>7

\* A statement that stores a row r for client c, or fails, keeps BasicInv if r
\* holds what RowInv asks of a row.
LEMMA StoreKeepsBasicInv ==
  ASSUME BasicInv, NEW c \in Clients, phase[c] # "idle",
         NEW r \in Rows,
         ~r.deleted => r.json \in Data,
         r.deleted => r.version < MaxVersion,
         Store(c, r)
  PROVE  BasicInv'
<1> DEFINE k == req[c].key
<1>1. k \in Keys
  BY DEF BasicInv, RequestInv, Requests
<1>2. CASE Storable(r)
  <2>1. row' = [row EXCEPT ![k] = r] /\ Answer(c, "ok", r.version)
    BY <1>2 DEF Store
  <2>2. [kind |-> "ok", version |-> r.version] \in Replies
    BY DEF Rows, Replies
  <2>3. TypeOK'
    BY <1>1, <2>1, <2>2 DEF BasicInv, TypeOK, Answer, Phases
  <2>4. RequestInv'
    BY <2>1, <2>2 DEF BasicInv, TypeOK, RequestInv, Answer, Rows
  <2>5. RowInv'
    BY <1>1, <1>2, <2>1 DEF BasicInv, TypeOK, RowInv, Answer, Storable
  <2> QED
    BY <2>3, <2>4, <2>5 DEF BasicInv
<1>3. CASE ~Storable(r)
  <2>1. row' = row /\ Answer(c, "failed", 0)
    BY <1>3 DEF Store
  <2>2. [kind |-> "failed", version |-> 0] \in Replies
    BY DEF Replies
  <2>3. TypeOK'
    BY <2>1, <2>2 DEF BasicInv, TypeOK, Answer, Phases
  <2>4. RequestInv'
    BY <2>1, <2>2 DEF BasicInv, TypeOK, RequestInv, Answer
  <2>5. RowInv'
    BY <2>1 DEF BasicInv, RowInv, Answer
  <2> QED
    BY <2>3, <2>4, <2>5 DEF BasicInv
<1> QED
  BY <1>2, <1>3

LEMMA BasicInvInductive == BasicInv /\ [Next]_vars => BasicInv'
<1> SUFFICES ASSUME BasicInv, [Next]_vars PROVE BasicInv'
  OBVIOUS
<1> USE DEF BasicInv
<1>1. ASSUME NEW c \in Clients, NEW k \in Keys, GetRecord(c, k)
      PROVE  BasicInv'
  <2>1. Visible(k) \in Records \cup {Absent}
    BY DEF TypeOK, RowInv, Visible, Live, Rows, Records
  <2>2. TypeOK'
    BY <1>1, <2>1 DEF GetRecord, TypeOK
  <2>3. RequestInv' /\ RowInv'
    BY <1>1 DEF GetRecord, TypeOK, RequestInv, RowInv
  <2> QED
    BY <2>2, <2>3
<1>2. ASSUME NEW c \in Clients, NEW u \in Users, NEW q \in Requests,
             AuthorizeWrite(c, u, q)
      PROVE  BasicInv'
  <2>1. TypeOK' /\ RowInv'
    BY <1>2 DEF AuthorizeWrite, TypeOK, RowInv, Phases
  <2>2. /\ q.key \in Keys
        /\ q.op \in {"create", "update", "delete"}
        /\ q.json \in Data \cup {Empty}
    BY DEF Requests
  <2>3. q.op # "create" => seen[c][q.key] \in Records
    BY <1>2, <2>2 DEF AuthorizeWrite, TypeOK
  <2>4. RequestInv'
    BY <1>2, <2>2, <2>3 DEF AuthorizeWrite, TypeOK, RequestInv, PolicyAllows
  <2> QED
    BY <2>1, <2>4
<1>3. ASSUME NEW c \in Clients, PutCreate(c) PROVE BasicInv'
  <2> DEFINE r == CreatedRow(req[c])
  <2>1. /\ phase[c] # "idle" /\ Store(c, r)
        /\ r \in Rows /\ ~r.deleted /\ r.json \in Data
    BY <1>3, CreateStores DEF PutCreate
  <2> HIDE DEF r
  <2> QED
    BY <2>1, StoreKeepsBasicInv
<1>4. ASSUME NEW c \in Clients, PutUpdate(c) PROVE BasicInv'
  <2> DEFINE r == UpdatedRow(req[c])
  <2>1. /\ phase[c] # "idle" /\ Store(c, r)
        /\ r \in Rows /\ ~r.deleted /\ r.json \in Data
    BY <1>4, UpdateStores DEF PutUpdate
  <2> HIDE DEF r
  <2> QED
    BY <2>1, StoreKeepsBasicInv
<1>5. ASSUME NEW c \in Clients, DeleteRecord(c) PROVE BasicInv'
  BY <1>5, DeleteStores, StoreKeepsBasicInv DEF DeleteRecord
<1>6. ASSUME NEW c \in Clients, NoRowMatched(c) PROVE BasicInv'
  <2>1. TypeOK' /\ RowInv'
    BY <1>6 DEF NoRowMatched, TypeOK, RowInv, Phases
  <2>2. RequestInv'
    BY <1>6 DEF NoRowMatched, TypeOK, RequestInv
  <2> QED
    BY <2>1, <2>2
<1>7. ASSUME NEW c \in Clients, RejectedWrite(c) PROVE BasicInv'
  <2>1. req[c].key \in Keys
    BY <1>7 DEF RejectedWrite, RequestInv, Requests
  <2>2. Live(req[c].key) => row[req[c].key].version \in 0 .. MaxVersion
    BY <2>1 DEF Live, TypeOK, Rows
  <2>3. PICK kind \in {"forbidden", "conflict"}, v \in 0 .. MaxVersion :
          Answer(c, kind, v)
    BY <1>7, <2>2 DEF RejectedWrite
  <2>4. [kind |-> kind, version |-> v] \in Replies
    BY DEF Replies
  <2>5. row' = row
    BY <1>7 DEF RejectedWrite
  <2>6. TypeOK' /\ RowInv'
    BY <2>3, <2>4, <2>5 DEF Answer, TypeOK, RowInv, Phases
  <2>7. RequestInv'
    BY <1>7, <2>3, <2>4 DEF RejectedWrite, Answer, TypeOK, RequestInv
  <2> QED
    BY <2>6, <2>7
<1>8. ASSUME NEW c \in Clients, ReceiveAnswer(c) PROVE BasicInv'
  <2> DEFINE q == req[c]
             got == IF q.op = "delete" THEN Absent
                    ELSE [version |-> reply[c].version, json |-> q.json]
  <2>1. q \in Requests /\ q.key \in Keys
    BY <1>8 DEF ReceiveAnswer, Settle, RequestInv, Requests
  <2>2. reply[c].kind = "ok" => got \in Records \cup {Absent}
    BY <1>8, <2>1 DEF ReceiveAnswer, Settle, RequestInv, Requests, Records
  <2>3. TypeOK' /\ RowInv'
    BY <1>8, <2>1, <2>2 DEF ReceiveAnswer, Settle, TypeOK, RowInv, Phases
  <2>4. RequestInv'
    BY <1>8 DEF ReceiveAnswer, Settle, TypeOK, RequestInv
  <2> QED
    BY <2>3, <2>4
<1>9. ASSUME NEW c \in Clients, LoseAnswer(c) PROVE BasicInv'
  <2>1. TypeOK' /\ RowInv'
    BY <1>9 DEF LoseAnswer, Settle, TypeOK, RowInv, Phases
  <2>2. RequestInv'
    BY <1>9 DEF LoseAnswer, Settle, TypeOK, RequestInv
  <2> QED
    BY <2>1, <2>2
<1>10. ASSUME NEW admin \in Admins, NEW u \in Users, DeleteUser(admin, u)
       PROVE  BasicInv'
  <2>1. \A k \in Keys : row[k] # Absent =>
          /\ [row[k] EXCEPT !.createdBy = Nobody] \in Rows
          /\ [row[k] EXCEPT !.createdBy = Nobody].createdBy = Nobody
          /\ [row[k] EXCEPT !.createdBy = Nobody].deleted = row[k].deleted
          /\ [row[k] EXCEPT !.createdBy = Nobody].json = row[k].json
          /\ [row[k] EXCEPT !.createdBy = Nobody].version = row[k].version
    BY DEF TypeOK, Rows
  <2>2. TypeOK'
    BY <1>10, <2>1 DEF DeleteUser, TypeOK
  <2>3. RequestInv'
    BY <1>10 DEF DeleteUser, RequestInv
  <2>4. RowInv'
    BY <1>10, <2>1 DEF DeleteUser, RowInv
  <2> QED
    BY <2>2, <2>3, <2>4
<1>11. CASE UNCHANGED vars
  BY <1>11 DEF vars, TypeOK, RequestInv, RowInv
<1> QED
  BY <1>1, <1>2, <1>3, <1>4, <1>5, <1>6, <1>7, <1>8, <1>9, <1>10, <1>11
  DEF Next

THEOREM BasicInvariance == Spec => []BasicInv
<1> QED
  BY InitBasicInv, BasicInvInductive, PTL DEF Spec

\* The variables hold what the code's types and the table's columns allow, for
\* every number of clients and keys and every width of the version column.
THEOREM TypeCorrect == Spec => []TypeOK
<1>1. BasicInv => TypeOK
  BY DEF BasicInv
<1> QED
  BY <1>1, BasicInvariance, PTL

\* A request authorised before its account was deleted stores nothing after the
\* deletion, unless it was an admin's and creates nothing: a creation fails on
\* the foreign key, and no row has the deleted creator that the statement asks
\* for.
THEOREM DeletedAccountsStoreNothing == Spec => NoWriteAfterAccountDeletion
<1> DEFINE Stored(c) ==
      phase[c] = "authorized" /\ phase'[c] = "answered" /\ reply'[c].kind = "ok"
           Entitled(c) ==
      \/ req[c].user \in users
      \/ req[c].user \in Admins /\ req[c].op # "create"
<1>1. ASSUME BasicInv, Next, NEW c \in Clients, Stored(c)
      PROVE  Entitled(c)
  <2>1. phase \in [Clients -> Phases] /\ reply \in [Clients -> Replies \cup {None}]
    BY <1>1 DEF BasicInv, TypeOK
  <2>2. ASSUME NEW d \in Clients, NEW kind, NEW v, Answer(d, kind, v)
        PROVE  d = c /\ kind = "ok"
    <3>1. phase'[c] # phase[c]
      BY <1>1
    <3>2. d = c
      BY <2>1, <2>2, <3>1 DEF Answer
    <3>3. reply'[c] = [kind |-> kind, version |-> v]
      BY <2>1, <2>2, <3>2 DEF Answer
    <3> QED
      BY <1>1, <3>2, <3>3
  <2>3. ASSUME NEW d \in Clients, NEW r, Store(d, r)
        PROVE  d = c /\ Storable(r)
    <3>1. CASE Storable(r)
      BY <2>2, <2>3, <3>1 DEF Store
    <3>2. CASE ~Storable(r)
      <4>1. Answer(d, "failed", 0)
        BY <2>3, <3>2 DEF Store
      <4> QED
        BY <2>2, <4>1
    <3> QED
      BY <3>1, <3>2
  <2>4. ASSUME NEW d \in Clients, PutCreate(d) PROVE Entitled(c)
    <3>1. d = c /\ Storable(CreatedRow(req[c]))
      BY <2>3, <2>4 DEF PutCreate
    <3>2. LET q == req[c] IN q \in Requests /\ CreatedRow(q).createdBy = q.user
      BY <1>1, <2>4, <3>1, CreateStores
    <3>3. req[c].user \in Users
      BY <3>2 DEF Requests
    <3> QED
      BY <3>1, <3>2, <3>3 DEF Storable
  <2>5. ASSUME NEW d \in Clients, RowMatches(req[d]), req[d].op # "create", d = c
        PROVE  Entitled(c)
    <3>1. req[c] \in Requests
      BY <1>1 DEF BasicInv, RequestInv
    <3>2. req[c].key \in Keys /\ req[c].user \in Users
      BY <3>1 DEF Requests
    <3>3. row[req[c].key].createdBy \in users \cup {Nobody}
      BY <1>1, <2>5, <3>2 DEF BasicInv, RowInv, RowMatches, Live
    <3> QED
      BY <2>5, <3>2, <3>3 DEF RowMatches
  <2>6. ASSUME NEW d \in Clients, PutUpdate(d) PROVE Entitled(c)
    BY <2>3, <2>5, <2>6 DEF PutUpdate
  <2>7. ASSUME NEW d \in Clients, DeleteRecord(d) PROVE Entitled(c)
    BY <2>3, <2>5, <2>7 DEF DeleteRecord
  <2>8. ASSUME NEW d \in Clients, RejectedWrite(d) PROVE FALSE
    <3>1. \E kind \in {"forbidden", "conflict"} : \E v : Answer(d, kind, v)
      BY <2>8 DEF RejectedWrite
    <3> QED
      BY <2>2, <3>1
  <2>9. ASSUME NEW d \in Clients,
               \/ \E k \in Keys : GetRecord(d, k)
               \/ \E u \in Users, q \in Requests : AuthorizeWrite(d, u, q)
               \/ NoRowMatched(d) \/ ReceiveAnswer(d) \/ LoseAnswer(d)
        PROVE  FALSE
    BY <1>1, <2>1, <2>9
    DEF GetRecord, AuthorizeWrite, NoRowMatched, ReceiveAnswer, LoseAnswer, Settle
  <2>10. ASSUME NEW admin \in Admins, NEW u \in Users, DeleteUser(admin, u)
         PROVE  FALSE
    BY <1>1, <2>10 DEF DeleteUser
  <2> QED
    BY <1>1, <2>4, <2>6, <2>7, <2>8, <2>9, <2>10 DEF Next
<1>2. BasicInv /\ [Next]_vars =>
        [\A c \in Clients :
           (/\ phase[c] = "authorized"
            /\ phase'[c] = "answered"
            /\ reply'[c].kind = "ok")
             => \/ req[c].user \in users
                \/ req[c].user \in Admins /\ req[c].op # "create"]_vars
  BY <1>1
<1> QED
  BY <1>2, BasicInvariance, PTL DEF Spec, NoWriteAfterAccountDeletion
-----------------------------------------------------------------------------

\* The only write the database refuses is a creation for a deleted account: no
\* sequence of writes, deletes and re-creations exhausts the version column.
THEOREM OnlyCreationForDeletedAccountFails ==
  Spec => []FailureMeansAccountGone
<1>1. Init => FailureMeansAccountGone
  BY DEF Init, FailureMeansAccountGone
<1>2. ASSUME BasicInv, FailureMeansAccountGone, [Next]_vars
      PROVE  FailureMeansAccountGone'
  <2> USE DEF FailureMeansAccountGone
  <2>0. /\ users' \subseteq users
        /\ phase \in [Clients -> Phases]
        /\ reply \in [Clients -> Replies \cup {None}]
        /\ req \in [Clients -> Requests \cup {None}]
    BY <1>2 DEF Next, GetRecord, AuthorizeWrite, PutCreate, PutUpdate,
       DeleteRecord, NoRowMatched, RejectedWrite, ReceiveAnswer, LoseAnswer,
       DeleteUser, Store, Answer, Settle, vars, BasicInv, TypeOK
  <2>1. ASSUME NEW c \in Clients, PutCreate(c)
        PROVE  FailureMeansAccountGone'
    <3> DEFINE r == CreatedRow(req[c])
    <3>1. /\ req[c].op = "create"
          /\ ~Storable(r) => req[c].user \notin users
          /\ Store(c, r)
      BY <1>2, <2>1, CreateStores DEF PutCreate
    <3> HIDE DEF r
    <3> QED
      BY <1>2, <2>0, <3>1 DEF Store, Answer
  <2>2. ASSUME NEW c \in Clients, PutUpdate(c)
        PROVE  FailureMeansAccountGone'
    <3> DEFINE r == UpdatedRow(req[c])
    <3>1. Storable(r) /\ Store(c, r)
      BY <1>2, <2>2, UpdateStores DEF PutUpdate
    <3> HIDE DEF r
    <3> QED
      BY <1>2, <2>0, <3>1 DEF Store, Answer
  <2>3. ASSUME NEW c \in Clients, DeleteRecord(c)
        PROVE  FailureMeansAccountGone'
    <3> DEFINE r == Tombstone(req[c])
    <3>1. Storable(r) /\ Store(c, r)
      BY <1>2, <2>3, DeleteStores DEF DeleteRecord
    <3> HIDE DEF r
    <3> QED
      BY <1>2, <2>0, <3>1 DEF Store, Answer
  <2>4. ASSUME NEW c \in Clients, RejectedWrite(c)
        PROVE  FailureMeansAccountGone'
    BY <1>2, <2>0, <2>4 DEF RejectedWrite, Answer
  <2>5. ASSUME NEW c \in Clients, NoRowMatched(c) \/ Settle(c)
        PROVE  FailureMeansAccountGone'
    BY <1>2, <2>0, <2>5 DEF NoRowMatched, Settle
  <2>6. ASSUME NEW c \in Clients, NEW u \in Users, NEW q \in Requests,
               AuthorizeWrite(c, u, q)
        PROVE  FailureMeansAccountGone'
    BY <1>2, <2>0, <2>6 DEF AuthorizeWrite
  <2>7. CASE UNCHANGED <<phase, req, reply>>
    BY <1>2, <2>0, <2>7
  <2> QED
    BY <1>2, <2>1, <2>2, <2>3, <2>4, <2>5, <2>6, <2>7
    DEF Next, GetRecord, ReceiveAnswer, LoseAnswer, DeleteUser, vars
<1> QED
  BY <1>1, <1>2, BasicInvariance, PTL DEF Spec
-----------------------------------------------------------------------------

\* A step keeps the record of key k, or hides it: the version stays, what is
\* visible afterwards was visible before, and no user becomes its creator.
KeepsRecord(k) ==
  /\ row[k] = Absent <=> row'[k] = Absent
  /\ row[k] # Absent =>
       /\ row'[k].version = row[k].version
       /\ ~row'[k].deleted => ~row[k].deleted /\ row'[k].json = row[k].json
       /\ row'[k].createdBy \in {row[k].createdBy, Nobody}

\* A step stores a version of key k that is larger than every one before.
StoresVersion(k) ==
  /\ row'[k] \in Rows
  /\ ~row'[k].deleted
  /\ row[k] # Absent => row'[k].version > row[k].version

\* Whatever a client is told of key k in a step it was told before, or is what
\* the table shows before or after the step.
LearnsOnlyFromTable(k) ==
  \A c \in Clients :
    Told(c, k)' \subseteq Told(c, k) \cup {Absent, Visible(k), Visible(k)'}

\* Every step treats every key in one of these two ways.
LEMMA StepOnKey ==
  ASSUME BasicInv, [Next]_vars, NEW k \in Keys
  PROVE  (KeepsRecord(k) \/ StoresVersion(k)) /\ LearnsOnlyFromTable(k)
<1> USE DEF BasicInv, TypeOK, KeepsRecord, LearnsOnlyFromTable, Told
<1>0. /\ phase \in [Clients -> Phases]
      /\ \A c \in Clients : phase[c] \in {"authorized", "unmatched", "answered"}
           => req[c].key \in Keys
  BY DEF RequestInv, Requests
<1>1. ASSUME NEW c \in Clients, NEW j \in Keys, GetRecord(c, j)
      PROVE  KeepsRecord(k) /\ LearnsOnlyFromTable(k)
  BY <1>1 DEF GetRecord
<1>2. ASSUME NEW c \in Clients, NEW u \in Users, NEW q \in Requests,
             AuthorizeWrite(c, u, q)
      PROVE  KeepsRecord(k) /\ LearnsOnlyFromTable(k)
  BY <1>2 DEF AuthorizeWrite
<1>3. ASSUME NEW c \in Clients, PutCreate(c)
      PROVE  (KeepsRecord(k) \/ StoresVersion(k)) /\ LearnsOnlyFromTable(k)
  <2> DEFINE q == req[c]
             r == CreatedRow(q)
  <2>1. /\ q.key \in Keys /\ r \in Rows /\ ~r.deleted /\ r.json = q.json
        /\ row[q.key] # Absent =>
             row[q.key] \in Rows /\ r.version = row[q.key].version + 1
        /\ phase[c] = "authorized" /\ Store(c, r)
    BY <1>3, CreateStores DEF PutCreate
  <2> HIDE DEF r
  <2>2. CASE Storable(r)
    <3>1. row' = [row EXCEPT ![q.key] = r] /\ Answer(c, "ok", r.version)
      BY <2>1, <2>2 DEF Store
    <3>2. k = q.key => StoresVersion(k)
      BY <2>1, <3>1 DEF StoresVersion, Rows
    <3>3. k # q.key => KeepsRecord(k)
      BY <3>1
    <3>4. LearnsOnlyFromTable(k)
      BY <2>1, <3>1 DEF Answer, Visible, Live
    <3> QED
      BY <3>2, <3>3, <3>4
  <2>3. CASE ~Storable(r)
    BY <2>1, <2>3 DEF Store, Answer
  <2> QED
    BY <2>2, <2>3
<1>4. ASSUME NEW c \in Clients, PutUpdate(c)
      PROVE  (KeepsRecord(k) \/ StoresVersion(k)) /\ LearnsOnlyFromTable(k)
  <2> DEFINE q == req[c]
             r == UpdatedRow(q)
  <2>1. /\ q.key \in Keys /\ r \in Rows /\ ~r.deleted /\ r.json = q.json
        /\ row[q.key] \in Rows /\ r.version = row[q.key].version + 1
        /\ phase[c] = "authorized" /\ Store(c, r) /\ Storable(r)
    BY <1>4, UpdateStores DEF PutUpdate
  <2> HIDE DEF r
  <2>2. row' = [row EXCEPT ![q.key] = r] /\ Answer(c, "ok", r.version)
    BY <2>1 DEF Store
  <2>3. k = q.key => StoresVersion(k)
    BY <2>1, <2>2 DEF StoresVersion, Rows
  <2>4. k # q.key => KeepsRecord(k)
    BY <2>2
  <2>5. LearnsOnlyFromTable(k)
    BY <2>1, <2>2 DEF Answer, Visible, Live
  <2> QED
    BY <2>3, <2>4, <2>5
<1>5. ASSUME NEW c \in Clients, DeleteRecord(c)
      PROVE  KeepsRecord(k) /\ LearnsOnlyFromTable(k)
  <2> DEFINE q == req[c]
             r == Tombstone(q)
  <2>1. /\ q.key \in Keys /\ r \in Rows /\ r.deleted
        /\ row[q.key] \in Rows /\ r.version = row[q.key].version
        /\ r.createdBy = Nobody
        /\ q.op = "delete" /\ Store(c, r) /\ Storable(r)
    BY <1>5, DeleteStores DEF DeleteRecord
  <2> HIDE DEF r
  <2>2. row' = [row EXCEPT ![q.key] = r] /\ Answer(c, "ok", r.version)
    BY <2>1 DEF Store
  <2>3. KeepsRecord(k)
    BY <2>1, <2>2
  <2>4. LearnsOnlyFromTable(k)
    BY <2>1, <2>2 DEF Answer
  <2> QED
    BY <2>3, <2>4
<1>6. ASSUME NEW c \in Clients, NoRowMatched(c)
      PROVE  KeepsRecord(k) /\ LearnsOnlyFromTable(k)
  BY <1>6 DEF NoRowMatched
<1>7. ASSUME NEW c \in Clients, RejectedWrite(c)
      PROVE  KeepsRecord(k) /\ LearnsOnlyFromTable(k)
  BY <1>7 DEF RejectedWrite, Answer
<1>8. ASSUME NEW c \in Clients, ReceiveAnswer(c)
      PROVE  KeepsRecord(k) /\ LearnsOnlyFromTable(k)
  <2>1. row' = row /\ phase' = [phase EXCEPT ![c] = "idle"]
        /\ reply' = [reply EXCEPT ![c] = None]
        /\ req' = [req EXCEPT ![c] = None]
    BY <1>8 DEF ReceiveAnswer, Settle
  <2>2. Told(c, k)' = {seen'[c][k]}
    BY <2>1
  <2>3. seen'[c][k] \in Told(c, k) \cup {Absent}
    BY <1>0, <1>8 DEF ReceiveAnswer, Settle
  <2>4. \A d \in Clients \ {c} : Told(d, k)' = Told(d, k)
    BY <1>0, <1>8, <2>1 DEF ReceiveAnswer
  <2> QED
    BY <2>1, <2>2, <2>3, <2>4
<1>9. ASSUME NEW c \in Clients, LoseAnswer(c)
      PROVE  KeepsRecord(k) /\ LearnsOnlyFromTable(k)
  BY <1>9 DEF LoseAnswer, Settle
<1>10. ASSUME NEW admin \in Admins, NEW u \in Users, DeleteUser(admin, u)
       PROVE  KeepsRecord(k) /\ LearnsOnlyFromTable(k)
  <2>1. LearnsOnlyFromTable(k)
    BY <1>10 DEF DeleteUser
  <2>2. row[k] # Absent =>
          /\ [row[k] EXCEPT !.createdBy = Nobody] # Absent
          /\ [row[k] EXCEPT !.createdBy = Nobody].createdBy = Nobody
          /\ [row[k] EXCEPT !.createdBy = Nobody].deleted = row[k].deleted
          /\ [row[k] EXCEPT !.createdBy = Nobody].json = row[k].json
          /\ [row[k] EXCEPT !.createdBy = Nobody].version = row[k].version
    <3>1. ASSUME row[k] # Absent
          PROVE  [row[k] EXCEPT !.createdBy = Nobody] \in Rows
      BY <3>1 DEF Rows
    <3> QED
      BY <3>1 DEF Rows
  <2>3. KeepsRecord(k)
    BY <1>10, <2>2 DEF DeleteUser
  <2> QED
    BY <2>1, <2>3
<1>11. CASE UNCHANGED vars
  BY <1>11 DEF vars
<1> QED
  BY <1>1, <1>2, <1>3, <1>4, <1>5, <1>6, <1>7, <1>8, <1>9, <1>10, <1>11
  DEF Next
\* Whatever a client has been told is what the table holds or held: never a
\* version ahead of the row, and of the row's version only its content.
ToldIsPast ==
  \A c \in Clients, k \in Keys : \A a \in Told(c, k) \ {Absent} :
    /\ a \in Records
    /\ row[k] # Absent
    /\ a.version <= row[k].version
    /\ a.version = row[k].version /\ ~row[k].deleted => a.json = row[k].json

ContentInv == ToldIsPast /\ OneContentPerVersion

LEMMA InitContentInv == Init => ContentInv
<1> SUFFICES ASSUME Init PROVE ContentInv
  OBVIOUS
<1>1. \A c \in Clients, k \in Keys : Told(c, k) = {Absent}
  BY DEF Init, Told
<1>2. \A k \in Keys : Visible(k) = Absent
  BY DEF Init, Visible, Live
<1> QED
  BY <1>1, <1>2 DEF ContentInv, ToldIsPast, OneContentPerVersion, Known

\* The record a key shows is a record, at the version of its row.
RowsShow ==
  \A k \in Keys :
    /\ Visible(k) \in Records \cup {Absent}
    /\ Visible(k) # Absent <=> Live(k)
    /\ Live(k) => /\ row[k] \in Rows
                  /\ Visible(k).version = row[k].version
                  /\ Visible(k).json = row[k].json

LEMMA BasicInvShows == BasicInv => RowsShow
<1> SUFFICES ASSUME BasicInv, NEW k \in Keys
             PROVE  /\ Visible(k) \in Records \cup {Absent}
                    /\ Visible(k) # Absent <=> Live(k)
                    /\ Live(k) => /\ row[k] \in Rows
                                  /\ Visible(k).version = row[k].version
                                  /\ Visible(k).json = row[k].json
  BY DEF RowsShow
<1>1. CASE Live(k)
  <2>1. row[k] \in Rows /\ row[k].json \in Data
    BY <1>1 DEF BasicInv, TypeOK, RowInv, Live
  <2>2. [version |-> row[k].version, json |-> row[k].json] \in Records
    BY <2>1 DEF Rows, Records
  <2> QED
    BY <1>1, <2>1, <2>2 DEF Visible
<1>2. CASE ~Live(k)
  BY <1>2 DEF Visible
<1> QED
  BY <1>1, <1>2

LEMMA ContentInvInductive ==
  BasicInv /\ BasicInv' /\ ContentInv /\ [Next]_vars => ContentInv'
<1> SUFFICES ASSUME BasicInv, BasicInv', ContentInv, [Next]_vars
             PROVE  ContentInv'
  OBVIOUS
<1>0. RowsShow /\ RowsShow'
  BY BasicInvShows, PTL
<1>1. ASSUME NEW c \in Clients, NEW k \in Keys,
             NEW a \in Told(c, k)', a # Absent
      PROVE  /\ a \in Records
             /\ row'[k] # Absent
             /\ a.version <= row'[k].version
             /\ a.version = row'[k].version /\ ~row'[k].deleted
                  => a.json = row'[k].json
  <2>1. a \in Told(c, k) \/ a = Visible(k) \/ a = Visible(k)'
    BY <1>1, StepOnKey DEF LearnsOnlyFromTable
  <2>2. CASE a = Visible(k)'
    BY <1>0, <1>1, <2>2 DEF RowsShow, Live, Rows
  <2>3. CASE a \in Told(c, k) \/ a = Visible(k)
    <3>1. /\ a \in Records
          /\ row[k] # Absent
          /\ a.version <= row[k].version
          /\ a.version = row[k].version /\ ~row[k].deleted
               => a.json = row[k].json
      <4>1. CASE a \in Told(c, k)
        BY <1>1, <4>1 DEF ContentInv, ToldIsPast
      <4>2. CASE a = Visible(k)
        BY <1>0, <1>1, <4>2 DEF RowsShow, Live, Rows
      <4> QED
        BY <2>3, <4>1, <4>2
    <3>2. row[k] \in Rows /\ row'[k] \in Rows \cup {Absent}
      BY <3>1 DEF BasicInv, TypeOK
    <3>3. CASE KeepsRecord(k)
      BY <3>1, <3>3 DEF KeepsRecord
    <3>4. CASE StoresVersion(k)
      BY <3>1, <3>2, <3>4 DEF StoresVersion, Rows, Records
    <3> QED
      BY <3>3, <3>4, StepOnKey
  <2> QED
    BY <2>1, <2>2, <2>3
<1>2. ToldIsPast'
  BY <1>1 DEF ToldIsPast
<1>3. ASSUME NEW k \in Keys, NEW a \in Known(k)', NEW b \in Known(k)',
             a # Absent, b # Absent, a.version = b.version
      PROVE  a = b
  <2>1. \A x \in Known(k)' \ {Absent} :
          x \in Known(k) \/ x = Visible(k)'
    BY StepOnKey DEF LearnsOnlyFromTable, Known
  <2>2. \A x, y \in Known(k) \ {Absent} : x.version = y.version => x = y
    BY DEF ContentInv, OneContentPerVersion, Known
  <2>3. \A x \in Known(k) \ {Absent} :
          x \in Records /\ row[k] # Absent /\ x.version <= row[k].version
    <3>1. \A c \in Clients : \A x \in Told(c, k) \ {Absent} :
            x \in Records /\ row[k] # Absent /\ x.version <= row[k].version
      BY DEF ContentInv, ToldIsPast
    <3>2. Visible(k) # Absent =>
            /\ Visible(k) \in Records /\ row[k] # Absent
            /\ Visible(k).version <= row[k].version
      BY <1>0 DEF RowsShow, Live, Rows
    <3> QED
      BY <3>1, <3>2 DEF Known
  <2>4. row[k] # Absent => row[k] \in Rows
    BY DEF BasicInv, TypeOK
  <2>5. /\ Visible(k)' # Absent <=> Live(k)'
        /\ Live(k)' => Visible(k)'.version = row'[k].version
    BY <1>0 DEF RowsShow
  <2>6. CASE KeepsRecord(k)
    <3>1. Visible(k)' \in {Visible(k), Absent}
      BY <2>6 DEF KeepsRecord, Visible, Live
    <3> QED
      BY <1>3, <2>1, <2>2, <3>1 DEF Known
  <2>7. CASE StoresVersion(k)
    <3>1. Live(k)' => \A x \in Known(k) \ {Absent} :
                        x.version # Visible(k)'.version
      BY <2>3, <2>4, <2>5, <2>7 DEF StoresVersion, Rows, Records
    <3> QED
      BY <1>3, <2>1, <2>2, <2>5, <3>1
  <2> QED
    BY <2>6, <2>7, StepOnKey
<1>4. OneContentPerVersion'
  BY <1>3 DEF OneContentPerVersion, Known
<1> QED
  BY <1>2, <1>4 DEF ContentInv

THEOREM ContentInvariance == Spec => []ContentInv
<1> QED
  BY InitContentInv, ContentInvInductive, BasicInvariance, PTL DEF Spec

\* A version number of a key stands for one content for ever, whoever knows it.
THEOREM VersionsIdentifyContent == Spec => []OneContentPerVersion
<1>1. ContentInv => OneContentPerVersion
  BY DEF ContentInv
<1> QED
  BY <1>1, ContentInvariance, PTL
-----------------------------------------------------------------------------

\* A request whose statement matched nothing is not one that would match now: a
\* live record is at another version, or is someone else's.
RefusedInv ==
  \A c \in Clients :
    (/\ phase[c] = "unmatched"
     /\ req[c].op # "create"
     /\ Live(req[c].key))
      => \/ row[req[c].key].version # req[c].expected
         \/ Foreign(req[c])

LEMMA RefusedInvInductive ==
  BasicInv /\ ContentInv /\ RefusedInv /\ [Next]_vars => RefusedInv'
<1> SUFFICES ASSUME BasicInv, ContentInv, RefusedInv, [Next]_vars,
                    NEW c \in Clients,
                    phase'[c] = "unmatched", req'[c].op # "create",
                    Live(req[c].key)'
             PROVE  \/ row'[req'[c].key].version # req'[c].expected
                    \/ Foreign(req[c])'
  BY DEF RefusedInv
<1> DEFINE k == req[c].key
<1>1. \/ NoRowMatched(c)
      \/ phase[c] = "unmatched" /\ req'[c] = req[c]
  BY DEF Next, GetRecord, AuthorizeWrite, PutCreate, PutUpdate, DeleteRecord,
     NoRowMatched, RejectedWrite, ReceiveAnswer, LoseAnswer, DeleteUser, Store,
     Answer, Settle, vars, BasicInv, TypeOK, Phases
<1>2. CASE NoRowMatched(c)
  <2>1. UNCHANGED <<row, req>> /\ ~RowMatches(req[c])
    BY <1>2 DEF NoRowMatched
  <2> QED
    BY <2>1 DEF RowMatches, Foreign, Live
<1>3. CASE phase[c] = "unmatched" /\ req'[c] = req[c]
  <2>1. /\ k \in Keys /\ req[c].user \in Users
        /\ req[c].expected = seen[c][k].version /\ seen[c][k] \in Records
    BY <1>3 DEF BasicInv, RequestInv, Requests
  <2>2. row[k] # Absent /\ row[k] \in Rows /\ req[c].expected <= row[k].version
    BY <2>1 DEF ContentInv, ToldIsPast, Told, BasicInv, TypeOK
  <2>3. KeepsRecord(k) \/ StoresVersion(k)
    BY <2>1, StepOnKey
  <2>4. CASE KeepsRecord(k)
    <3>1. /\ Live(k) /\ row'[k].version = row[k].version
          /\ row'[k].createdBy \in {row[k].createdBy, Nobody}
      BY <1>3, <2>2, <2>4 DEF KeepsRecord, Live
    <3> QED
      BY <1>3, <2>1, <3>1 DEF RefusedInv, Foreign
  <2>5. CASE StoresVersion(k)
    BY <1>3, <2>1, <2>2, <2>5 DEF StoresVersion, Records, Rows
  <2> QED
    BY <2>3, <2>4, <2>5
<1> QED
  BY <1>1, <1>2, <1>3

\* A client is told the truth about a write that was not done: a conflict with a
\* version other than the one it expected, a failure for a deleted account only.
THEOREM RefusalsAreTrue == Spec => []AnswersTrue
<1>1. Init => RefusedInv /\ ConflictNamesAnotherVersion
  BY DEF Init, RefusedInv, ConflictNamesAnotherVersion
<1>2. ASSUME BasicInv, RefusedInv, ConflictNamesAnotherVersion, [Next]_vars
      PROVE  ConflictNamesAnotherVersion'
  <2> SUFFICES ASSUME NEW c \in Clients,
                      phase'[c] = "answered", reply'[c].kind = "conflict",
                      req'[c].op # "create"
               PROVE  reply'[c].version # req'[c].expected
    BY DEF ConflictNamesAnotherVersion
  <2>1. \/ RejectedWrite(c)
        \/ phase[c] = "answered" /\ reply'[c] = reply[c] /\ req'[c] = req[c]
    <3> USE DEF BasicInv, TypeOK
    <3>1. ASSUME NEW d \in Clients, NEW r, Store(d, r)
          PROVE  d # c /\ UNCHANGED <<phase[c], reply[c], req[c]>>
      BY <1>2, <3>1 DEF Store, Answer
    <3>2. ASSUME NEW d \in Clients,
                 PutCreate(d) \/ PutUpdate(d) \/ DeleteRecord(d)
          PROVE  d # c /\ UNCHANGED <<phase[c], reply[c], req[c]>>
      BY <3>1, <3>2 DEF PutCreate, PutUpdate, DeleteRecord
    <3>3. ASSUME NEW d \in Clients, RejectedWrite(d), d # c
          PROVE  UNCHANGED <<phase[c], reply[c], req[c]>>
      <4>1. PICK kind, v : Answer(d, kind, v)
        BY <3>3 DEF RejectedWrite
      <4> QED
        BY <3>3, <4>1 DEF Answer
    <3>4. ASSUME NEW d \in Clients, NoRowMatched(d) \/ Settle(d)
          PROVE  d # c /\ UNCHANGED <<phase[c], reply[c], req[c]>>
      BY <1>2, <3>4 DEF NoRowMatched, Settle
    <3> QED
      BY <1>2, <3>2, <3>3, <3>4
      DEF Next, GetRecord, AuthorizeWrite, ReceiveAnswer, LoseAnswer,
          DeleteUser, vars
  <2>2. CASE RejectedWrite(c)
    <3>1. req[c].expected \in 1 .. MaxVersion
      BY <1>2, <2>2 DEF RejectedWrite, Answer, BasicInv, RequestInv, Records
    <3>2. /\ ~Foreign(req[c]) /\ req'[c] = req[c]
          /\ reply'[c].version =
               IF Live(req[c].key) THEN row[req[c].key].version ELSE 0
      BY <1>2, <2>2 DEF RejectedWrite, Answer, BasicInv, TypeOK
    <3> QED
      BY <1>2, <2>2, <3>1, <3>2 DEF RejectedWrite, RefusedInv
  <2>3. CASE phase[c] = "answered" /\ reply'[c] = reply[c] /\ req'[c] = req[c]
    BY <1>2, <2>3 DEF ConflictNamesAnotherVersion
  <2> QED
    BY <2>1, <2>2, <2>3
<1>3. ConflictNamesAnotherVersion /\ FailureMeansAccountGone => AnswersTrue
  BY DEF AnswersTrue
<1> QED
  BY <1>1, <1>2, <1>3, RefusedInvInductive, BasicInvariance,
     ContentInvariance, OnlyCreationForDeletedAccountFails, PTL DEF Spec
-----------------------------------------------------------------------------

\* A statement that stores r for key k is seen as the record r holds, with the
\* creator and the version of r.
LEMMA StoreSeen ==
  ASSUME BasicInv, NEW k \in Keys, NEW r \in Rows,
         row' = [row EXCEPT ![k] = r]
  PROVE  /\ ~r.deleted => Current' = [Current EXCEPT ![k] =
                           [version |-> r.version, json |-> r.json]]
         /\ r.deleted => Current' = [Current EXCEPT ![k] = Absent]
         /\ Owner' = [Owner EXCEPT ![k] = r.createdBy]
         /\ High' = [High EXCEPT ![k] = r.version]
<1>1. row'[k] = r /\ \A j \in Keys \ {k} : row'[j] = row[j]
  BY DEF BasicInv, TypeOK
<1>2. r # Absent
  OBVIOUS
<1>3. \A j \in Keys \ {k} : Visible(j)' = Visible(j)
  BY <1>1 DEF Visible, Live
<1>4. Visible(k)' = IF r.deleted THEN Absent
                    ELSE [version |-> r.version, json |-> r.json]
  BY <1>1, <1>2 DEF Visible, Live
<1>5. Current' = [Current EXCEPT ![k] = Visible(k)']
  BY <1>3 DEF Current
<1>6. Owner' = [Owner EXCEPT ![k] = r.createdBy]
  <2>1. \A j \in Keys :
          (IF row'[j] = Absent THEN Nobody ELSE row'[j].createdBy) =
          (IF j = k THEN r.createdBy ELSE Owner[j])
    BY <1>1, <1>2 DEF Owner
  <2>2. Owner' = [j \in Keys |->
                  IF row'[j] = Absent THEN Nobody ELSE row'[j].createdBy]
    BY DEF Owner
  <2>3. Owner' = [j \in Keys |-> IF j = k THEN r.createdBy ELSE Owner[j]]
    BY <2>1, <2>2
  <2>4. DOMAIN Owner = Keys
    BY DEF Owner
  <2> QED
    BY <2>3, <2>4
<1>7. High' = [High EXCEPT ![k] = r.version]
  <2>1. \A j \in Keys :
          (IF row'[j] = Absent THEN 0 ELSE row'[j].version) =
          (IF j = k THEN r.version ELSE High[j])
    BY <1>1, <1>2 DEF High
  <2>2. High' = [j \in Keys |->
                  IF row'[j] = Absent THEN 0 ELSE row'[j].version]
    BY DEF High
  <2>3. High' = [j \in Keys |-> IF j = k THEN r.version ELSE High[j]]
    BY <2>1, <2>2
  <2>4. DOMAIN High = Keys
    BY DEF High
  <2> QED
    BY <2>3, <2>4
<1> QED
  BY <1>4, <1>5, <1>6, <1>7

\* The record an update or a delete finds at the version it expects is the
\* record its client knows.
LEMMA MatchIsKnown ==
  ASSUME BasicInv, ContentInv, NEW c \in Clients, NEW k \in Keys,
         Live(k), seen[c][k] \in Records,
         seen[c][k].version = row[k].version
  PROVE  seen[c][k] = Visible(k)
<1>1. seen[c][k] \in Known(k) \ {Absent} /\ Visible(k) \in Known(k)
  BY DEF Known, Told
<1>2. Visible(k) # Absent /\ Visible(k).version = row[k].version
  BY BasicInvShows DEF RowsShow
<1> QED
  BY <1>1, <1>2 DEF ContentInv, OneContentPerVersion

LEMMA StepKeepsPromise ==
  BasicInv /\ ContentInv /\ [Next]_vars => [Promise!Next]_(Promise!vars)
<1> SUFFICES ASSUME BasicInv, ContentInv, [Next]_vars
             PROVE  Promise!Next \/ UNCHANGED <<users, Current, Owner, High, seen>>
  BY DEF Promise!vars
<1> USE DEF BasicInv
<1>1. ASSUME UNCHANGED <<users, row, seen>>
      PROVE  UNCHANGED <<users, Current, Owner, High, seen>>
  BY <1>1 DEF Current, Owner, High, Visible, Live
<1>2. ASSUME NEW c \in Clients, NEW k \in Keys,
             NEW known \in Told(c, k) \cup {Visible(k), Absent},
             seen' = [seen EXCEPT ![c][k] = known],
             UNCHANGED <<users, row>>
      PROVE  Promise!Next
  <2>1. known \in Records \cup {Absent}
    BY BasicInvShows DEF ContentInv, ToldIsPast, RowsShow
  <2>2. ASSUME known # Absent
        PROVE  /\ known.version <= High[k]
               /\ Current[k] # Absent /\ Current[k].version = known.version
                    => known = Current[k]
    <3>1. known \in Known(k) \ {Absent}
      BY <2>2 DEF Known
    <3>2. row[k] # Absent /\ known.version <= row[k].version
      <4>1. CASE known \in Told(c, k)
        BY <2>2, <4>1 DEF ContentInv, ToldIsPast
      <4>2. CASE known = Visible(k)
        BY <2>2, <4>2, BasicInvShows DEF RowsShow, Live, Rows
      <4> QED
        BY <2>2, <4>1, <4>2
    <3>3. Visible(k) # Absent /\ Visible(k).version = known.version
            => known = Visible(k)
      BY <3>1 DEF ContentInv, OneContentPerVersion, Known
    <3> QED
      BY <3>2, <3>3 DEF High, Current
  <2>3. UNCHANGED <<users, Current, Owner, High>>
    BY <1>2 DEF Current, Owner, High, Visible, Live
  <2>4. Promise!Observe(c, k)
    BY <1>2, <2>1, <2>2, <2>3
    DEF Promise!Observe, Promise!Records, Records
  <2> QED
    BY <2>4 DEF Promise!Next
<1>3. ASSUME NEW c \in Clients, PutCreate(c)
      PROVE  Promise!Next \/ UNCHANGED <<users, Current, Owner, High, seen>>
  <2> DEFINE q == req[c]
             k == q.key
             r == CreatedRow(q)
  <2>1. /\ q.user \in Users /\ k \in Keys /\ r \in Rows /\ ~r.deleted
        /\ r.json = q.json /\ r.json \in Data /\ r.createdBy = q.user
        /\ r.version = NextVersion(k)
        /\ row[k] # Absent => row[k] \in Rows
        /\ ~Live(k) /\ Store(c, r)
    BY <1>3, CreateStores DEF PutCreate, Requests
  <2>2. q.key \in AdminOnly => q.user \in Admins
    BY <1>3 DEF PutCreate, RequestInv, PolicyAllows
  <2> HIDE DEF r
  <2>3. CASE Storable(r)
    <3>1. /\ row' = [row EXCEPT ![k] = r]
          /\ users' = users /\ seen' = seen
      BY <2>1, <2>3 DEF Store, Answer
    <3>2. q.user \in users
      BY <2>1, <2>3 DEF Storable
    <3>3. Current[k] = Absent /\ r.version \in High[k] + 1 .. MaxVersion
      BY <2>1 DEF Current, High, Visible, NextVersion, Rows
    <3>4. Promise!Publish(k, q.json) /\ Owner' = [Owner EXCEPT ![k] = q.user]
      <4>1. /\ Current' = [Current EXCEPT ![k] =
                             [version |-> r.version, json |-> r.json]]
            /\ Owner' = [Owner EXCEPT ![k] = r.createdBy]
            /\ High' = [High EXCEPT ![k] = r.version]
        BY <2>1, <3>1, StoreSeen
      <4>2. r.json = q.json /\ r.createdBy = q.user
        BY <2>1
      <4> QED
        BY <3>3, <4>1, <4>2 DEF Promise!Publish
    <3>5. Promise!Create(q.user, k, q.json)
      BY <2>2, <3>1, <3>2, <3>3, <3>4 DEF Promise!Create
    <3> QED
      BY <2>1, <3>5 DEF Promise!Next
  <2>4. CASE ~Storable(r)
    BY <1>1, <2>1, <2>4 DEF Store, Answer
  <2> QED
    BY <2>3, <2>4<1>4. ASSUME NEW c \in Clients, PutUpdate(c)
      PROVE  Promise!Next
  <2> DEFINE q == req[c]
             k == q.key
             r == UpdatedRow(q)
  <2>1. /\ q.user \in Users /\ k \in Keys /\ r \in Rows /\ ~r.deleted
        /\ r.json = q.json /\ r.json \in Data
        /\ r.createdBy = row[k].createdBy
        /\ r.version = row[k].version + 1
        /\ row[k] \in Rows /\ Live(k) /\ RowMatches(q)
        /\ seen[c][k] \in Records /\ seen[c][k].version = row[k].version
        /\ Store(c, r) /\ Storable(r)
    BY <1>4, UpdateStores DEF PutUpdate, Requests
  <2>2. q.key \in AdminOnly => q.user \in Admins
    BY <1>4 DEF PutUpdate, RequestInv, PolicyAllows
  <2> HIDE DEF r
  <2>3. /\ row' = [row EXCEPT ![k] = r]
        /\ users' = users /\ seen' = seen
    BY <2>1 DEF Store, Answer
  <2>4. Current[k] # Absent /\ seen[c][k] = Current[k]
    BY <2>1, MatchIsKnown, BasicInvShows DEF Current, RowsShow
  <2>5. /\ r.version \in High[k] + 1 .. MaxVersion
        /\ Owner[k] = r.createdBy
    BY <2>1 DEF High, Owner, Live, Rows
  <2>6. q.user \in Admins \/ (k \notin AdminOnly /\ Owner[k] = q.user)
    BY <2>1, <2>2 DEF RowMatches, Owner, Live
  <2>7. Owner' = Owner
    BY <2>1, <2>3, <2>5, StoreSeen DEF Owner
  <2>8. Promise!Publish(k, q.json)
    <3>1. /\ Current' = [Current EXCEPT ![k] =
                           [version |-> r.version, json |-> r.json]]
          /\ High' = [High EXCEPT ![k] = r.version]
      BY <2>1, <2>3, StoreSeen
    <3>2. r.json = q.json
      BY <2>1
    <3> QED
      BY <2>5, <3>1, <3>2 DEF Promise!Publish
  <2>9. Promise!Replace(c, q.user, k, q.json)
    BY <2>3, <2>4, <2>6, <2>7, <2>8 DEF Promise!Replace, Promise!Entitled
  <2> QED
    BY <2>1, <2>9 DEF Promise!Next
<1>5. ASSUME NEW c \in Clients, DeleteRecord(c)
      PROVE  Promise!Next
  <2> DEFINE q == req[c]
             k == q.key
             r == Tombstone(q)
  <2>1. /\ q.user \in Users /\ k \in Keys /\ r \in Rows /\ r.deleted
        /\ r.createdBy = Nobody /\ r.version = row[k].version
        /\ row[k] \in Rows /\ Live(k) /\ RowMatches(q)
        /\ seen[c][k] \in Records /\ seen[c][k].version = row[k].version
        /\ Store(c, r) /\ Storable(r)
    BY <1>5, DeleteStores DEF DeleteRecord, Requests
  <2>2. q.key \in AdminOnly => q.user \in Admins
    BY <1>5 DEF DeleteRecord, RequestInv, PolicyAllows
  <2> HIDE DEF r
  <2>3. /\ row' = [row EXCEPT ![k] = r]
        /\ users' = users /\ seen' = seen
    BY <2>1 DEF Store, Answer
  <2>4. Current[k] # Absent /\ seen[c][k] = Current[k]
    BY <2>1, MatchIsKnown, BasicInvShows DEF Current, RowsShow
  <2>5. q.user \in Admins \/ (k \notin AdminOnly /\ Owner[k] = q.user)
    BY <2>1, <2>2 DEF RowMatches, Owner, Live
  <2>6. High' = High
    BY <2>1, <2>3, StoreSeen DEF High, Live
  <2>7. Promise!Remove(c, q.user, k)
    BY <2>1, <2>3, <2>4, <2>5, <2>6, StoreSeen
    DEF Promise!Remove, Promise!Entitled
  <2> QED
    BY <2>1, <2>7 DEF Promise!Next
<1>6. ASSUME NEW c \in Clients, ReceiveAnswer(c)
      PROVE  Promise!Next \/ UNCHANGED <<users, row, seen>>
  <2> DEFINE k == req[c].key
             got == IF req[c].op = "delete" THEN Absent
                    ELSE [version |-> reply[c].version, json |-> req[c].json]
  <2>1. CASE reply[c].kind = "ok"
    <3>1. k \in Keys /\ got \in Told(c, k) \cup {Visible(k), Absent}
      BY <1>6, <2>1
      DEF ReceiveAnswer, Settle, RequestInv, Requests, Told
    <3>2. seen' = [seen EXCEPT ![c][k] = got] /\ UNCHANGED <<users, row>>
      BY <1>6, <2>1 DEF ReceiveAnswer, Settle
    <3> HIDE DEF got
    <3> QED
      BY <1>2, <3>1, <3>2
  <2>2. CASE reply[c].kind # "ok"
    BY <1>6, <2>2 DEF ReceiveAnswer, Settle
  <2> QED
    BY <2>1, <2>2
<1>7. ASSUME NEW admin \in Admins, NEW u \in Users, DeleteUser(admin, u)
      PROVE  Promise!Next
  <2>1. \A k \in Keys : row[k] # Absent => row[k] \in Rows
    BY DEF TypeOK
  <2>2. \A k \in Keys : row[k] # Absent =>
          /\ [row[k] EXCEPT !.createdBy = Nobody] \in Rows
          /\ [row[k] EXCEPT !.createdBy = Nobody].createdBy = Nobody
          /\ [row[k] EXCEPT !.createdBy = Nobody].deleted = row[k].deleted
          /\ [row[k] EXCEPT !.createdBy = Nobody].json = row[k].json
          /\ [row[k] EXCEPT !.createdBy = Nobody].version = row[k].version
    BY <2>1 DEF Rows
  <2>3. UNCHANGED <<Current, High, seen>>
    BY <1>7, <2>2 DEF DeleteUser, Current, High, Visible, Live
  <2>4. Owner' = [k \in Keys |-> IF Owner[k] = u THEN Nobody ELSE Owner[k]]
    BY <1>7, <2>2 DEF DeleteUser, Owner
  <2>5. Promise!CloseAccount(u)
    BY <1>7, <2>3, <2>4
    DEF DeleteUser, Promise!CloseAccount
  <2> QED
    BY <2>5 DEF Promise!Next
<1>8. ASSUME NEW c \in Clients, NEW k \in Keys, GetRecord(c, k)
      PROVE  Promise!Next
  BY <1>2, <1>8 DEF GetRecord
<1> QED
  BY <1>1, <1>3, <1>4, <1>5, <1>6, <1>7, <1>8
  DEF Next, AuthorizeWrite, NoRowMatched, RejectedWrite, Answer, LoseAnswer,
      Settle, vars

\* RecordStore implements VersionedRecords: no write takes effect on a record
\* its writer did not know, or on one that is neither its own nor open to it as
\* an admin, and no version of a key is used twice.
THEOREM StoreKeepsPromise == Spec => KeepsPromise
<1>1. Init => Promise!Init
  BY DEF Init, Promise!Init, Visible, Live, Current, Owner, High
<1> QED
  BY <1>1, StepKeepsPromise, BasicInvariance, ContentInvariance, PTL
  DEF Spec, KeepsPromise, Promise!Spec
=============================================================================
