--------------------------- MODULE ServerGuardsProofs ---------------------------
(***************************************************************************)
(* For any number of accounts, requests, photos, slots, names, addresses   *)
(* and attempts: deletions leave an administrator, and each takes place at *)
(* one moment; the gates of the photo extraction count the requests inside *)
(* them, and the buckets of the login limits count the attempts that run.  *)
(***************************************************************************)
EXTENDS ServerGuards, FiniteSetTheorems, TLAPS

-----------------------------------------------------------------------------
(* The deletion of accounts.                                               *)

USE DeletionAssumption DEF Nobody

\* Whoever has been returned by the locking select is held: the lock is the
\* transaction's, and nobody else can have removed the account.
HeldInv ==
  \A d \in Deleters : \A u \in admins[d] :
    locker[u] = d /\ u \in users

\* A transaction that is about to delete holds its caller, and deletes another.
DeletingInv ==
  \A d \in Deleters : stage[d] = "deleting" =>
    /\ caller[d] \in admins[d]
    /\ target[d] \in Ids \ {caller[d]}

\* An account that was removed is not given again.
RemovedInv == \A u \in Ids : remover[u] # Nobody => u \in used

IInv ==
  /\ TypeOK
  /\ HeldInv
  /\ DeletingInv
  /\ RemovedInv
  /\ AdminRemains

-----------------------------------------------------------------------------

LEMMA InitIInv == Init => IInv
<1> SUFFICES ASSUME Init PROVE IInv
  OBVIOUS
<1> USE DEF Init
<1>1. TypeOK
  BY DEF TypeOK
<1>2. HeldInv /\ DeletingInv /\ RemovedInv
  BY DEF HeldInv, DeletingInv, RemovedInv
<1>3. AdminRemains
  BY DEF AdminRemains
<1> QED
  BY <1>1, <1>2, <1>3 DEF IInv

LEMMA CreateStep ==
  ASSUME IInv, NEW u \in Ids, Create(u)
  PROVE  IInv'
<1> USE DEF IInv, Create
<1>1. TypeOK'
  BY DEF TypeOK
<1>2. HeldInv'
  BY DEF HeldInv
<1>3. DeletingInv'
  BY DEF DeletingInv
<1>4. RemovedInv'
  BY DEF RemovedInv
<1>5. AdminRemains'
  BY DEF AdminRemains
<1> QED
  BY <1>1, <1>2, <1>3, <1>4, <1>5

\* A row lock of another transaction: it is taken only if it is free.
LEMMA LockStep ==
  ASSUME IInv, NEW u \in Ids, Lock(u) \/ Unlock(u)
  PROVE  IInv'
<1> USE DEF IInv
<1>1. /\ UNCHANGED <<users, remover, used, stage, caller, target, todo, admins>>
      /\ locker[u] \in {Unlocked, Another}
      /\ \E x \in {Unlocked, Another} : locker' = [locker EXCEPT ![u] = x]
  BY DEF Lock, Unlock
<1>2. TypeOK'
  BY <1>1 DEF TypeOK
<1>3. HeldInv'
  <2> SUFFICES ASSUME NEW d \in Deleters, NEW v \in admins[d]
               PROVE  locker'[v] = d /\ v \in users
    BY <1>1 DEF HeldInv
  <2>1. locker[v] = d /\ v \in users /\ v # u
    BY <1>1 DEF HeldInv
  <2> QED
    BY <1>1, <2>1 DEF TypeOK
<1>4. DeletingInv' /\ RemovedInv' /\ AdminRemains'
  BY <1>1 DEF DeletingInv, RemovedInv, AdminRemains
<1> QED
  BY <1>2, <1>3, <1>4

LEMMA CallStep ==
  ASSUME IInv, NEW d \in Deleters, NEW a \in Ids, NEW u \in Ids, Call(d, a, u)
  PROVE  IInv'
<1> USE DEF IInv, Call
<1>1. TypeOK'
  BY DEF TypeOK
<1>2. HeldInv'
  BY DEF HeldInv
<1>3. DeletingInv'
  BY DEF DeletingInv, TypeOK
<1>4. RemovedInv' /\ AdminRemains'
  BY DEF RemovedInv, AdminRemains
<1> QED
  BY <1>1, <1>2, <1>3, <1>4

LEMMA SelectStep ==
  ASSUME IInv, NEW d \in Deleters, Select(d)
  PROVE  IInv'
<1> USE DEF IInv, Select
<1>1. TypeOK'
  BY DEF TypeOK, AdminRows
<1>2. HeldInv'
  BY DEF HeldInv
<1>3. DeletingInv'
  BY DEF DeletingInv, TypeOK
<1>4. RemovedInv' /\ AdminRemains'
  BY DEF RemovedInv, AdminRemains
<1> QED
  BY <1>1, <1>2, <1>3, <1>4

LEMMA LockNextStep ==
  ASSUME IInv, NEW d \in Deleters, LockNext(d)
  PROVE  IInv'
<1> USE DEF IInv
<1>1. PICK u \in NextRows(todo[d]) :
        /\ todo' = [todo EXCEPT ![d] = @ \ {u}]
        /\ Lockable(d, u)
        /\ IF u \in users
           THEN /\ locker' = [locker EXCEPT ![u] = d]
                /\ admins' = [admins EXCEPT ![d] = @ \cup {u}]
           ELSE UNCHANGED <<locker, admins>>
  BY DEF LockNext
<1>2. /\ UNCHANGED <<users, remover, used, stage, caller, target>>
      /\ stage[d] = "locking"
  BY DEF LockNext
<1>3. u \in Admins /\ u \in Ids
  BY DEF NextRows, TypeOK
<1>4. TypeOK'
  BY <1>1, <1>2, <1>3 DEF TypeOK
<1>5. HeldInv'
  <2> SUFFICES ASSUME NEW e \in Deleters, NEW v \in admins'[e]
               PROVE  locker'[v] = e /\ v \in users
    BY <1>2 DEF HeldInv
  <2>1. CASE v \in admins[e]
    <3>1. locker[v] = e /\ v \in users /\ v \in Ids
      BY <2>1 DEF HeldInv, TypeOK
    <3>2. locker[u] \in {Unlocked, d}
      BY <1>1 DEF Lockable
    <3> QED
      BY <1>1, <1>3, <3>1, <3>2 DEF TypeOK
  <2>2. CASE v \notin admins[e]
    <3>1. e = d /\ v = u /\ u \in users
      BY <1>1, <2>2 DEF TypeOK
    <3> QED
      BY <1>1, <1>3, <3>1 DEF TypeOK
  <2> QED
    BY <2>1, <2>2
<1>6. DeletingInv'
  <2>1. \A e \in Deleters : stage[e] = "deleting" => admins'[e] = admins[e]
    BY <1>1, <1>2 DEF TypeOK
  <2> QED
    BY <1>2, <2>1 DEF DeletingInv
<1>7. RemovedInv' /\ AdminRemains'
  BY <1>2 DEF RemovedInv, AdminRemains
<1> QED
  BY <1>4, <1>5, <1>6, <1>7

\* The end of a transaction leaves the locks of the others alone.
LEMMA DoneHolds ==
  ASSUME IInv, NEW d \in Deleters, Done(d)
  PROVE  \A e \in Deleters \ {d} :
           /\ admins'[e] = admins[e] /\ stage'[e] = stage[e]
           /\ caller'[e] = caller[e] /\ target'[e] = target[e]
           /\ \A u \in Ids : locker[u] = e => locker'[u] = e
BY DEF IInv, TypeOK, Done

LEMMA DoneTypes ==
  ASSUME TypeOK, NEW d \in Deleters, Done(d), UNCHANGED <<used, todo>>,
         users' \subseteq used, remover' \in [Ids -> Ids \cup {Nobody}]
  PROVE  TypeOK'
BY DEF TypeOK, Done

LEMMA CheckStep ==
  ASSUME IInv, NEW d \in Deleters, Check(d)
  PROVE  IInv'
<1> USE DEF IInv
<1>1. UNCHANGED <<users, remover, used, todo>>
  BY DEF Check
<1>2. CASE Acceptable(d)
  <2>1. /\ stage' = [stage EXCEPT ![d] = "deleting"]
        /\ UNCHANGED <<locker, caller, target, admins>>
    BY <1>2 DEF Check
  <2>2. caller[d] \in admins[d] /\ target[d] \in Ids \ {caller[d]}
    BY <1>2 DEF Acceptable, CallerStays, TypeOK
  <2>3. TypeOK'
    BY <1>1, <2>1 DEF TypeOK
  <2>4. HeldInv' /\ RemovedInv' /\ AdminRemains'
    BY <1>1, <2>1 DEF HeldInv, RemovedInv, AdminRemains
  <2>5. DeletingInv'
    BY <2>1, <2>2 DEF DeletingInv, TypeOK
  <2> QED
    BY <2>3, <2>4, <2>5
<1>3. CASE ~Acceptable(d)
  <2>1. Done(d)
    BY <1>3 DEF Check
  <2>2. admins'[d] = {} /\ stage'[d] = "idle"
    BY <2>1 DEF Done, TypeOK
  <2>3. TypeOK'
    BY <1>1, <2>1, DoneTypes DEF TypeOK
  <2>4. HeldInv'
    <3> SUFFICES ASSUME NEW e \in Deleters, NEW v \in admins'[e]
                 PROVE  locker'[v] = e /\ v \in users
      BY <1>1 DEF HeldInv
    <3>1. e # d /\ v \in admins[e]
      BY <2>1, <2>2, DoneHolds
    <3>2. locker[v] = e /\ v \in users /\ v \in Ids
      BY <3>1 DEF HeldInv, TypeOK
    <3> QED
      BY <2>1, <3>1, <3>2, DoneHolds
  <2>5. DeletingInv'
    BY <2>1, <2>2, DoneHolds DEF DeletingInv
  <2>6. RemovedInv' /\ AdminRemains'
    BY <1>1 DEF RemovedInv, AdminRemains
  <2> QED
    BY <2>3, <2>4, <2>5, <2>6
<1> QED
  BY <1>2, <1>3

\* The account that a deletion removes is held by nobody else, and its caller is
\* an administrator who stays.
LEMMA DeleteFacts ==
  ASSUME IInv, NEW d \in Deleters, Delete(d)
  PROVE  /\ target[d] \in Ids
         /\ caller[d] \in users \cap Admins /\ caller[d] # target[d]
         /\ \A e \in Deleters \ {d} : target[d] \notin admins[e]
<1>1. stage[d] = "deleting" /\ locker[target[d]] \in {Unlocked, d}
  BY DEF Delete, Lockable
<1>2. target[d] \in Ids /\ caller[d] # target[d] /\ caller[d] \in admins[d]
  BY <1>1 DEF IInv, DeletingInv
<1>3. caller[d] \in users \cap Admins
  BY <1>2 DEF IInv, HeldInv, TypeOK
<1>4. \A e \in Deleters \ {d} : target[d] \notin admins[e]
  BY <1>1 DEF IInv, HeldInv
<1> QED
  BY <1>2, <1>3, <1>4

LEMMA DeleteStep ==
  ASSUME IInv, NEW d \in Deleters, Delete(d)
  PROVE  IInv'
<1> USE DEF IInv
<1>1. /\ users' = users \ {target[d]} /\ Done(d) /\ UNCHANGED <<used, todo>>
      /\ remover' = IF target[d] \in users
                    THEN [remover EXCEPT ![target[d]] = caller[d]] ELSE remover
  BY DEF Delete
<1>2. /\ target[d] \in Ids
      /\ caller[d] \in users \cap Admins /\ caller[d] # target[d]
      /\ \A e \in Deleters \ {d} : target[d] \notin admins[e]
  BY DeleteFacts
<1>3. admins'[d] = {} /\ stage'[d] = "idle"
  BY <1>1 DEF Done, TypeOK
<1>4. TypeOK'
  <2>1. users' \subseteq used /\ remover' \in [Ids -> Ids \cup {Nobody}]
    BY <1>1, <1>2 DEF TypeOK
  <2> QED
    BY <1>1, <2>1, DoneTypes
<1>5. HeldInv'
  <2> SUFFICES ASSUME NEW e \in Deleters, NEW v \in admins'[e]
               PROVE  locker'[v] = e /\ v \in users'
    BY DEF HeldInv
  <2>1. e # d /\ v \in admins[e]
    BY <1>1, <1>3, DoneHolds
  <2>2. locker[v] = e /\ v \in users /\ v \in Ids
    BY <2>1 DEF HeldInv, TypeOK
  <2>3. v # target[d]
    BY <1>2, <2>1
  <2> QED
    BY <1>1, <2>1, <2>2, <2>3, DoneHolds
<1>6. DeletingInv'
  BY <1>1, <1>3, DoneHolds DEF DeletingInv
<1>7. RemovedInv'
  BY <1>1, <1>2 DEF RemovedInv, TypeOK
<1>8. AdminRemains'
  BY <1>1, <1>2 DEF AdminRemains
<1> QED
  BY <1>4, <1>5, <1>6, <1>7, <1>8

LEMMA IInvStep == IInv /\ [Next]_vars => IInv'
<1> SUFFICES ASSUME IInv, [Next]_vars PROVE IInv'
  OBVIOUS
<1>1. ASSUME NEW u \in Ids, Create(u) PROVE IInv'
  BY <1>1, CreateStep
<1>2. ASSUME NEW u \in Ids, Lock(u) \/ Unlock(u) PROVE IInv'
  BY <1>2, LockStep
<1>3. ASSUME NEW d \in Deleters, NEW a \in Ids, NEW u \in Ids, Call(d, a, u)
      PROVE  IInv'
  BY <1>3, CallStep
<1>4. ASSUME NEW d \in Deleters, Select(d) PROVE IInv'
  BY <1>4, SelectStep
<1>5. ASSUME NEW d \in Deleters, LockNext(d) PROVE IInv'
  BY <1>5, LockNextStep
<1>6. ASSUME NEW d \in Deleters, Check(d) PROVE IInv'
  BY <1>6, CheckStep
<1>7. ASSUME NEW d \in Deleters, Delete(d) PROVE IInv'
  BY <1>7, DeleteStep
<1>8. CASE UNCHANGED vars
  BY <1>8 DEF vars, IInv, TypeOK, HeldInv, DeletingInv, RemovedInv, AdminRemains
<1> QED
  BY <1>1, <1>2, <1>3, <1>4, <1>5, <1>6, <1>7, <1>8 DEF Next

THEOREM DeletionInductive == Spec => []IInv
<1>1. Spec => Init /\ [][Next]_vars
  BY DEF Spec, Safety
<1> QED
  BY <1>1, InitIInv, IInvStep, PTL

-----------------------------------------------------------------------------

\* Every variable keeps its type; in particular only rows of administrators are
\* ever locked by the select.
THEOREM DeletionTypeOK == Spec => []TypeOK
<1>1. IInv => TypeOK
  BY DEF IInv
<1> QED
  BY <1>1, DeletionInductive, PTL

\* However many administrators delete however many others at once, one remains.
THEOREM DeletionLeavesAdmin == Spec => []AdminRemains
<1>1. IInv => AdminRemains
  BY DEF IInv
<1> QED
  BY <1>1, DeletionInductive, PTL

LEMMA StepMaps ==
  ASSUME IInv, [Next]_vars
  PROVE  [Promise!Next]_<<users, remover>>
<1> USE DEF Promise!Next
<1>1. ASSUME NEW u \in Ids, Create(u) PROVE Promise!Next
  <2>1. remover[u] = Nobody
    BY <1>1 DEF Create, IInv, RemovedInv
  <2>2. u \notin users
    BY <1>1 DEF Create, IInv, TypeOK
  <2> QED
    BY <1>1, <2>1, <2>2 DEF Create, Promise!Create, Promise!Nobody
<1>2. ASSUME NEW d \in Deleters, Delete(d)
      PROVE  Promise!Next \/ UNCHANGED <<users, remover>>
  <2>1. /\ target[d] \in Ids
        /\ caller[d] \in users \cap Admins /\ caller[d] # target[d]
        /\ users' = users \ {target[d]}
        /\ remover' = IF target[d] \in users
                      THEN [remover EXCEPT ![target[d]] = caller[d]] ELSE remover
    BY <1>2, DeleteFacts DEF Delete
  <2>2. CASE target[d] \in users
    <3>1. Promise!Remove(caller[d], target[d])
      BY <2>1, <2>2 DEF Promise!Remove
    <3> QED
      BY <2>1, <3>1
  <2>3. CASE target[d] \notin users
    BY <2>1, <2>3
  <2> QED
    BY <2>2, <2>3
<1>3. ASSUME NEW u \in Ids, Lock(u) \/ Unlock(u)
      PROVE  UNCHANGED <<users, remover>>
  BY <1>3 DEF Lock, Unlock
<1>4. ASSUME NEW d \in Deleters,
             \/ \E a \in Ids, u \in Ids : Call(d, a, u)
             \/ Select(d) \/ LockNext(d) \/ Check(d)
      PROVE  UNCHANGED <<users, remover>>
  BY <1>4 DEF Call, Select, LockNext, Check
<1>5. CASE UNCHANGED vars
  BY <1>5 DEF vars
<1> QED
  BY <1>1, <1>2, <1>3, <1>4, <1>5 DEF Next

\* The transaction implements removal at one moment by an administrator who is one
\* at that moment: the row locks make its checks as good as simultaneous.
THEOREM DeletionKeepsPromise == Spec => KeepsPromise
<1>1. Init => Promise!Init
  BY DEF Init, Promise!Init, Promise!Nobody
<1>2. Spec => Init /\ [][Next]_vars
  BY DEF Spec, Safety
<1> QED
  BY <1>1, <1>2, StepMaps, DeletionInductive, PTL DEF KeepsPromise, Promise!Spec

-----------------------------------------------------------------------------
(* The operators of FiniteSets in the instances.                           *)

\* The instances have copies of the operators of FiniteSets.
LEMMA PhotosCounted ==
  ASSUME NEW S
  PROVE  /\ Import!Cardinality(S) = Cardinality(S)
         /\ Import!IsFiniteSet(S) <=> IsFiniteSet(S)
<1>1. Import!Cardinality(S) = Cardinality(S)
  BY DEF Cardinality, Import!Cardinality
<1>2. Import!IsFiniteSet(S) <=> IsFiniteSet(S)
  BY DEF IsFiniteSet, Import!IsFiniteSet
<1> QED
  BY <1>1, <1>2

LEMMA AttemptsCounted ==
  ASSUME NEW S
  PROVE  /\ Limiter!Cardinality(S) = Cardinality(S)
         /\ Limiter!IsFiniteSet(S) <=> IsFiniteSet(S)
<1>1. Limiter!Cardinality(S) = Cardinality(S)
  BY DEF Cardinality, Limiter!Cardinality
<1>2. Limiter!IsFiniteSet(S) <=> IsFiniteSet(S)
  BY DEF IsFiniteSet, Limiter!IsFiniteSet
<1> QED
  BY <1>1, <1>2

-----------------------------------------------------------------------------
(* The slots of the photo extraction.                                      *)

InUpload == {"uploading"}

InModel == {"encoding", "asking"}

At(stages, G) == {p \in Photos : stages[p] \in G}

SlotsInv ==
  /\ photo \in [Photos -> Import!Stages]
  /\ uploads = Cardinality(At(photo, InUpload))
  /\ extractions = Cardinality(At(photo, InModel))

\* A set of photos with one more or one less.
LEMMA CountOne ==
  ASSUME NEW S, IsFiniteSet(S), NEW p
  PROVE  /\ Cardinality(S) \in Nat
         /\ p \notin S => Cardinality(S \cup {p}) = Cardinality(S) + 1
         /\ p \in S => Cardinality(S \ {p}) = Cardinality(S) - 1
  BY FS_CardinalityType, FS_AddElement, FS_RemoveElement

\* The number of photos at some stages, when one photo moves on.
LEMMA CountMoves ==
  ASSUME SlotsInv, NEW p \in Photos, NEW next,
         photo' = [photo EXCEPT ![p] = next], NEW G
  PROVE  /\ Cardinality(At(photo, G)) \in Nat
         /\ photo[p] \notin G /\ next \in G =>
              Cardinality(At(photo', G)) = Cardinality(At(photo, G)) + 1
         /\ photo[p] \in G /\ next \notin G =>
              Cardinality(At(photo', G)) = Cardinality(At(photo, G)) - 1
         /\ (photo[p] \in G <=> next \in G) =>
              Cardinality(At(photo', G)) = Cardinality(At(photo, G))
<1>1. IsFiniteSet(At(photo, G))
  BY SlotsAssumption, PhotosCounted, FS_Subset DEF Import!PhotoAssumption, At
<1>2. ASSUME photo[p] \notin G, next \in G
      PROVE  p \notin At(photo, G) /\ At(photo', G) = At(photo, G) \cup {p}
  BY <1>2 DEF SlotsInv, At
<1>3. ASSUME photo[p] \in G, next \notin G
      PROVE  p \in At(photo, G) /\ At(photo', G) = At(photo, G) \ {p}
  BY <1>3 DEF SlotsInv, At
<1>4. ASSUME photo[p] \in G <=> next \in G
      PROVE  At(photo', G) = At(photo, G)
  BY <1>4 DEF SlotsInv, At
<1> QED
  BY <1>1, <1>2, <1>3, <1>4, CountOne

\* A step between stages outside the gates.
LEMMA OutsideGates ==
  ASSUME SlotsInv, NEW p \in Photos, NEW next \in Import!Stages,
         photo' = [photo EXCEPT ![p] = next],
         photo[p] \notin {"uploading", "encoding", "asking"},
         next \notin {"uploading", "encoding", "asking"},
         UNCHANGED <<uploads, extractions>>
  PROVE  SlotsInv'
<1>1. /\ photo[p] \notin InUpload /\ next \notin InUpload
      /\ photo[p] \notin InModel /\ next \notin InModel
  BY DEF InUpload, InModel
<1>2. photo' \in [Photos -> Import!Stages]
  BY DEF SlotsInv
<1>3. /\ uploads = Cardinality(At(photo, InUpload))
      /\ extractions = Cardinality(At(photo, InModel))
  BY DEF SlotsInv
<1>4. uploads' = Cardinality(At(photo', InUpload))
  BY <1>1, <1>3, CountMoves
<1>5. extractions' = Cardinality(At(photo', InModel))
  BY <1>1, <1>3, CountMoves
<1> QED
  BY <1>2, <1>4, <1>5 DEF SlotsInv, InUpload, InModel, At

LEMMA UploadGate ==
  ASSUME SlotsInv, NEW p \in Photos, NEW next \in Import!Stages,
         photo' = [photo EXCEPT ![p] = next],
         \/ photo[p] = "sent" /\ next = "uploading" /\ uploads' = uploads + 1
         \/ photo[p] = "uploading" /\ next = "settled" /\ uploads' = uploads - 1,
         extractions' = extractions
  PROVE  SlotsInv'
<1>1. /\ photo[p] \notin InModel /\ next \notin InModel
      /\ \/ /\ photo[p] \notin InUpload /\ next \in InUpload
            /\ uploads' = uploads + 1
         \/ /\ photo[p] \in InUpload /\ next \notin InUpload
            /\ uploads' = uploads - 1
  BY DEF InUpload, InModel
<1>2. photo' \in [Photos -> Import!Stages]
  BY DEF SlotsInv
<1>3. /\ uploads = Cardinality(At(photo, InUpload))
      /\ extractions = Cardinality(At(photo, InModel))
  BY DEF SlotsInv
<1>4. uploads' = Cardinality(At(photo', InUpload))
  BY <1>1, <1>3, CountMoves
<1>5. extractions' = Cardinality(At(photo', InModel))
  BY <1>1, <1>3, CountMoves
<1> QED
  BY <1>2, <1>4, <1>5 DEF SlotsInv, InUpload, InModel, At

LEMMA ModelGate ==
  ASSUME SlotsInv, NEW p \in Photos, NEW next \in Import!Stages,
         photo' = [photo EXCEPT ![p] = next],
         \/ /\ photo[p] = "uploading" /\ next = "encoding"
            /\ uploads' = uploads - 1 /\ extractions' = extractions + 1
         \/ /\ photo[p] = "encoding" /\ next = "asking"
            /\ uploads' = uploads /\ extractions' = extractions
         \/ /\ photo[p] \in {"encoding", "asking"} /\ next = "settled"
            /\ uploads' = uploads /\ extractions' = extractions - 1
  PROVE  SlotsInv'
<1>1. /\ next \notin InUpload
      /\ \/ photo[p] \in InUpload /\ uploads' = uploads - 1
         \/ photo[p] \notin InUpload /\ uploads' = uploads
      /\ \/ /\ photo[p] \notin InModel /\ next \in InModel
            /\ extractions' = extractions + 1
         \/ /\ photo[p] \in InModel /\ next \in InModel
            /\ extractions' = extractions
         \/ /\ photo[p] \in InModel /\ next \notin InModel
            /\ extractions' = extractions - 1
  BY DEF InUpload, InModel
<1>2. photo' \in [Photos -> Import!Stages]
  BY DEF SlotsInv
<1>3. /\ uploads = Cardinality(At(photo, InUpload))
      /\ extractions = Cardinality(At(photo, InModel))
  BY DEF SlotsInv
<1>4. uploads' = Cardinality(At(photo', InUpload))
  BY <1>1, <1>3, CountMoves
<1>5. extractions' = Cardinality(At(photo', InModel))
  BY <1>1, <1>3, CountMoves
<1> QED
  BY <1>2, <1>4, <1>5 DEF SlotsInv, InUpload, InModel, At

LEMMA SlotsInit == Import!Init => SlotsInv
<1> SUFFICES ASSUME Import!Init PROVE SlotsInv
  OBVIOUS
<1>1. At(photo, InUpload) = {} /\ At(photo, InModel) = {}
  BY DEF Import!Init, At, InUpload, InModel
<1> QED
  BY <1>1, FS_EmptySet DEF Import!Init, Import!Stages, SlotsInv

LEMMA SlotsStep == SlotsInv /\ Import!Next => SlotsInv'
<1> SUFFICES ASSUME SlotsInv, Import!Next PROVE SlotsInv'
  OBVIOUS
<1> USE DEF Import!gates, Import!photoVars
<1>1. ASSUME UNCHANGED <<photo, uploads, extractions>> PROVE SlotsInv'
  BY <1>1 DEF SlotsInv
<1>2. ASSUME NEW w \in Windows, Import!InBrowser(w) PROVE SlotsInv'
  <2>1. CASE \E p \in Photos : Import!ChoosePhoto(w, p)
    BY <2>1, OutsideGates, UploadGate, ModelGate DEF Import!ChoosePhoto, Import!Stages
  <2>2. CASE ~\E p \in Photos : Import!ChoosePhoto(w, p)
    BY <1>1, <1>2, <2>2
    DEF Import!InBrowser, Import!OpenForm, Import!Type, Import!Submit,
        Import!Saved, Import!SaveFailed, Import!CloseForm
  <2> QED
    BY <2>1, <2>2
<1>3. ASSUME NEW p \in Photos, Import!OnItsWay(p) PROVE SlotsInv'
  <2>1. CASE Import!Prepare(p) \/ Import!NotSent(p) \/ Import!Deliver(p)
    BY <2>1, OutsideGates, UploadGate, ModelGate
    DEF Import!Prepare, Import!NotSent, Import!Deliver, Import!Stages
  <2>2. CASE Import!Disconnect(p) \/ Import!ConnectionLost(p)
    BY <1>1, <2>2 DEF Import!Disconnect, Import!ConnectionLost
  <2> QED
    BY <1>3, <2>1, <2>2 DEF Import!OnItsWay
<1>4. ASSUME NEW p \in Photos, Import!InRoute(p) PROVE SlotsInv'
  <2> USE DEF Import!Settle
  <2>1. CASE Import!Arrive(p)
    BY <2>1, OutsideGates, UploadGate, ModelGate DEF Import!Arrive, Import!Stages
  <2>2. CASE Import!UploadFails(p)
    BY <2>2, OutsideGates, UploadGate, ModelGate
    DEF Import!UploadFails, Import!ReleaseUpload, Import!Stages
  <2>3. CASE Import!Received(p)
    BY <2>3, OutsideGates, UploadGate, ModelGate
    DEF Import!Received, Import!ReleaseUpload, Import!Stages
  <2>4. CASE Import!Encoded(p)
    BY <2>4, OutsideGates, UploadGate, ModelGate DEF Import!Encoded, Import!Leave, Import!Stages
  <2>5. CASE Import!Answered(p)
    BY <1>1, <2>5, OutsideGates, UploadGate, ModelGate DEF Import!Answered, Import!Leave, Import!Stages
  <2>6. CASE Import!AskFails(p)
    BY <2>6, OutsideGates, UploadGate, ModelGate DEF Import!AskFails, Import!Leave, Import!Stages
  <2> QED
    BY <1>4, <2>1, <2>2, <2>3, <2>4, <2>5, <2>6 DEF Import!InRoute
<1> QED
  BY <1>2, <1>3, <1>4 DEF Import!Next

\* Each exit of the route's handler gives its slot back, and gives it back
\* once, for any number of photos, windows and slots (route.ts).
THEOREM GuardsCountSlots == GuardsSpec => []SlotsCounted
<1>1. GuardsInit => SlotsInv
  BY SlotsInit DEF GuardsInit
<1>2. SlotsInv /\ [GuardsNext]_<<part, vars, limiterVars, photoVars>> => SlotsInv'
  <2>1. SlotsInv /\ UNCHANGED photoVars => SlotsInv'
    BY DEF photoVars, SlotsInv
  <2> QED
    BY <2>1, SlotsStep DEF GuardsNext
<1>3. SlotsInv => SlotsCounted
  BY PhotosCounted DEF SlotsInv, SlotsCounted, Import!SlotsCounted, At, InUpload, InModel
<1> QED
  BY <1>1, <1>2, <1>3, PTL DEF GuardsSpec

-----------------------------------------------------------------------------
(* The limits on login attempts.  A bucket of a key with limit lim and the *)
(* failures r that the key had in its last ticks belong together: failures *)
(* and running attempts keep to the limit, what failed since the bucket's  *)
(* window began is among its failures, and at most a limit's worth failed  *)
(* before.                                                                 *)

Counters == [failures : Nat, pending : Nat, left : 0 .. Window]

Ages == 0 .. Window - 1

Bounded(b, r, lim) ==
  /\ b \in Counters /\ r \in [Ages -> Nat]
  /\ b.failures + b.pending <= lim
  /\ \A age \in Ages :
       /\ r[age] <= b.failures + lim
       /\ age < Window - b.left => r[age] <= b.failures

Rested(r, lim) == r \in [Ages -> Nat] /\ \A age \in Ages : r[age] <= lim

LEMMA Limits ==
  /\ Window \in Nat \ {0} /\ MaxEntries \in Nat
  /\ NameLimit \in Nat \ {0} /\ AddressLimit \in Nat \ {0}
  /\ \A k : Limiter!Limit(k) \in Nat \ {0}
  BY LimitsAssumption DEF Limiter!LimiterAssumption, Limiter!Limit

\* A bucket that has expired or is idle can be forgotten.
LEMMA Forget ==
  ASSUME NEW b, NEW r, NEW lim \in Nat, Bounded(b, r, lim),
         Limiter!Expired(b) \/ Limiter!Idle(b)
  PROVE  Rested(r, lim)
<1>1. CASE Limiter!Expired(b)
  BY <1>1, Limits DEF Bounded, Rested, Limiter!Expired, Counters, Ages
<1>2. CASE Limiter!Idle(b)
  BY <1>2, Limits DEF Bounded, Rested, Limiter!Idle, Counters, Ages
<1> QED
  BY <1>1, <1>2

\* A window begins with the attempt that opens it.
LEMMA Fresh ==
  ASSUME NEW r, NEW lim \in Nat \ {0}, Rested(r, lim)
  PROVE  Bounded([failures |-> 0, pending |-> 1, left |-> Window], r, lim)
  BY Limits DEF Bounded, Rested, Counters, Ages

LEMMA Admitted ==
  ASSUME NEW b, NEW r, NEW lim \in Nat, Bounded(b, r, lim),
         ~(b.failures + b.pending >= lim)
  PROVE  Bounded([b EXCEPT !.pending = b.pending + 1], r, lim)
<1> DEFINE c == [b EXCEPT !.pending = b.pending + 1]
<1>1. /\ c \in Counters /\ c.failures = b.failures
      /\ c.pending = b.pending + 1 /\ c.left = b.left
      /\ b.failures \in Nat /\ b.pending \in Nat
  BY DEF Bounded, Counters
<1> HIDE DEF c
<1>2. c.failures + c.pending <= lim
  BY <1>1
<1>3. Bounded(c, r, lim)
  BY <1>1, <1>2 DEF Bounded
<1> QED
  BY <1>3 DEF c

LEMMA Ticked ==
  ASSUME NEW b, NEW r, NEW lim \in Nat, Bounded(b, r, lim)
  PROVE  LET next == [age \in Ages |-> IF age = 0 THEN 0 ELSE r[age - 1]]
         IN  Bounded([b EXCEPT !.left = IF b.left > 0 THEN b.left - 1 ELSE 0],
                     next, lim)
<1> DEFINE c == [b EXCEPT !.left = IF b.left > 0 THEN b.left - 1 ELSE 0]
           next == [age \in Ages |-> IF age = 0 THEN 0 ELSE r[age - 1]]
<1>1. /\ c \in Counters /\ c.failures = b.failures /\ c.pending = b.pending
      /\ b.left \in 0 .. Window /\ b.failures \in Nat /\ b.pending \in Nat
      /\ c.left = IF b.left > 0 THEN b.left - 1 ELSE 0
  BY Limits DEF Bounded, Counters
<1>2. \A age \in Ages : age # 0 => age - 1 \in Ages
  BY Limits DEF Ages
<1>3. next \in [Ages -> Nat]
  BY <1>2 DEF Bounded
<1>4. ASSUME NEW age \in Ages
      PROVE  /\ next[age] <= b.failures + lim
             /\ age < Window - c.left => next[age] <= b.failures
  <2>1. CASE age = 0
    BY <1>1, <2>1
  <2>2. CASE age # 0
    <3>1. next[age] = r[age - 1] /\ age - 1 \in Ages /\ age \in Nat
      BY <1>2, <2>2 DEF Ages
    <3>2. /\ r[age - 1] <= b.failures + lim
          /\ age - 1 < Window - b.left => r[age - 1] <= b.failures
      BY <3>1 DEF Bounded
    <3>3. age < Window - c.left => age - 1 < Window - b.left
      BY <1>1, <3>1, Limits DEF Ages
    <3> QED
      BY <3>1, <3>2, <3>3
  <2> QED
    BY <2>1, <2>2
<1> HIDE DEF c, next
<1>5. Bounded(c, next, lim)
  BY <1>1, <1>3, <1>4 DEF Bounded
<1> QED
  BY <1>5 DEF c, next

LEMMA RestedTicks ==
  ASSUME NEW r, NEW lim \in Nat, Rested(r, lim)
  PROVE  Rested([age \in Ages |-> IF age = 0 THEN 0 ELSE r[age - 1]], lim)
<1>1. \A age \in Ages : age # 0 => age - 1 \in Ages
  BY Limits DEF Ages
<1> QED
  BY <1>1 DEF Rested

\* An attempt that ends counts as a failure, clears a name, or neither.
LEMMA Ended ==
  ASSUME NEW b, NEW r, NEW lim \in Nat, Bounded(b, r, lim), b.pending # 0
  PROVE  /\ Bounded([b EXCEPT !.pending = b.pending - 1,
                              !.failures = b.failures + 1],
                    [age \in Ages |-> r[age] + 1], lim)
         /\ Bounded([b EXCEPT !.pending = b.pending - 1, !.failures = 0],
                    [age \in Ages |-> 0], lim)
         /\ Bounded([b EXCEPT !.pending = b.pending - 1,
                              !.failures = b.failures], r, lim)
<1>1. b.pending - 1 \in Nat /\ b.failures \in Nat /\ b.failures + 1 \in Nat
  BY DEF Bounded, Counters
<1> DEFINE c == [b EXCEPT !.pending = b.pending - 1,
                          !.failures = b.failures + 1]
           d == [b EXCEPT !.pending = b.pending - 1, !.failures = 0]
           e == [b EXCEPT !.pending = b.pending - 1, !.failures = b.failures]
<1>2. /\ c \in Counters /\ c.failures = b.failures + 1
      /\ c.pending = b.pending - 1 /\ c.left = b.left
      /\ d \in Counters /\ d.failures = 0
      /\ d.pending = b.pending - 1 /\ d.left = b.left
      /\ e \in Counters /\ e.failures = b.failures
      /\ e.pending = b.pending - 1 /\ e.left = b.left
  BY <1>1 DEF Bounded, Counters
<1> HIDE DEF c, d, e
<1>3. /\ b.failures + b.pending <= lim /\ b.pending \in Nat
      /\ \A age \in Ages :
           /\ r[age] \in Nat /\ r[age] <= b.failures + lim
           /\ age < Window - b.left => r[age] <= b.failures
  BY DEF Bounded, Counters
<1>4. Bounded(c, [age \in Ages |-> r[age] + 1], lim)
  <2>1. c.failures + c.pending <= lim
    BY <1>1, <1>2, <1>3
  <2>2. \A age \in Ages :
          /\ r[age] + 1 <= c.failures + lim
          /\ age < Window - c.left => r[age] + 1 <= c.failures
    BY <1>1, <1>2, <1>3
  <2>3. [age \in Ages |-> r[age] + 1] \in [Ages -> Nat]
    BY <1>3
  <2> QED
    BY <1>2, <2>1, <2>2, <2>3 DEF Bounded
<1>5. Bounded(d, [age \in Ages |-> 0], lim)
  <2>1. d.failures + d.pending <= lim
    BY <1>1, <1>2, <1>3
  <2> QED
    BY <1>2, <2>1 DEF Bounded
<1>6. Bounded(e, r, lim)
  <2>1. e.failures + e.pending <= lim
    BY <1>1, <1>2, <1>3
  <2> QED
    BY <1>2, <1>3, <2>1 DEF Bounded
<1> QED
  BY <1>4, <1>5, <1>6 DEF c, d, e

-----------------------------------------------------------------------------

Pairs == {{n, a} : n \in Names, a \in Addresses}

Holding(k) == {t \in Attempts : k \in attempt[t]}

Pending(k) == IF k \in DOMAIN buckets THEN buckets[k].pending ELSE 0

Kept(k) ==
  IF k \in DOMAIN buckets
  THEN Bounded(buckets[k], recent[k], Limiter!Limit(k))
  ELSE Rested(recent[k], Limiter!Limit(k))

LimitsInv ==
  /\ attempt \in [Attempts -> Pairs \cup {{}}]
  /\ recent \in [Limiter!Keys -> [Ages -> Nat]]
  /\ buckets \in [DOMAIN buckets -> Counters]
  /\ DOMAIN buckets \subseteq Limiter!Keys /\ IsFiniteSet(DOMAIN buckets)
  /\ Cardinality(DOMAIN buckets) <= MaxEntries
  /\ \A k \in Limiter!Keys : Cardinality(Holding(k)) = Pending(k)
  /\ \A k \in Limiter!Keys : Kept(k)

\* The attempts that hold a key, when one of them takes or leaves its keys.
LEMMA HoldingMoves ==
  ASSUME LimitsInv, NEW t \in Attempts, NEW K \in Pairs \cup {{}},
         attempt' = [attempt EXCEPT ![t] = K], NEW k \in Limiter!Keys
  PROVE  /\ Cardinality(Holding(k)) \in Nat
         /\ k \notin attempt[t] /\ k \in K =>
              Cardinality(Holding(k)') = Cardinality(Holding(k)) + 1
         /\ k \in attempt[t] /\ k \notin K =>
              /\ Cardinality(Holding(k)') = Cardinality(Holding(k)) - 1
              /\ Cardinality(Holding(k)) # 0
         /\ (k \in attempt[t] <=> k \in K) =>
              Cardinality(Holding(k)') = Cardinality(Holding(k))
<1>1. IsFiniteSet(Holding(k))
  BY LimitsAssumption, AttemptsCounted, FS_Subset
  DEF Limiter!LimiterAssumption, Holding
<1>2. ASSUME k \notin attempt[t], k \in K
      PROVE  t \notin Holding(k) /\ Holding(k)' = Holding(k) \cup {t}
  BY <1>2 DEF LimitsInv, Holding
<1>3. ASSUME k \in attempt[t], k \notin K
      PROVE  t \in Holding(k) /\ Holding(k)' = Holding(k) \ {t}
  BY <1>3 DEF LimitsInv, Holding
<1>4. ASSUME k \in attempt[t] <=> k \in K
      PROVE  Holding(k)' = Holding(k)
  BY <1>4 DEF LimitsInv, Holding
<1>5. k \in attempt[t] => Cardinality(Holding(k)) # 0
  BY <1>1, FS_EmptySet DEF Holding
<1> QED
  BY <1>1, <1>2, <1>3, <1>4, <1>5, CountOne

\* What the sweep drops counts nobody.
LEMMA Swept ==
  ASSUME LimitsInv
  PROVE  /\ Limiter!Live \subseteq DOMAIN buckets /\ IsFiniteSet(Limiter!Live)
         /\ \A k : k \notin Limiter!Live => Pending(k) = 0
         /\ \A k \in Limiter!Keys \ Limiter!Live :
              Rested(recent[k], Limiter!Limit(k))
         /\ \A k \in Limiter!Live :
              /\ Bounded(buckets[k], recent[k], Limiter!Limit(k))
              /\ buckets[k] \in Counters
         /\ Cardinality(Limiter!Live) <= MaxEntries
<1>1. /\ Limiter!Live \subseteq DOMAIN buckets
      /\ \A k \in DOMAIN buckets \ Limiter!Live : Limiter!Expired(buckets[k])
  BY DEF Limiter!Live
<1>2. \A k : k \notin Limiter!Live => Pending(k) = 0
  BY <1>1 DEF Limiter!Expired, Pending
<1>3. /\ IsFiniteSet(Limiter!Live)
      /\ Cardinality(Limiter!Live) <= Cardinality(DOMAIN buckets)
  BY <1>1, FS_Subset DEF LimitsInv
<1>4. /\ Cardinality(Limiter!Live) \in Nat
      /\ Cardinality(DOMAIN buckets) \in Nat
      /\ Cardinality(DOMAIN buckets) <= MaxEntries /\ MaxEntries \in Nat
  BY <1>3, FS_CardinalityType, Limits DEF LimitsInv
<1>5. Cardinality(Limiter!Live) <= MaxEntries
  BY <1>3, <1>4
<1>6. ASSUME NEW k \in Limiter!Keys \ Limiter!Live
      PROVE  Rested(recent[k], Limiter!Limit(k))
  <2>1. CASE k \in DOMAIN buckets
    <3>1. /\ Bounded(buckets[k], recent[k], Limiter!Limit(k))
          /\ Limiter!Expired(buckets[k])
      BY <1>1, <1>6, <2>1 DEF LimitsInv, Kept
    <3> QED
      BY <3>1, Limits, Forget
  <2>2. CASE k \notin DOMAIN buckets
    BY <2>2 DEF LimitsInv, Kept
  <2> QED
    BY <2>1, <2>2
<1>7. \A k \in Limiter!Live :
        /\ Bounded(buckets[k], recent[k], Limiter!Limit(k))
        /\ buckets[k] \in Counters
  BY <1>1 DEF LimitsInv, Kept
<1> QED
  BY <1>1, <1>2, <1>3, <1>5, <1>6, <1>7

LEMMA LimitsInit == Limiter!Init => LimitsInv
<1> SUFFICES ASSUME Limiter!Init PROVE LimitsInv
  OBVIOUS
<1>1. DOMAIN buckets = {} /\ \A k : Holding(k) = {}
  BY DEF Limiter!Init, Limiter!NoAttempt, Holding
<1>2. IsFiniteSet({}) /\ Cardinality({}) = 0
  BY FS_EmptySet
<1>3. attempt \in [Attempts -> Pairs \cup {{}}]
  BY DEF Limiter!Init, Limiter!NoAttempt
<1>4. IsFiniteSet(DOMAIN buckets) /\ Cardinality(DOMAIN buckets) <= MaxEntries
  BY <1>1, <1>2, Limits
<1>5. \A k : Cardinality(Holding(k)) = Pending(k)
  BY <1>1, <1>2 DEF Pending
<1>6. recent = [k \in Limiter!Keys |-> [age \in Ages |-> 0]]
  BY DEF Limiter!Init, Ages
<1>7. recent \in [Limiter!Keys -> [Ages -> Nat]]
  BY <1>6
<1>8. \A k \in Limiter!Keys : Kept(k)
  BY <1>1, <1>6, Limits DEF Kept, Rested
<1>9. buckets \in [DOMAIN buckets -> Counters]
  BY <1>1 DEF Limiter!Init
<1> QED
  BY <1>1, <1>3, <1>4, <1>5, <1>7, <1>8, <1>9 DEF LimitsInv

LEMMA RefuseStep ==
  ASSUME LimitsInv, NEW n, NEW a, Limiter!Refuse(n, a)
  PROVE  LimitsInv'
<1>1. /\ buckets' = [k \in Limiter!Live |-> buckets[k]]
      /\ attempt' = attempt /\ recent' = recent
  BY DEF Limiter!Refuse
<1>2. /\ DOMAIN buckets' = Limiter!Live
      /\ \A k \in Limiter!Live : buckets'[k] = buckets[k]
  BY <1>1
<1>3. \A k : Pending(k)' = Pending(k)
  BY <1>2, Swept DEF Pending
<1>4. \A k : Holding(k)' = Holding(k)
  BY <1>1 DEF Holding
<1>5. \A k \in Limiter!Keys : Kept(k)'
  BY <1>1, <1>2, Swept DEF Kept
<1>6. buckets' \in [DOMAIN buckets' -> Counters]
  BY <1>1, <1>2, Swept
<1> QED
  BY <1>1, <1>2, <1>3, <1>4, <1>5, <1>6, Swept DEF LimitsInv

LEMMA TickStep ==
  ASSUME LimitsInv, Limiter!Tick
  PROVE  LimitsInv'
<1> DEFINE Later(r) == [age \in Ages |-> IF age = 0 THEN 0 ELSE r[age - 1]]
           Aged(b) == [b EXCEPT !.left = IF b.left > 0 THEN b.left - 1 ELSE 0]
<1>1. /\ buckets' = [k \in DOMAIN buckets |-> Aged(buckets[k])]
      /\ recent' = [k \in Limiter!Keys |-> Later(recent[k])]
      /\ attempt' = attempt
  BY DEF Limiter!Tick, Ages
<1>2. ASSUME NEW k \in DOMAIN buckets
      PROVE  /\ Bounded(buckets'[k], recent'[k], Limiter!Limit(k))
             /\ buckets'[k].pending = buckets[k].pending
  <2>1. /\ k \in Limiter!Keys
        /\ Bounded(buckets[k], recent[k], Limiter!Limit(k))
        /\ Limiter!Limit(k) \in Nat
    BY <1>2, Limits DEF LimitsInv, Kept
  <2>2. buckets'[k] = Aged(buckets[k]) /\ recent'[k] = Later(recent[k])
    BY <1>1, <1>2, <2>1
  <2>3. Bounded(Aged(buckets[k]), Later(recent[k]), Limiter!Limit(k))
    BY <2>1, Ticked
  <2>4. Aged(buckets[k]).pending = buckets[k].pending
    BY <2>1 DEF Bounded, Counters
  <2> HIDE DEF Aged, Later
  <2> QED
    BY <2>2, <2>3, <2>4
<1>3. ASSUME NEW k \in Limiter!Keys, k \notin DOMAIN buckets
      PROVE  Rested(recent'[k], Limiter!Limit(k))
  <2>1. Rested(recent[k], Limiter!Limit(k)) /\ Limiter!Limit(k) \in Nat
    BY <1>3, Limits DEF LimitsInv, Kept
  <2>2. recent'[k] = Later(recent[k])
    BY <1>1, <1>3
  <2> QED
    BY <2>1, <2>2, RestedTicks
<1> HIDE DEF Aged, Later
<1>4. DOMAIN buckets' = DOMAIN buckets
  BY <1>1
<1>5. \A k : Pending(k)' = Pending(k)
  BY <1>2, <1>4 DEF Pending
<1>6. \A k : Holding(k)' = Holding(k)
  BY <1>1 DEF Holding
<1>7. \A k \in Limiter!Keys : Kept(k)'
  BY <1>2, <1>3, <1>4 DEF Kept
<1>8. recent' \in [Limiter!Keys -> [Ages -> Nat]]
  <2>1. \A k \in Limiter!Keys : recent'[k] \in [Ages -> Nat]
    BY <1>7 DEF Kept, Bounded, Rested
  <2> QED
    BY <1>1, <2>1
<1>9. buckets' \in [DOMAIN buckets' -> Counters]
  <2>1. \A k \in DOMAIN buckets : buckets'[k] \in Counters
    BY <1>2 DEF Bounded
  <2> QED
    BY <1>1, <1>4, <2>1
<1> QED
  BY <1>1, <1>4, <1>5, <1>6, <1>7, <1>8, <1>9 DEF LimitsInv

LEMMA BeginStep ==
  ASSUME LimitsInv, NEW t \in Attempts, NEW n \in Names, NEW a \in Addresses,
         Limiter!Begin(t, n, a)
  PROVE  LimitsInv'
<1> DEFINE K == {n, a}
           Opened == [failures |-> 0, pending |-> 1, left |-> Window]
<1>1. /\ attempt[t] = {} /\ attempt' = [attempt EXCEPT ![t] = K]
      /\ recent' = recent
      /\ ~Limiter!AtLimit(n) /\ ~Limiter!AtLimit(a)
      /\ Limiter!HasRoom(K) /\ buckets' = Limiter!Reserved(K)
  BY DEF Limiter!Begin, Limiter!NoAttempt
<1>2. K \in Pairs /\ K \subseteq Limiter!Keys /\ IsFiniteSet(K)
  <2>1. {n, a} = {n} \cup {a} /\ IsFiniteSet({n})
    BY FS_Singleton
  <2>2. IsFiniteSet({n, a})
    BY <2>1, FS_AddElement
  <2> QED
    BY <2>2 DEF Pairs, Limiter!Keys
<1>3. \A k \in K : ~Limiter!AtLimit(k)
  BY <1>1
<1> HIDE DEF K
<1>4. /\ DOMAIN buckets' = Limiter!Live \cup K
      /\ \A k \in Limiter!Live \cup K :
           buckets'[k] = IF k \notin Limiter!Live THEN Opened
                         ELSE IF k \in K
                         THEN [buckets[k] EXCEPT !.pending = buckets[k].pending + 1]
                         ELSE buckets[k]
  BY <1>1 DEF Limiter!Reserved
<1>5. /\ IsFiniteSet(DOMAIN buckets')
      /\ Cardinality(DOMAIN buckets') <= MaxEntries
  <2>1. IsFiniteSet(Limiter!Live \cup K)
    BY <1>2, Swept, FS_Union
  <2> QED
    BY <1>1, <1>4, <2>1, AttemptsCounted DEF Limiter!HasRoom
<1>6. ASSUME NEW k \in Limiter!Live \cup K
      PROVE  /\ Bounded(buckets'[k], recent[k], Limiter!Limit(k))
             /\ buckets'[k].pending = Pending(k) + (IF k \in K THEN 1 ELSE 0)
  <2>1. Limiter!Limit(k) \in Nat \ {0}
    BY Limits
  <2>2. CASE k \notin Limiter!Live
    <3>1. k \in Limiter!Keys \ Limiter!Live /\ k \in K
      BY <1>2, <2>2
    <3>2. buckets'[k] = Opened /\ Pending(k) = 0
      BY <1>4, <2>2, Swept
    <3>3. Rested(recent[k], Limiter!Limit(k))
      BY <3>1, Swept
    <3> QED
      BY <2>1, <3>1, <3>2, <3>3, Fresh
  <2>3. CASE k \in Limiter!Live /\ k \in K
    <3>1. buckets'[k] = [buckets[k] EXCEPT !.pending = buckets[k].pending + 1]
      BY <1>4, <2>3
    <3>2. /\ Bounded(buckets[k], recent[k], Limiter!Limit(k))
          /\ buckets[k] \in Counters
          /\ Pending(k) = buckets[k].pending
      BY <2>3, Swept DEF Pending
    <3>3. ~(buckets[k].failures + buckets[k].pending >= Limiter!Limit(k))
      BY <1>3, <2>3 DEF Limiter!AtLimit
    <3>4. Bounded(buckets'[k], recent[k], Limiter!Limit(k))
      BY <2>1, <3>1, <3>2, <3>3, Admitted
    <3>5. buckets'[k].pending = buckets[k].pending + 1
      BY <3>1, <3>2 DEF Counters
    <3> QED
      BY <2>3, <3>2, <3>4, <3>5
  <2>4. CASE k \in Limiter!Live /\ k \notin K
    <3>1. /\ Bounded(buckets[k], recent[k], Limiter!Limit(k))
          /\ buckets[k].pending \in Nat
          /\ Pending(k) = buckets[k].pending /\ buckets'[k] = buckets[k]
      BY <1>4, <2>4, Swept DEF Pending, Counters
    <3> QED
      BY <2>4, <3>1
  <2> QED
    BY <2>2, <2>3, <2>4
<1>7. ASSUME NEW k \in Limiter!Keys
      PROVE  Cardinality(Holding(k)') = Pending(k)'
  <2>1. /\ Cardinality(Holding(k)) = Pending(k)
        /\ Cardinality(Holding(k)') =
             Cardinality(Holding(k)) + (IF k \in K THEN 1 ELSE 0)
    <3>1. Cardinality(Holding(k)) = Pending(k) /\ k \notin attempt[t]
      BY <1>1 DEF LimitsInv
    <3>2. /\ Cardinality(Holding(k)) \in Nat
          /\ k \notin attempt[t] /\ k \in K =>
               Cardinality(Holding(k)') = Cardinality(Holding(k)) + 1
          /\ (k \in attempt[t] <=> k \in K) =>
               Cardinality(Holding(k)') = Cardinality(Holding(k))
      BY <1>1, <1>2, K \in Pairs \cup {{}}, HoldingMoves
    <3> QED
      BY <3>1, <3>2
  <2>2. CASE k \in Limiter!Live \cup K
    BY <1>4, <1>6, <2>1, <2>2 DEF Pending
  <2>3. CASE k \notin Limiter!Live \cup K
    BY <1>4, <2>1, <2>3, Swept DEF Pending
  <2> QED
    BY <2>2, <2>3
<1>8. ASSUME NEW k \in Limiter!Keys PROVE Kept(k)'
  <2>1. CASE k \in Limiter!Live \cup K
    BY <1>1, <1>4, <1>6, <2>1 DEF Kept
  <2>2. CASE k \notin Limiter!Live \cup K
    BY <1>1, <1>4, <2>2, Swept DEF Kept
  <2> QED
    BY <2>1, <2>2
<1>9. attempt' \in [Attempts -> Pairs \cup {{}}]
  BY <1>1, <1>2 DEF LimitsInv
<1>10. recent' \in [Limiter!Keys -> [Ages -> Nat]]
  BY <1>1 DEF LimitsInv
<1>11. DOMAIN buckets' \subseteq Limiter!Keys
  BY <1>2, <1>4, Swept DEF LimitsInv
<1>12. buckets' \in [DOMAIN buckets' -> Counters]
  <2>1. \A k \in DOMAIN buckets' : buckets'[k] \in Counters
    BY <1>4, <1>6 DEF Bounded
  <2> QED
    BY <1>1, <2>1 DEF Limiter!Reserved
<1> QED
  BY <1>5, <1>7, <1>8, <1>9, <1>10, <1>11, <1>12 DEF LimitsInv

LEMMA FinishStep ==
  ASSUME LimitsInv, NEW t \in Attempts,
         NEW how \in {"success", "failure", "error"}, Limiter!Finish(t, how)
  PROVE  LimitsInv'
<1> DEFINE K == attempt[t]
           After(k) == IF k \in K THEN Limiter!Finished(k, how) ELSE buckets[k]
           Left == {k \in DOMAIN buckets : ~(k \in K /\ Limiter!Idle(After(k)))}
<1>1. /\ attempt' = [attempt EXCEPT ![t] = {}]
      /\ recent' = [k \in Limiter!Keys |->
                      IF k \in K THEN Limiter!Recorded(k, how) ELSE recent[k]]
  BY DEF Limiter!Finish, Limiter!NoAttempt
<1>2. buckets' = [k \in Left |-> After(k)]
  <2> DEFINE next == [k \in DOMAIN buckets |-> After(k)]
             kept == {k \in DOMAIN buckets : ~(k \in K /\ Limiter!Idle(next[k]))}
  <2>1. buckets' = [k \in kept |-> next[k]]
    BY DEF Limiter!Finish
  <2>2. \A k \in DOMAIN buckets : next[k] = After(k)
    OBVIOUS
  <2> HIDE DEF next, After
  <2>3. kept = Left
    BY <2>2
  <2> QED
    BY <2>1, <2>2, <2>3
<1>3. K \subseteq Limiter!Keys
  BY DEF LimitsInv, Pairs, Limiter!Keys
<1>13. \A k \in Limiter!Keys :
              /\ k \in K =>
                   /\ Cardinality(Holding(k)') = Cardinality(Holding(k)) - 1
                   /\ Cardinality(Holding(k)) # 0
              /\ k \notin K => Cardinality(Holding(k)') = Cardinality(Holding(k))
  <2> TAKE k \in Limiter!Keys
  <2>1. /\ k \in attempt[t] /\ k \notin {} =>
             /\ Cardinality(Holding(k)') = Cardinality(Holding(k)) - 1
             /\ Cardinality(Holding(k)) # 0
        /\ (k \in attempt[t] <=> k \in {}) =>
             Cardinality(Holding(k)') = Cardinality(Holding(k))
    BY <1>1, {} \in Pairs \cup {{}}, HoldingMoves
  <2> QED
    BY <2>1
<1>4. /\ Left \subseteq DOMAIN buckets /\ DOMAIN buckets' = Left
      /\ \A k \in Left : buckets'[k] = After(k)
  BY <1>2
<1>5. ASSUME NEW k \in K
      PROVE  /\ k \in DOMAIN buckets
             /\ Bounded(Limiter!Finished(k, how), recent'[k], Limiter!Limit(k))
             /\ Limiter!Finished(k, how).pending = Pending(k) - 1
             /\ Pending(k) \in Nat
  <2>1. Cardinality(Holding(k)) # 0 /\ Cardinality(Holding(k)) = Pending(k)
    BY <1>3, <1>13 DEF LimitsInv
  <2>2. k \in DOMAIN buckets /\ buckets[k].pending # 0
    BY <2>1 DEF Pending
  <2>3. /\ Bounded(buckets[k], recent[k], Limiter!Limit(k))
        /\ buckets[k] \in Counters /\ Pending(k) = buckets[k].pending
        /\ Limiter!Limit(k) \in Nat
    BY <2>2, <1>3, Limits DEF LimitsInv, Kept, Pending, Bounded
  <2>4. recent'[k] = Limiter!Recorded(k, how)
    BY <1>1, <1>3
  <2>5. Limiter!Finished(k, how).pending = Pending(k) - 1
    BY <2>3 DEF Limiter!Finished, Counters
  <2>6. Bounded(Limiter!Finished(k, how), Limiter!Recorded(k, how),
                Limiter!Limit(k))
    <3> USE <2>2, <2>3, Ended
    <3>1. CASE how = "failure"
      BY <3>1 DEF Limiter!Finished, Limiter!Recorded, Ages
    <3>2. CASE how # "failure" /\ how = "success" /\ k \in Names
      BY <3>2 DEF Limiter!Finished, Limiter!Recorded, Ages
    <3>3. CASE how # "failure" /\ ~(how = "success" /\ k \in Names)
      BY <3>3 DEF Limiter!Finished, Limiter!Recorded
    <3> QED
      BY <3>1, <3>2, <3>3
  <2> QED
    BY <2>2, <2>3, <2>4, <2>5, <2>6 DEF Counters
<1>6. ASSUME NEW k \in Limiter!Keys, k \notin K
      PROVE  /\ recent'[k] = recent[k] /\ After(k) = buckets[k]
             /\ k \in Left <=> k \in DOMAIN buckets
  BY <1>1, <1>6
<1>7. ASSUME NEW k \in Limiter!Keys PROVE Kept(k)'
  <2>1. CASE k \in K /\ k \in Left
    BY <1>4, <1>5, <2>1 DEF Kept
  <2>2. CASE k \in K /\ k \notin Left
    <3>1. /\ Limiter!Idle(Limiter!Finished(k, how))
          /\ Bounded(Limiter!Finished(k, how), recent'[k], Limiter!Limit(k))
          /\ Limiter!Limit(k) \in Nat
      BY <1>5, <2>2, Limits
    <3> HIDE DEF Left, After
    <3> QED
      BY <1>4, <2>2, <3>1, Forget DEF Kept
  <2>3. CASE k \notin K
    <3> HIDE DEF K
    <3>1. Kept(k) /\ recent'[k] = recent[k]
      BY <1>6, <2>3 DEF LimitsInv
    <3>2. /\ k \in DOMAIN buckets' <=> k \in DOMAIN buckets
          /\ k \in DOMAIN buckets => buckets'[k] = buckets[k]
      BY <1>4, <1>6, <2>3
    <3> QED
      BY <3>1, <3>2 DEF Kept
  <2> QED
    BY <2>1, <2>2, <2>3
<1>8. ASSUME NEW k \in Limiter!Keys
      PROVE  Cardinality(Holding(k)') = Pending(k)'
  <2>1. Cardinality(Holding(k)) = Pending(k)
    BY DEF LimitsInv
  <2>2. CASE k \in K
    <3>1. Cardinality(Holding(k)') = Pending(k) - 1 /\ Pending(k) \in Nat
      BY <1>5, <1>13, <2>1, <2>2
    <3>2. CASE k \in Left
      BY <1>4, <1>5, <2>2, <3>1, <3>2 DEF Pending
    <3>3. CASE k \notin Left
      <4>1. Limiter!Finished(k, how).pending = 0
        BY <1>5, <2>2, <3>3 DEF Limiter!Idle
      <4> HIDE DEF Left, After
      <4> QED
        BY <1>4, <1>5, <2>2, <3>1, <3>3, <4>1 DEF Pending
    <3> QED
      BY <3>2, <3>3
  <2>3. CASE k \notin K
    <3>1. Cardinality(Holding(k)') = Pending(k)
      BY <1>13, <2>1, <2>3
    <3>2. /\ k \in DOMAIN buckets' <=> k \in DOMAIN buckets
          /\ k \in DOMAIN buckets => buckets'[k] = buckets[k]
      BY <1>4, <1>6, <2>3
    <3> QED
      BY <3>1, <3>2 DEF Pending
  <2> QED
    BY <2>2, <2>3
<1>9. /\ DOMAIN buckets' \subseteq Limiter!Keys /\ IsFiniteSet(DOMAIN buckets')
      /\ Cardinality(DOMAIN buckets') <= MaxEntries
  <2>1. /\ IsFiniteSet(DOMAIN buckets)
        /\ Cardinality(DOMAIN buckets) <= MaxEntries
        /\ DOMAIN buckets \subseteq Limiter!Keys
    BY DEF LimitsInv
  <2>2. /\ IsFiniteSet(DOMAIN buckets')
        /\ Cardinality(DOMAIN buckets') <= Cardinality(DOMAIN buckets)
    BY <1>4, <2>1, FS_Subset
  <2>3. /\ Cardinality(DOMAIN buckets') \in Nat /\ MaxEntries \in Nat
        /\ Cardinality(DOMAIN buckets) \in Nat
    BY <2>1, <2>2, FS_CardinalityType, Limits
  <2> QED
    BY <1>4, <2>1, <2>2, <2>3
<1> HIDE DEF Left, After, K
<1>10. attempt' \in [Attempts -> Pairs \cup {{}}]
  BY <1>1 DEF LimitsInv
<1>11. recent' \in [Limiter!Keys -> [Ages -> Nat]]
  <2>1. \A k \in Limiter!Keys : recent'[k] \in [Ages -> Nat]
    BY <1>7 DEF Kept, Bounded, Rested
  <2> QED
    BY <1>1, <2>1
<1>12. buckets' \in [DOMAIN buckets' -> Counters]
  <2>1. \A k \in DOMAIN buckets' : buckets'[k] \in Counters
    BY <1>7, <1>9 DEF Kept, Bounded
  <2> QED
    BY <1>2, <2>1
<1> QED
  BY <1>7, <1>8, <1>9, <1>10, <1>11, <1>12 DEF LimitsInv

LEMMA LimitsStep == LimitsInv /\ Limiter!Next => LimitsInv'
  BY TickStep, RefuseStep, BeginStep, FinishStep DEF Limiter!Next

LEMMA LimitsKeep == LimitsInv => AttemptsLimited
<1> SUFFICES ASSUME LimitsInv PROVE AttemptsLimited
  OBVIOUS
<1>1. Limiter!ReservationsCounted
  BY AttemptsCounted
  DEF LimitsInv, Holding, Pending, Limiter!ReservationsCounted, Limiter!InFlight
<1>2. Limiter!EntriesLimited
  BY AttemptsCounted DEF LimitsInv, Limiter!EntriesLimited
<1>3. ASSUME NEW k \in Limiter!Keys
      PROVE  recent[k][Window - 1] <= 2 * Limiter!Limit(k)
  <2> DEFINE r == recent[k][Window - 1]
             lim == Limiter!Limit(k)
  <2>1. Window - 1 \in Ages /\ lim \in Nat
    BY Limits DEF Ages
  <2>2. r \in Nat
    BY <2>1 DEF LimitsInv
  <2>3. CASE k \in DOMAIN buckets
    <3>1. Bounded(buckets[k], recent[k], lim)
      BY <2>3 DEF LimitsInv, Kept
    <3>2. /\ buckets[k].failures + buckets[k].pending <= lim
          /\ buckets[k].failures \in Nat /\ buckets[k].pending \in Nat
          /\ r <= buckets[k].failures + lim
      BY <2>1, <3>1 DEF Bounded, Counters
    <3> HIDE DEF r, lim
    <3>3. r <= 2 * lim
      BY <2>1, <2>2, <3>2
    <3> QED
      BY <3>3 DEF r, lim
  <2>4. CASE k \notin DOMAIN buckets
    <3>1. r <= lim
      BY <2>1, <2>4 DEF LimitsInv, Kept, Rested
    <3> HIDE DEF r, lim
    <3>2. r <= 2 * lim
      BY <2>1, <2>2, <3>1
    <3> QED
      BY <3>2 DEF r, lim
  <2> QED
    BY <2>3, <2>4
<1>4. Limiter!FailuresLimited
  BY <1>3 DEF Limiter!FailuresLimited
<1> QED
  BY <1>1, <1>2, <1>4 DEF AttemptsLimited

\* For any limits and any window: an attempt at a password is counted as long
\* as it runs, the map of counters keeps to its size, and no name or address
\* fails more than two limits' worth in a window's time (loginRateLimit.ts).
THEOREM GuardsLimitAttempts == GuardsSpec => []AttemptsLimited
<1>1. GuardsInit => LimitsInv
  BY LimitsInit DEF GuardsInit
<1>2. LimitsInv /\ [GuardsNext]_<<part, vars, limiterVars, photoVars>>
        => LimitsInv'
  <2>1. LimitsInv /\ UNCHANGED limiterVars => LimitsInv'
    BY DEF limiterVars, LimitsInv, Holding, Pending, Kept
  <2> QED
    BY <2>1, LimitsStep DEF GuardsNext
<1> QED
  BY <1>1, <1>2, LimitsKeep, PTL DEF GuardsSpec

-----------------------------------------------------------------------------
(* The forms and the photos on their way keep their types: whoever reads a *)
(* photo has its form open and is not saving, so that what the sheet fills *)
(* in has a form to go to.                                                 *)

PhotosInv ==
  /\ Import!TypeOK
  /\ \A w \in Windows :
       reading[w] # None => form[w] \in Import!Form /\ ~form[w].saving
  /\ \A p \in Photos :
       photo[p] \notin {"unused", "closed"} => owner[p] \in Windows

LEMMA PhotosInit == Import!Init => PhotosInv
<1> SUFFICES ASSUME Import!Init PROVE PhotosInv
  OBVIOUS
<1>1. /\ MaxTyped \in Nat /\ MaxRetries \in Nat
      /\ UploadSlots \in Nat /\ ModelSlots \in Nat
  BY SlotsAssumption DEF Import!PhotoAssumption
<1>2. Import!TypeOK
  BY <1>1 DEF Import!Init, Import!TypeOK, Import!Stages, Import!Answers
<1> QED
  BY <1>2 DEF Import!Init, PhotosInv

\* The form of a window, whose reader is as it was or gives up.
LEMMA FormSteps ==
  ASSUME PhotosInv, NEW w \in Windows,
         \/ Import!OpenForm(w) \/ Import!Type(w) \/ Import!Submit(w)
         \/ Import!Saved(w) \/ Import!SaveFailed(w) \/ Import!CloseForm(w)
  PROVE  PhotosInv'
<1> USE DEF Import!Open
<1>1. UNCHANGED <<photo, owner, typedThen, gone, questions, answer, uploads,
                  extractions>>
  BY DEF Import!OpenForm, Import!Type, Import!Submit, Import!Saved,
         Import!SaveFailed, Import!CloseForm, Import!photoVars, Import!gates
<1>2. MaxTyped \in Nat
  BY SlotsAssumption DEF Import!PhotoAssumption
<1>3. /\ form \in [Windows -> Import!Form \cup {None}]
      /\ reading \in [Windows -> Photos \cup {None}]
      /\ \A x \in Windows :
           reading[x] # None => form[x] \in Import!Form /\ ~form[x].saving
  BY DEF PhotosInv, Import!TypeOK
<1>4. \E f \in Import!Form \cup {None}, r \in Photos \cup {None} :
        /\ form' = [form EXCEPT ![w] = f] /\ reading' = [reading EXCEPT ![w] = r]
        /\ r # None => f \in Import!Form /\ ~f.saving
  <2>1. CASE Import!OpenForm(w)
    <3> DEFINE f == [typed |-> 0, sheet |-> FALSE, saving |-> FALSE]
    <3>1. /\ f \in Import!Form /\ ~f.saving
          /\ form' = [form EXCEPT ![w] = f]
          /\ reading' = [reading EXCEPT ![w] = reading[w]]
      BY <1>2, <1>3, <2>1 DEF Import!OpenForm, Import!Form
    <3> QED
      BY <1>3, <3>1
  <2>2. CASE Import!Type(w)
    <3> DEFINE f == [form[w] EXCEPT !.typed = form[w].typed + 1]
    <3>1. /\ f \in Import!Form /\ f.saving = form[w].saving
          /\ form' = [form EXCEPT ![w] = f]
          /\ reading' = [reading EXCEPT ![w] = reading[w]]
      BY <1>2, <1>3, <2>2 DEF Import!Type, Import!Form
    <3> HIDE DEF f
    <3> QED
      BY <1>3, <3>1
  <2>3. CASE Import!Submit(w)
    <3> DEFINE f == [form[w] EXCEPT !.saving = TRUE]
    <3>1. /\ f \in Import!Form /\ reading[w] = None
          /\ form' = [form EXCEPT ![w] = f]
      <4>1. form[w] \in Import!Form
        BY <1>3, <2>3 DEF Import!Submit
      <4>2. f \in Import!Form
        BY <4>1 DEF Import!Form
      <4> QED
        BY <2>3, <4>2 DEF Import!Submit
    <3>2. reading' = [reading EXCEPT ![w] = reading[w]]
      BY <1>3, <2>3 DEF Import!Submit
    <3> HIDE DEF f
    <3> QED
      BY <1>3, <3>1, <3>2
  <2>4. CASE Import!Saved(w)
    BY <1>3, <2>4 DEF Import!Saved
  <2>5. CASE Import!SaveFailed(w)
    <3> DEFINE f == [form[w] EXCEPT !.saving = FALSE]
    <3>1. /\ f \in Import!Form /\ ~f.saving
          /\ form' = [form EXCEPT ![w] = f]
          /\ reading' = [reading EXCEPT ![w] = reading[w]]
      BY <1>3, <2>5 DEF Import!SaveFailed, Import!Form
    <3> HIDE DEF f
    <3> QED
      BY <1>3, <3>1
  <2>6. CASE Import!CloseForm(w)
    BY <1>3, <2>6 DEF Import!CloseForm
  <2> QED
    BY <2>1, <2>2, <2>3, <2>4, <2>5, <2>6
<1>5. /\ form' \in [Windows -> Import!Form \cup {None}]
      /\ reading' \in [Windows -> Photos \cup {None}]
      /\ \A x \in Windows :
           reading'[x] # None => form'[x] \in Import!Form /\ ~form'[x].saving
  BY <1>3, <1>4
<1> QED
  BY <1>1, <1>5 DEF PhotosInv, Import!TypeOK

\* A photo is chosen; all its later steps leave its owner alone.
LEMMA ChooseStep ==
  ASSUME PhotosInv, NEW w \in Windows, NEW p \in Photos, Import!ChoosePhoto(w, p)
  PROVE  PhotosInv'
<1> USE DEF Import!ChoosePhoto
<1>1. form[w] \in Import!Form /\ ~form[w].saving /\ form[w].typed \in 0 .. MaxTyped
  BY DEF Import!Open, PhotosInv, Import!TypeOK, Import!Form
<1>2. Import!TypeOK'
  BY <1>1 DEF PhotosInv, Import!TypeOK, Import!Stages, Import!gates
<1>3. \A x \in Windows :
        reading'[x] # None => form'[x] \in Import!Form /\ ~form'[x].saving
  BY <1>1 DEF PhotosInv, Import!TypeOK
<1>4. \A x \in Photos :
        photo'[x] \notin {"unused", "closed"} => owner'[x] \in Windows
  BY DEF PhotosInv, Import!TypeOK
<1> QED
  BY <1>2, <1>3, <1>4 DEF PhotosInv

\* A photo moves on; the window that reads it stays or stops.
LEMMA PhotoMoves ==
  ASSUME PhotosInv, NEW p \in Photos,
         photo[p] \notin {"unused", "closed"},
         NEW next \in Import!Stages, photo' = [photo EXCEPT ![p] = next],
         reading' \in {reading, Import!Reader(p)},
         \/ form' = form
         \/ /\ ~Import!Abandoned(p) /\ form' = Import!Filled(p)
            /\ reading' = Import!Reader(p),
         UNCHANGED <<owner, typedThen>>,
         gone' \in [Photos -> BOOLEAN],
         questions' \in [Photos -> 0 .. MaxRetries + 1],
         answer' \in [Photos -> Import!Answers \cup {None}],
         uploads' \in 0 .. UploadSlots, extractions' \in 0 .. ModelSlots
  PROVE  PhotosInv'
<1> DEFINE o == owner[p]
<1>1. /\ o \in Windows /\ None \notin Photos
      /\ form \in [Windows -> Import!Form \cup {None}]
      /\ reading \in [Windows -> Photos \cup {None}]
      /\ \A x \in Windows :
           reading[x] # None => form[x] \in Import!Form /\ ~form[x].saving
  BY SlotsAssumption DEF PhotosInv, Import!TypeOK, Import!PhotoAssumption
<1>2. /\ reading' \in [Windows -> Photos \cup {None}]
      /\ \A x \in Windows : reading'[x] # None => reading'[x] = reading[x]
  BY <1>1 DEF Import!Reader
<1>3. CASE form' = form
  <2>1. \A x \in Windows :
          reading'[x] # None => form'[x] \in Import!Form /\ ~form'[x].saving
    BY <1>1, <1>2, <1>3
  <2>2. \A x \in Photos :
          photo'[x] \notin {"unused", "closed"} => owner'[x] \in Windows
    BY DEF PhotosInv, Import!TypeOK
  <2> QED
    BY <1>2, <1>3, <2>1, <2>2 DEF PhotosInv, Import!TypeOK
<1>4. CASE /\ ~Import!Abandoned(p) /\ form' = Import!Filled(p)
           /\ reading' = Import!Reader(p)
  <2> DEFINE f == [form[o] EXCEPT !.typed = typedThen[p], !.sheet = TRUE]
  <2>1. /\ reading[o] = p /\ form[o] \in Import!Form
    BY <1>1, <1>4 DEF Import!Abandoned
  <2>2. typedThen[p] \in 0 .. MaxTyped
    BY DEF PhotosInv, Import!TypeOK
  <2>3. f \in Import!Form
    BY <2>1, <2>2 DEF Import!Form
  <2>4. form' = [form EXCEPT ![o] = f]
    BY <1>1, <1>4, <2>1 DEF Import!Filled, Import!Form
  <2> HIDE DEF f
  <2>5. reading'[o] = None
    BY <1>1, <1>4 DEF Import!Reader
  <2>6. /\ form' \in [Windows -> Import!Form \cup {None}]
        /\ \A x \in Windows :
             reading'[x] # None => form'[x] \in Import!Form /\ ~form'[x].saving
    BY <1>1, <1>2, <2>3, <2>4, <2>5
  <2>7. \A x \in Photos :
          photo'[x] \notin {"unused", "closed"} => owner'[x] \in Windows
    BY DEF PhotosInv, Import!TypeOK
  <2> QED
    BY <1>2, <2>6, <2>7 DEF PhotosInv, Import!TypeOK
<1> QED
  BY <1>3, <1>4

LEMMA WayStep ==
  ASSUME PhotosInv, NEW p \in Photos, Import!OnItsWay(p)
  PROVE  PhotosInv'
<1> DEFINE Moves ==
     \E next \in Import!Stages :
       /\ photo[p] \notin {"unused", "closed"}
       /\ photo' = [photo EXCEPT ![p] = next]
       /\ reading' \in {reading, Import!Reader(p)}
       /\ \/ form' = form
          \/ /\ ~Import!Abandoned(p) /\ form' = Import!Filled(p)
             /\ reading' = Import!Reader(p)
       /\ gone' \in [Photos -> BOOLEAN]
<1>1. UNCHANGED <<owner, typedThen, questions, answer, uploads, extractions>>
  BY DEF Import!OnItsWay, Import!Prepare, Import!NotSent, Import!Deliver,
         Import!Disconnect, Import!ConnectionLost, Import!gates
<1>2. Moves
  <2>1. photo \in [Photos -> Import!Stages] /\ gone \in [Photos -> BOOLEAN]
    BY DEF PhotosInv, Import!TypeOK
  <2>2. CASE Import!Prepare(p)
    BY <2>1, <2>2 DEF Import!Prepare, Import!Stages
  <2>3. CASE Import!NotSent(p)
    BY <2>1, <2>3 DEF Import!NotSent, Import!Stages
  <2>4. CASE Import!Deliver(p)
    <3>1. /\ "closed" \in Import!Stages
          /\ photo[p] = "settled" /\ photo' = [photo EXCEPT ![p] = "closed"]
          /\ reading' = Import!Reader(p) /\ gone' = gone
          /\ \/ form' = form
             \/ ~Import!Abandoned(p) /\ form' = Import!Filled(p)
      BY <2>4 DEF Import!Deliver, Import!Stages
    <3> QED
      BY <2>1, <3>1
  <2>5. CASE Import!Disconnect(p) \/ Import!ConnectionLost(p)
    <3>1. /\ photo[p] \in {"uploading", "encoding", "asking"}
          /\ photo' = photo /\ form' = form
          /\ reading' \in {reading, Import!Reader(p)}
          /\ gone' = [gone EXCEPT ![p] = TRUE]
      BY <2>5 DEF Import!Disconnect, Import!ConnectionLost, Import!OnServer
    <3>2. photo' = [photo EXCEPT ![p] = photo[p]] /\ photo[p] \in Import!Stages
      BY <2>1, <3>1
    <3> QED
      BY <2>1, <3>1, <3>2
  <2> QED
    BY <2>2, <2>3, <2>4, <2>5 DEF Import!OnItsWay
<1>3. /\ questions \in [Photos -> 0 .. MaxRetries + 1]
      /\ answer \in [Photos -> Import!Answers \cup {None}]
      /\ uploads \in 0 .. UploadSlots /\ extractions \in 0 .. ModelSlots
  BY DEF PhotosInv, Import!TypeOK
<1> QED
  BY <1>1, <1>2, <1>3, PhotoMoves

LEMMA RouteStep ==
  ASSUME PhotosInv, SlotsInv, SlotsInv', NEW p \in Photos, Import!InRoute(p)
  PROVE  PhotosInv'
<1>1. UNCHANGED <<form, reading, owner, typedThen, gone>>
  BY DEF Import!InRoute, Import!Arrive, Import!UploadFails, Import!Received,
         Import!Encoded, Import!Answered, Import!AskFails
<1>2. /\ photo \in [Photos -> Import!Stages] /\ gone \in [Photos -> BOOLEAN]
      /\ questions \in [Photos -> 0 .. MaxRetries + 1]
      /\ answer \in [Photos -> Import!Answers \cup {None}]
      /\ uploads \in 0 .. UploadSlots /\ extractions \in 0 .. ModelSlots
  BY DEF PhotosInv, Import!TypeOK
<1>3. MaxRetries \in Nat /\ UploadSlots \in Nat /\ ModelSlots \in Nat
  BY SlotsAssumption DEF Import!PhotoAssumption
<1> USE DEF Import!Settle, Import!Leave, Import!ReleaseUpload
<1>4. \E next \in Import!Stages :
        /\ photo[p] \notin {"unused", "closed"}
        /\ photo' = [photo EXCEPT ![p] = next]
  <2>1. CASE Import!Arrive(p) \/ Import!UploadFails(p) \/ Import!Received(p)
    BY <2>1 DEF Import!Arrive, Import!UploadFails, Import!Received, Import!Stages
  <2>2. CASE Import!Encoded(p) \/ Import!AskFails(p)
    BY <2>2 DEF Import!Encoded, Import!AskFails, Import!Stages
  <2>3. CASE Import!Answered(p)
    <3>1. photo[p] = "asking"
          /\ (photo' = photo \/ photo' = [photo EXCEPT ![p] = "settled"])
      BY <2>3 DEF Import!Answered
    <3>2. photo = [photo EXCEPT ![p] = photo[p]] /\ photo[p] \in Import!Stages
      BY <1>2
    <3> QED
      BY <3>1, <3>2 DEF Import!Stages
  <2> QED
    BY <2>1, <2>2, <2>3 DEF Import!InRoute
<1>5. questions' \in [Photos -> 0 .. MaxRetries + 1]
  BY <1>2, <1>3
  DEF Import!InRoute, Import!Arrive, Import!UploadFails, Import!Received,
      Import!Encoded, Import!Answered, Import!AskFails
<1>6. answer' \in [Photos -> Import!Answers \cup {None}]
  BY <1>2
  DEF Import!InRoute, Import!Arrive, Import!UploadFails, Import!Received,
      Import!Encoded, Import!Answered, Import!AskFails, Import!Answers
<1>7. uploads' \in 0 .. UploadSlots /\ extractions' \in 0 .. ModelSlots
  <2>1. uploads' \in Nat /\ extractions' \in Nat
    <3>1. \A G : IsFiniteSet(At(photo', G))
      BY SlotsAssumption, PhotosCounted, FS_Subset DEF Import!PhotoAssumption, At
    <3> QED
      BY <3>1, FS_CardinalityType DEF SlotsInv, InUpload, InModel, At
  <2>2. uploads' <= UploadSlots /\ extractions' <= ModelSlots
    BY <1>2, <1>3
    DEF Import!InRoute, Import!Arrive, Import!UploadFails, Import!Received,
        Import!Encoded, Import!Answered, Import!AskFails
  <2> QED
    BY <1>3, <2>1, <2>2
<1> QED
  BY <1>1, <1>2, <1>4, <1>5, <1>6, <1>7, PhotoMoves

LEMMA PhotosStep == SlotsInv /\ PhotosInv /\ Import!Next => PhotosInv'
<1> SUFFICES ASSUME SlotsInv, PhotosInv, Import!Next PROVE PhotosInv'
  OBVIOUS
<1>1. SlotsInv'
  BY SlotsStep
<1>2. ASSUME NEW w \in Windows, Import!InBrowser(w) PROVE PhotosInv'
  BY <1>2, FormSteps, ChooseStep DEF Import!InBrowser
<1> QED
  BY <1>1, <1>2, WayStep, RouteStep DEF Import!Next

LEMMA LimitsTyped == LimitsInv => Limiter!TypeOK
<1> SUFFICES ASSUME LimitsInv PROVE Limiter!TypeOK
  OBVIOUS
<1>1. ASSUME NEW k \in DOMAIN buckets PROVE buckets[k] \in Limiter!Bucket
  <2> DEFINE b == buckets[k]
             lim == Limiter!Limit(k)
  <2>1. b \in Counters /\ b.failures + b.pending <= lim
    BY DEF LimitsInv, Kept, Bounded
  <2>2. lim \in {NameLimit, AddressLimit}
    BY DEF Limiter!Limit
  <2> HIDE DEF b, lim
  <2>3. /\ b = [failures |-> b.failures, pending |-> b.pending, left |-> b.left]
        /\ b.failures \in Nat /\ b.pending \in Nat /\ b.left \in 0 .. Window
    BY <2>1 DEF Counters
  <2>4. /\ b.failures \in 0 .. NameLimit + AddressLimit
        /\ b.pending \in 0 .. NameLimit + AddressLimit
    BY <2>1, <2>2, <2>3, Limits
  <2>5. b \in Limiter!Bucket
    BY <2>1, <2>3, <2>4 DEF Limiter!Bucket, Counters
  <2> QED
    BY <2>5 DEF b
<1>2. buckets \in [DOMAIN buckets -> Limiter!Bucket]
  BY <1>1 DEF LimitsInv
<1> QED
  BY <1>2 DEF LimitsInv, Limiter!TypeOK, Pairs, Ages, Limiter!NoAttempt

\* For any number of accounts, keys, windows and photos, the accounts, the
\* login counters and the photo gates hold what their types allow: the gates
\* never exceed their slots, and no sheet is filled into a form that is closed.
THEOREM GuardsTyped == GuardsSpec => []GuardsTypeOK
<1> DEFINE GuardsInv == IInv /\ LimitsInv /\ SlotsInv /\ PhotosInv
<1>1. GuardsInit => GuardsInv
  BY InitIInv, LimitsInit, SlotsInit, PhotosInit DEF GuardsInit
<1>2. GuardsInv /\ [GuardsNext]_<<part, vars, limiterVars, photoVars>>
        => GuardsInv'
  <2>1. IInv /\ UNCHANGED vars => IInv'
    BY IInvStep
  <2>2. LimitsInv /\ UNCHANGED limiterVars => LimitsInv'
    BY DEF limiterVars, LimitsInv, Holding, Pending, Kept
  <2>3. SlotsInv /\ PhotosInv /\ UNCHANGED photoVars => SlotsInv' /\ PhotosInv'
    BY DEF photoVars, SlotsInv, PhotosInv, Import!TypeOK
  <2> QED
    BY <2>1, <2>2, <2>3, IInvStep, LimitsStep, SlotsStep, PhotosStep DEF GuardsNext
<1>3. GuardsInv => GuardsTypeOK
  BY LimitsTyped DEF GuardsTypeOK, IInv, PhotosInv
<1> QED
  BY <1>1, <1>2, <1>3, PTL DEF GuardsSpec

=============================================================================
