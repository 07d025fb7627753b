-------------------------- MODULE BrowserPlansProofs --------------------------
(***************************************************************************)
(* For any number of plans, windows, tabs and accounts: what a window      *)
(* knows of a stored plan is that plan, no saved pallet is lost, the links *)
(* of browser plans are true, and their publication and their import       *)
(* overwrite and remove nothing unasked.                                   *)
(***************************************************************************)
EXTENDS BrowserPlans, SequenceTheorems, TLAPS

-----------------------------------------------------------------------------
(* The windows: a plan's versions go on counting, also while it is deleted. *)

Latest(p) == IF stored[p] = Absent THEN versions[p] ELSE Windows!Current(p)

\* A window that upgrades a plan still knows the record it read.
ReadingKnown == \A t \in Tabs :
  reading[t] # Absent => known[t][reading[t]] \in Windows!Known

\* A window that is about to mark a pallet found its plan or has put it.
MigratingMade == \A t \in Tabs :
  /\ migrating[t].at # "none" => migrating[t].pallet \in Plans
  /\ migrating[t].at = "mark" => migrating[t].pallet \in made

\* Whatever plan is stored, or in the memory of a window, was stored once.
PlansMade ==
  /\ \A p \in Plans : stored[p] # Absent => p \in made
  /\ \A t \in Tabs :
       /\ \A row \in listed[t] : row[1] \in made
       /\ reading[t] # Absent => reading[t] \in made
       /\ opened[t] # Absent => opened[t] \in made

VersionsPassed == \A t \in Tabs, p \in Plans :
  known[t][p] # Absent => known[t][p].version <= Latest(p)

WindowsInv ==
  /\ Windows!TypeOK /\ ReadingKnown /\ MigratingMade /\ PlansMade
  /\ VersionsPassed /\ VersionNamesRecord /\ MarkedWereMade

PlansBounds ==
  /\ MaxLocal \in Nat \ {0} /\ MaxContent \in Nat /\ Absent \notin Plans

\* What a step makes of the storage: a plan stays as it is, is written with the
\* next version, or is erased without going back.
StorageStep == \A p \in Plans :
  \/ stored'[p] = stored[p] /\ versions'[p] = versions[p]
  \/ Latest(p)' >= Latest(p) /\ Windows!Current(p)' = 0
  \/ Latest(p)' > Latest(p) /\ Windows!Current(p)' = Latest(p)'

\* What a step makes of a window's knowledge: it keeps it, drops it, or has the
\* plan that is stored now.
KnownStep == \A t \in Tabs, p \in Plans :
  \/ known'[t][p] = known[t][p]
  \/ known'[t][p] = Absent
  \/ known'[t][p].record = stored'[p] /\ known'[t][p].version <= Latest(p)'

LEMMA VersionsType ==
  ASSUME PlansBounds, Windows!TypeOK, NEW p \in Plans
  PROVE  /\ Latest(p) \in 0 .. MaxLocal + 2
         /\ Windows!Current(p) \in {0, Latest(p)}
         /\ stored[p] # Absent => Windows!Current(p) >= 1
         /\ Windows!NextVersion(p) = Latest(p) + 1
  BY DEF PlansBounds, Windows!TypeOK, Latest, Windows!Current,
         Windows!NextVersion

LEMMA StorageKept ==
  ASSUME UNCHANGED <<stored, versions>>
  PROVE  StorageStep
  BY DEF StorageStep

LEMMA WriteStep ==
  ASSUME PlansBounds, Windows!TypeOK, NEW p \in Plans,
         NEW record \in Windows!Record, Windows!Write(p, record)
  PROVE  /\ StorageStep
         /\ Latest(p)' = Latest(p) + 1
         /\ stored'[p] = record
         /\ stored' \in [Plans -> Windows!Record \cup {Absent}]
         /\ versions' \in [Plans -> 0 .. MaxLocal + 2]
         /\ \A q \in Plans : q # p => stored'[q] = stored[q]
<1>1. Latest(p) \in Nat /\ Windows!NextVersion(p) = Latest(p) + 1
  BY VersionsType
<1>2. /\ stored'[p] = record /\ versions'[p] = Latest(p) + 1
      /\ stored' \in [Plans -> Windows!Record \cup {Absent}]
      /\ versions' \in [Plans -> 0 .. MaxLocal + 2]
      /\ \A q \in Plans : q # p => stored'[q] = stored[q] /\ versions'[q] = versions[q]
  BY <1>1 DEF PlansBounds, Windows!TypeOK, Windows!Write
<1>3. Latest(p)' = Latest(p) + 1 /\ Windows!Current(p)' \in {0, Latest(p) + 1}
  BY <1>1, <1>2 DEF Latest, Windows!Current
<1> QED
  BY <1>1, <1>2, <1>3 DEF StorageStep

LEMMA EraseStep ==
  ASSUME PlansBounds, Windows!TypeOK, NEW p \in Plans,
         NEW version \in {Latest(p), Latest(p) + 1}, Windows!Erase(p, version)
  PROVE  /\ StorageStep
         /\ stored' \in [Plans -> Windows!Record \cup {Absent}]
         /\ versions' \in [Plans -> 0 .. MaxLocal + 2]
         /\ \A q \in Plans : stored'[q] # Absent => stored'[q] = stored[q]
<1>1. Latest(p) \in Nat
  BY VersionsType
<1>2. /\ stored'[p] = Absent /\ versions'[p] = version
      /\ stored' \in [Plans -> Windows!Record \cup {Absent}]
      /\ versions' \in [Plans -> 0 .. MaxLocal + 2]
      /\ \A q \in Plans : q # p => stored'[q] = stored[q] /\ versions'[q] = versions[q]
  BY <1>1 DEF PlansBounds, Windows!TypeOK, Windows!Erase
<1>3. Latest(p)' >= Latest(p) /\ Windows!Current(p)' = 0
  BY <1>1, <1>2 DEF Latest, Windows!Current
<1> QED
  BY <1>1, <1>2, <1>3 DEF StorageStep

\* With such steps a version names one record of its plan.
LEMMA VersionsNameRecords ==
  ASSUME PlansBounds, WindowsInv, Windows!TypeOK', StorageStep, KnownStep
  PROVE  (VersionsPassed /\ VersionNamesRecord)'
<1> SUFFICES ASSUME NEW t \in Tabs, NEW p \in Plans, known'[t][p] # Absent
             PROVE  /\ known'[t][p].version <= Latest(p)'
                    /\ Windows!Current(p)' = known'[t][p].version
                         => stored'[p] = known'[t][p].record
  BY DEF VersionsPassed, VersionNamesRecord, Windows!VersionNamesRecord
<1> DEFINE v == known[t][p].version
<1>1. Latest(p) \in Nat /\ Latest(p)' \in Nat
  <2>1. Latest(p) \in Nat
    BY VersionsType DEF WindowsInv
  <2>2. Latest(p)' \in Nat
    BY DEF PlansBounds, Windows!TypeOK, Latest, Windows!Current
  <2> QED
    BY <2>1, <2>2
<1>2. CASE /\ known'[t][p] # known[t][p]
           /\ known'[t][p].record = stored'[p]
           /\ known'[t][p].version <= Latest(p)'
  BY <1>2
<1>3. CASE known'[t][p] = known[t][p]
  <2>1. /\ v \in Nat \ {0} /\ v <= Latest(p)
        /\ Windows!Current(p) = v => stored[p] = known[t][p].record
    BY <1>3 DEF WindowsInv, Windows!TypeOK, Windows!Known, VersionsPassed,
                VersionNamesRecord, Windows!VersionNamesRecord
  <2> HIDE DEF v
  <2>2. CASE stored'[p] = stored[p] /\ versions'[p] = versions[p]
    <3>1. Latest(p)' = Latest(p) /\ Windows!Current(p)' = Windows!Current(p)
      BY <2>2 DEF Latest, Windows!Current
    <3> QED
      BY <1>3, <2>1, <2>2, <3>1 DEF v
  <2>3. CASE Latest(p)' >= Latest(p) /\ Windows!Current(p)' = 0
    BY <1>1, <1>3, <2>1, <2>3 DEF v
  <2>4. CASE Latest(p)' > Latest(p) /\ Windows!Current(p)' = Latest(p)'
    BY <1>1, <1>3, <2>1, <2>4 DEF v
  <2> QED
    BY <2>2, <2>3, <2>4 DEF StorageStep
<1> QED
  BY <1>2, <1>3 DEF KnownStep

-----------------------------------------------------------------------------
(* The steps of a window.                                                  *)

\* What remains to be shown of a step.
WindowsStep ==
  /\ Windows!TypeOK' /\ StorageStep /\ KnownStep
  /\ (ReadingKnown /\ MigratingMade /\ PlansMade /\ MarkedWereMade)'

LEMMA MountStep ==
  ASSUME WindowsInv, NEW t \in Tabs, Windows!Mount(t)
  PROVE  WindowsStep
  BY StorageKept
  DEF WindowsInv, WindowsStep, Windows!Mount, Windows!storage, Windows!TypeOK,
      KnownStep, ReadingKnown, MigratingMade, PlansMade, MarkedWereMade,
      Windows!MarkedWereMade

LEMMA CloseTabStep ==
  ASSUME WindowsInv, NEW t \in Tabs, Windows!CloseTab(t)
  PROVE  WindowsStep
  BY StorageKept
  DEF WindowsInv, WindowsStep, Windows!CloseTab, Windows!storage, Windows!Idle,
      Windows!TypeOK, KnownStep, ReadingKnown, MigratingMade, PlansMade,
      MarkedWereMade, Windows!MarkedWereMade

Stages == {"none", "marker", "project", "put", "mark"}

Pallets == Plans \cup {Absent}

Migrations == [left : SUBSET Plans, pallet : Pallets, at : Stages]

\* One field of a window's migration, or all of it, changes.
LEMMA MigrationEdited ==
  ASSUME NEW m \in Migrations, NEW S \in SUBSET Plans, NEW p \in Plans
  PROVE  /\ [m EXCEPT !.left = S] \in Migrations
         /\ [m EXCEPT !.left = S].at = m.at
         /\ [m EXCEPT !.left = S].pallet = m.pallet
         /\ [left |-> S, at |-> "marker", pallet |-> p] \in Migrations
  BY DEF Migrations, Stages, Pallets

Gone(m, next, p) == [m EXCEPT !.at = next, !.pallet = p]

LEMMA MigrationGoes ==
  ASSUME NEW m \in Migrations, NEW next \in Stages, NEW p \in Pallets
  PROVE  /\ Gone(m, next, p) \in Migrations
         /\ Gone(m, next, p).at = next
         /\ Gone(m, next, p).pallet = p
  BY DEF Migrations, Stages, Pallets, Gone

\* What the steps of a migration have in common.
MigrationMoves(t, m) ==
  /\ migrating' = [migrating EXCEPT ![t] = m]
  /\ UNCHANGED <<mode, pallets, contents, windows, listed, reading, opened, known>>

LEMMA MigrationMoved ==
  ASSUME WindowsInv, NEW t \in Tabs, NEW m \in Migrations, MigrationMoves(t, m),
         m.at # "none" => m.pallet \in Plans,
         m.at = "mark" => m.pallet \in made',
         quarantine' \subseteq Plans, marked' \subseteq made', made \subseteq made',
         made' \subseteq Plans, StorageStep,
         stored' \in [Plans -> Windows!Record \cup {Absent}],
         versions' \in [Plans -> 0 .. MaxLocal + 2],
         \A p \in Plans : stored'[p] # Absent => p \in made'
  PROVE  WindowsStep
<1>1. Windows!TypeOK'
  BY DEF WindowsInv, MigrationMoves, Migrations, Stages, Pallets, Windows!TypeOK
<1>2. MigratingMade'
  BY DEF WindowsInv, MigrationMoves, Migrations, Stages, Pallets, Windows!TypeOK, MigratingMade
<1>3. (ReadingKnown /\ PlansMade /\ MarkedWereMade)' /\ KnownStep
  BY DEF WindowsInv, MigrationMoves, Windows!TypeOK, ReadingKnown, PlansMade,
         MarkedWereMade, Windows!MarkedWereMade, KnownStep
<1> QED
  BY <1>1, <1>2, <1>3 DEF WindowsStep

LEMMA MigrationType ==
  ASSUME WindowsInv, NEW t \in Tabs
  PROVE  /\ migrating[t] \in Migrations
         /\ migrating[t].at # "none" => migrating[t].pallet \in Plans
         /\ migrating[t].at = "mark" => migrating[t].pallet \in made
         /\ \A p \in Plans : stored[p] # Absent => p \in made
         /\ stored \in [Plans -> Windows!Record \cup {Absent}]
         /\ versions \in [Plans -> 0 .. MaxLocal + 2]
         /\ quarantine \subseteq Plans /\ marked \subseteq made
         /\ made \subseteq Plans
  BY DEF WindowsInv, Windows!TypeOK, Migrations, Stages, Pallets, MigratingMade, PlansMade,
         MarkedWereMade, Windows!MarkedWereMade

LEMMA TakePalletStep ==
  ASSUME WindowsInv, NEW t \in Tabs, Windows!TakePallet(t)
  PROVE  WindowsStep
<1>1. PICK p \in migrating[t].left :
        \/ /\ migrating' = [migrating EXCEPT ![t] =
                [left |-> migrating[t].left \ {p}, at |-> "marker", pallet |-> p]]
           /\ UNCHANGED quarantine
        \/ /\ migrating' = [migrating EXCEPT ![t] =
                [migrating[t] EXCEPT !.left = migrating[t].left \ {p}]]
           /\ quarantine' = quarantine \cup {p}
  BY MigrationType DEF Windows!TakePallet, WindowsInv, Windows!TypeOK
<1>2. p \in Plans /\ migrating[t].left \ {p} \in SUBSET Plans
  BY MigrationType DEF Migrations, Stages, Pallets
<1>3. PICK m \in Migrations :
        /\ migrating' = [migrating EXCEPT ![t] = m]
        /\ \/ m.at = "marker" /\ m.pallet = p
           \/ m.at = migrating[t].at /\ m.pallet = migrating[t].pallet
  <2> DEFINE left == migrating[t].left \ {p}
  <2>1. migrating[t] \in Migrations /\ left \in SUBSET Plans
    BY <1>2, MigrationType
  <2>2. \/ migrating' = [migrating EXCEPT ![t] =
                          [left |-> left, at |-> "marker", pallet |-> p]]
        \/ migrating' = [migrating EXCEPT ![t] = [migrating[t] EXCEPT !.left = left]]
    BY <1>1
  <2> HIDE DEF left
  <2>3. /\ [migrating[t] EXCEPT !.left = left] \in Migrations
        /\ [migrating[t] EXCEPT !.left = left].at = migrating[t].at
        /\ [migrating[t] EXCEPT !.left = left].pallet = migrating[t].pallet
        /\ [left |-> left, at |-> "marker", pallet |-> p] \in Migrations
    BY <1>2, <2>1, MigrationEdited
  <2> QED
    BY <2>2, <2>3
<1>4. MigrationMoves(t, m)
  BY <1>3 DEF MigrationMoves, Windows!TakePallet
<1>5. UNCHANGED <<stored, versions, made, marked>> /\ quarantine' \subseteq Plans
  BY <1>1, <1>2, MigrationType DEF Windows!TakePallet
<1> QED
  BY <1>2, <1>3, <1>4, <1>5, MigrationType, StorageKept, MigrationMoved

\* The next stage of a window's migration.
LEMMA MigrationAtStep ==
  ASSUME WindowsInv, NEW t \in Tabs, NEW at \in {"marker", "project", "put", "mark"},
         NEW next \in {"none", "marker", "project", "put", "mark"},
         Windows!MigrationAt(t, at, next)
  PROVE  /\ UNCHANGED quarantine
         /\ \E m \in Migrations :
              /\ MigrationMoves(t, m)
              /\ m.at = next
              /\ m.at # "none" => m.pallet = migrating[t].pallet
         /\ migrating[t].at = at /\ migrating[t].pallet \in Plans
<1> DEFINE p == IF next = "none" THEN Absent ELSE migrating[t].pallet
<1>1. migrating[t].at = at /\ migrating[t].pallet \in Plans
  BY MigrationType DEF Windows!MigrationAt
<1>2. p \in Pallets /\ migrating[t] \in Migrations /\ next \in Stages
  BY <1>1, MigrationType DEF Pallets, Stages
<1>3. migrating' = [migrating EXCEPT ![t] = Gone(migrating[t], next, p)]
  BY DEF Windows!MigrationAt, WindowsInv, Windows!TypeOK, Gone
<1>4. next # "none" => p = migrating[t].pallet
  OBVIOUS
<1> HIDE DEF p
<1>5. PICK m \in Migrations :
        m = Gone(migrating[t], next, p) /\ m.at = next /\ m.pallet = p
  BY <1>2, MigrationGoes
<1>6. MigrationMoves(t, m)
  BY <1>3, <1>5 DEF MigrationMoves, Windows!MigrationAt
<1> QED
  BY <1>1, <1>4, <1>5, <1>6 DEF Windows!MigrationAt

LEMMA WasMigratedStep ==
  ASSUME WindowsInv, NEW t \in Tabs, Windows!WasMigrated(t)
  PROVE  WindowsStep
<1>1. PICK next \in {"none", "project"} : Windows!MigrationAt(t, "marker", next)
  BY DEF Windows!WasMigrated
<1>2. PICK m \in Migrations :
        MigrationMoves(t, m) /\ m.at = next
        /\ (m.at # "none" => m.pallet = migrating[t].pallet)
  BY <1>1, MigrationAtStep
<1>3. UNCHANGED <<stored, versions, marked, made, quarantine>>
  BY <1>1, MigrationAtStep DEF Windows!WasMigrated
<1>4. migrating[t].pallet \in Plans
  BY <1>1, MigrationAtStep
<1> QED
  BY <1>2, <1>3, <1>4, MigrationType, StorageKept, MigrationMoved

LEMMA LookForProjectStep ==
  ASSUME WindowsInv, NEW t \in Tabs, Windows!LookForProject(t)
  PROVE  WindowsStep
<1>1. PICK next \in {"mark", "put"} :
        /\ Windows!MigrationAt(t, "project", next)
        /\ next = "mark" => stored[migrating[t].pallet] # Absent
  BY DEF Windows!LookForProject
<1>2. PICK m \in Migrations :
        MigrationMoves(t, m) /\ m.at = next /\ m.pallet = migrating[t].pallet
  BY <1>1, MigrationAtStep
<1>3. UNCHANGED <<stored, versions, marked, made, quarantine>>
  BY <1>1, MigrationAtStep DEF Windows!LookForProject
<1>4. migrating[t].pallet \in Plans
  BY <1>1, MigrationAtStep
<1> QED
  BY <1>1, <1>2, <1>3, <1>4, MigrationType, StorageKept, MigrationMoved

LEMMA PutProjectStep ==
  ASSUME PlansBounds, WindowsInv, NEW t \in Tabs, Windows!PutProject(t)
  PROVE  WindowsStep
<1> DEFINE p == migrating[t].pallet
           record == [content |-> 0, schema |-> "new"]
<1>1. Windows!MigrationAt(t, "put", "mark") /\ Windows!Write(p, record)
      /\ made' = made \cup {p} /\ UNCHANGED marked
  BY DEF Windows!PutProject
<1>2. record \in Windows!Record
  BY DEF PlansBounds, Windows!Record
<1> HIDE DEF record
<1>3. p \in Plans /\ UNCHANGED quarantine
  BY <1>1, MigrationAtStep
<1>4. PICK m \in Migrations :
        MigrationMoves(t, m) /\ m.at = "mark" /\ m.pallet = p
  BY <1>1, MigrationAtStep
<1> HIDE DEF p
<1>5. /\ StorageStep
      /\ stored' \in [Plans -> Windows!Record \cup {Absent}]
      /\ versions' \in [Plans -> 0 .. MaxLocal + 2]
      /\ \A q \in Plans : q # p => stored'[q] = stored[q]
  BY <1>1, <1>2, <1>3, WriteStep DEF WindowsInv
<1> QED
  BY <1>1, <1>3, <1>4, <1>5, MigrationType, MigrationMoved

LEMMA MarkMigratedStep ==
  ASSUME WindowsInv, NEW t \in Tabs, Windows!MarkMigrated(t)
  PROVE  WindowsStep
<1>1. /\ Windows!MigrationAt(t, "mark", "none")
      /\ marked' = marked \cup {migrating[t].pallet}
      /\ UNCHANGED <<stored, versions, made>>
  BY DEF Windows!MarkMigrated
<1>2. PICK m \in Migrations : MigrationMoves(t, m) /\ m.at = "none"
  BY <1>1, MigrationAtStep
<1>3. UNCHANGED quarantine /\ migrating[t].pallet \in made
  BY <1>1, MigrationAtStep, MigrationType
<1> QED
  BY <1>1, <1>2, <1>3, MigrationType, StorageKept, MigrationMoved

LEMMA ListStep ==
  ASSUME WindowsInv, NEW t \in Tabs,
         Windows!Migrated(t) \/ Windows!ListProjects(t) \/ Windows!Listed(t)
  PROVE  WindowsStep
<1>1. StorageStep /\ KnownStep
  BY StorageKept
  DEF Windows!Migrated, Windows!ListProjects, Windows!Listed, Windows!storage,
      KnownStep
<1>2. /\ listed' \in [Tabs -> SUBSET (Plans \X Windows!Record)]
      /\ \A u \in Tabs : \A row \in listed'[u] : row[1] \in made
  <2> DEFINE rowsNow == {<<p, stored[p]>> : p \in {q \in Plans : stored[q] # Absent}}
  <2>1. rowsNow \subseteq Plans \X Windows!Record
    BY DEF WindowsInv, Windows!TypeOK
  <2>2. \A row \in rowsNow : row[1] \in made
    BY DEF WindowsInv, PlansMade
  <2>3. \/ listed' = listed
        \/ listed' = [listed EXCEPT ![t] = rowsNow]
    BY DEF Windows!Migrated, Windows!ListProjects, Windows!Listed
  <2> HIDE DEF rowsNow
  <2> QED
    BY <2>1, <2>2, <2>3 DEF WindowsInv, Windows!TypeOK, PlansMade
<1>3. Windows!TypeOK' /\ PlansMade'
  BY <1>2 DEF WindowsInv, Windows!Migrated, Windows!ListProjects, Windows!Listed,
              Windows!storage, Windows!TypeOK, PlansMade
<1>4. (ReadingKnown /\ MigratingMade /\ MarkedWereMade)'
  BY DEF WindowsInv, Windows!Migrated, Windows!ListProjects, Windows!Listed,
         Windows!storage, ReadingKnown, MigratingMade, MarkedWereMade,
         Windows!MarkedWereMade
<1> QED
  BY <1>1, <1>3, <1>4 DEF WindowsStep

LEMMA UpgradedType ==
  ASSUME NEW record \in Windows!Record
  PROVE  Windows!Upgraded(record) \in Windows!Record
  BY DEF Windows!Upgraded, Windows!Record

LEMMA LookAtRowStep ==
  ASSUME PlansBounds, WindowsInv, NEW t \in Tabs, Windows!LookAtRow(t)
  PROVE  WindowsStep
<1>1. PICK row \in listed[t] :
        /\ listed' = [listed EXCEPT ![t] = @ \ {row}]
        /\ \/ Windows!PersistUpgrade(t, row)
           \/ Windows!Quarantine(row)
           \/ UNCHANGED <<stored, versions, quarantine>>
  BY DEF Windows!LookAtRow
<1>2. /\ row[1] \in Plans /\ row[2] \in Windows!Record
      /\ Windows!Upgraded(row[2]) \in Windows!Record
      /\ row[1] \in made
  <2>1. row \in Plans \X Windows!Record /\ row[1] \in made
    BY DEF WindowsInv, Windows!TypeOK, PlansMade
  <2>2. row[2] \in Windows!Record
    BY <2>1
  <2>3. Windows!Upgraded(row[2]) \in Windows!Record
    BY <2>2, UpgradedType
  <2> QED
    BY <2>1, <2>2, <2>3
<1>3. /\ StorageStep
      /\ stored' \in [Plans -> Windows!Record \cup {Absent}]
      /\ versions' \in [Plans -> 0 .. MaxLocal + 2]
      /\ \A q \in Plans : q # row[1] => stored'[q] = stored[q]
  <2>1. CASE Windows!PersistUpgrade(t, row)
    BY <1>2, <2>1, WriteStep DEF WindowsInv, Windows!PersistUpgrade
  <2>2. CASE UNCHANGED <<stored, versions>>
    BY <2>2, StorageKept DEF WindowsInv, Windows!TypeOK
  <2> QED
    BY <1>1, <2>1, <2>2 DEF Windows!Quarantine
<1>4. quarantine' \subseteq Plans
  BY <1>1, <1>2 DEF WindowsInv, Windows!TypeOK, Windows!PersistUpgrade,
                    Windows!Quarantine
<1>5. Windows!TypeOK'
  BY <1>1, <1>3, <1>4 DEF WindowsInv, Windows!LookAtRow, Windows!TypeOK
<1>6. (ReadingKnown /\ MigratingMade /\ PlansMade /\ MarkedWereMade)' /\ KnownStep
  BY <1>1, <1>2, <1>3
  DEF WindowsInv, Windows!LookAtRow, Windows!TypeOK, KnownStep, ReadingKnown,
      MigratingMade, PlansMade, MarkedWereMade, Windows!MarkedWereMade
<1> QED
  BY <1>3, <1>5, <1>6 DEF WindowsStep

\* What the steps with one plan have in common: what the window knows of it
\* is dropped, or is the record stored now.
Learned(t, p, fact) ==
  /\ known' = [known EXCEPT ![t][p] = fact]
  /\ fact # Absent =>
       /\ fact \in Windows!Known
       /\ fact.record = stored'[p] /\ fact.version <= Latest(p)'

LEMMA LearnedKnown ==
  ASSUME WindowsInv, NEW t \in Tabs, NEW p \in Plans, NEW fact,
         Learned(t, p, fact)
  PROVE  /\ KnownStep
         /\ known' \in [Tabs -> [Plans -> Windows!Known \cup {Absent}]]
         /\ \A u \in Tabs, q \in Plans :
              u # t \/ q # p => known'[u][q] = known[u][q]
         /\ known'[t][p] = fact
  BY DEF WindowsInv, Windows!TypeOK, Learned, KnownStep

LEMMA LearnsKnown ==
  ASSUME NEW record \in Windows!Record, NEW version \in 1 .. MaxLocal + 2
  PROVE  /\ [record |-> record, version |-> version] \in Windows!Known
         /\ [record |-> record, version |-> version].record = record
         /\ [record |-> record, version |-> version].version = version
  BY DEF Windows!Known

\* Such a step of a window that does not read a plan by then.
LEMMA PlanMoved ==
  ASSUME WindowsInv, NEW t \in Tabs, NEW p \in Plans, NEW fact,
         Learned(t, p, fact), StorageStep,
         stored' \in [Plans -> Windows!Record \cup {Absent}],
         versions' \in [Plans -> 0 .. MaxLocal + 2],
         \A q \in Plans : stored'[q] # Absent => q \in made,
         quarantine' \subseteq Plans, contents' \in 0 .. MaxContent,
         NEW r \in {Absent, p}, reading' = [reading EXCEPT ![t] = r],
         r # Absent => fact \in Windows!Known /\ p \in made,
         NEW o \in Plans \cup {Absent}, opened' = [opened EXCEPT ![t] = o],
         o # Absent => o \in made,
         UNCHANGED <<mode, pallets, marked, made, windows, migrating, listed>>
  PROVE  WindowsStep
<1>1. KnownStep /\ known' \in [Tabs -> [Plans -> Windows!Known \cup {Absent}]]
  BY LearnedKnown
<1>2. Windows!TypeOK'
  BY <1>1 DEF WindowsInv, Windows!TypeOK
<1>3. ReadingKnown'
  BY LearnedKnown DEF WindowsInv, Windows!TypeOK, ReadingKnown
<1>4. (MigratingMade /\ PlansMade /\ MarkedWereMade)'
  BY DEF WindowsInv, Windows!TypeOK, MigratingMade, PlansMade, MarkedWereMade,
         Windows!MarkedWereMade
<1> QED
  BY <1>1, <1>2, <1>3, <1>4 DEF WindowsStep

LEMMA PlanType ==
  ASSUME PlansBounds, WindowsInv, NEW t \in Tabs, NEW p \in Plans
  PROVE  /\ reading = [reading EXCEPT ![t] = reading[t]]
         /\ opened = [opened EXCEPT ![t] = opened[t]]
         /\ reading[t] \in Plans \cup {Absent} /\ opened[t] \in Plans \cup {Absent}
         /\ opened[t] # Absent => opened[t] \in made
         /\ stored \in [Plans -> Windows!Record \cup {Absent}]
         /\ versions \in [Plans -> 0 .. MaxLocal + 2]
         /\ \A q \in Plans : stored[q] # Absent => q \in made
         /\ quarantine \subseteq Plans /\ contents \in 0 .. MaxContent
  BY DEF WindowsInv, Windows!TypeOK, PlansMade

LEMMA OpenStep ==
  ASSUME PlansBounds, WindowsInv, NEW t \in Tabs, Windows!Open(t)
  PROVE  WindowsStep
<1>1. PICK p \in Plans :
        \/ /\ stored[p] # Absent
           /\ \/ opened' = [opened EXCEPT ![t] = p] /\ reading' = reading
              \/ opened' = [opened EXCEPT ![t] = Absent]
                 /\ reading' = [reading EXCEPT ![t] = p]
           /\ Windows!Learns(t, p, stored[p], Windows!Current(p))
           /\ UNCHANGED quarantine
        \/ /\ opened' = [opened EXCEPT ![t] = Absent]
           /\ known' = [known EXCEPT ![t][p] = Absent]
           /\ quarantine' = quarantine \cup (IF stored[p] = Absent THEN {} ELSE {p})
           /\ UNCHANGED reading
  BY DEF Windows!Open
<1>2. /\ UNCHANGED <<mode, pallets, marked, made, windows, migrating, listed>>
      /\ UNCHANGED <<stored, versions, contents>>
      /\ reading[t] = Absent
  BY DEF Windows!Open, Windows!Usable
<1>3. StorageStep
  BY <1>2, StorageKept
<1>4. quarantine' \subseteq Plans
  BY <1>1, PlanType
<1>5. CASE Windows!Learns(t, p, stored[p], Windows!Current(p)) /\ stored[p] # Absent
  <2> DEFINE e == [record |-> stored[p], version |-> Windows!Current(p)]
  <2>1. /\ Windows!Current(p) \in 1 .. MaxLocal + 2
        /\ Windows!Current(p) = Latest(p)
    BY <1>5, VersionsType DEF WindowsInv
  <2>2. stored[p] \in Windows!Record /\ Latest(p)' = Latest(p)
    BY <1>2, <1>5, PlanType DEF Latest, Windows!Current
  <2>3. e \in Windows!Known /\ e.record = stored[p] /\ e.version = Windows!Current(p)
    BY <2>1, <2>2, LearnsKnown
  <2>4. known' = [known EXCEPT ![t][p] = e]
    BY <1>5 DEF Windows!Learns
  <2> HIDE DEF e
  <2>5. Learned(t, p, e)
    BY <1>2, <2>1, <2>2, <2>3, <2>4 DEF Learned
  <2>6. PICK r \in {Absent, p}, o \in {Absent, p} :
          /\ reading' = [reading EXCEPT ![t] = r]
          /\ opened' = [opened EXCEPT ![t] = o]
    BY <1>1, <1>2, <1>5, PlanType
  <2>7. p \in made
    BY <1>5, PlanType
  <2> QED
    BY <1>2, <1>3, <1>4, <2>3, <2>5, <2>6, <2>7, PlanType, PlanMoved
<1>6. CASE /\ opened' = [opened EXCEPT ![t] = Absent]
           /\ known' = [known EXCEPT ![t][p] = Absent]
           /\ UNCHANGED reading
  <2>1. Learned(t, p, Absent)
    BY <1>6 DEF Learned
  <2>2. reading' = [reading EXCEPT ![t] = Absent]
    BY <1>2, <1>6, PlanType
  <2> QED
    BY <1>2, <1>3, <1>4, <1>6, <2>1, <2>2, PlanType, PlanMoved
<1> QED
  BY <1>1, <1>5, <1>6

LEMMA UpgradeOpenedStep ==
  ASSUME PlansBounds, WindowsInv, NEW t \in Tabs, Windows!UpgradeOpened(t)
  PROVE  WindowsStep
<1>0. PICK p \in Plans : p = reading[t]
  BY DEF WindowsInv, Windows!TypeOK, Windows!UpgradeOpened
<1>1. /\ p \in made /\ known[t][p] \in Windows!Known
      /\ reading' = [reading EXCEPT ![t] = Absent]
      /\ UNCHANGED <<mode, pallets, marked, made, windows, migrating, listed>>
      /\ UNCHANGED <<quarantine, contents>>
  BY <1>0 DEF WindowsInv, Windows!TypeOK, ReadingKnown, PlansMade,
         Windows!UpgradeOpened
<1> DEFINE record == Windows!Upgraded(known[t][p].record)
           e == [record |-> record, version |-> Windows!NextVersion(p)]
<1>2. record \in Windows!Record
  BY <1>1, UpgradedType DEF Windows!Known
<1>3. \/ /\ Windows!Write(p, record)
         /\ opened' = [opened EXCEPT ![t] = p]
         /\ known' = [known EXCEPT ![t][p] = e]
      \/ /\ known' = [known EXCEPT ![t][p] = Absent]
         /\ UNCHANGED <<stored, versions, opened>>
  BY <1>0 DEF Windows!UpgradeOpened, Windows!Learns
<1> HIDE DEF record
<1>4. CASE /\ Windows!Write(p, record)
           /\ opened' = [opened EXCEPT ![t] = p]
           /\ known' = [known EXCEPT ![t][p] = e]
  <2>1. /\ StorageStep
        /\ Latest(p)' = Latest(p) + 1 /\ stored'[p] = record
        /\ stored' \in [Plans -> Windows!Record \cup {Absent}]
        /\ versions' \in [Plans -> 0 .. MaxLocal + 2]
        /\ \A q \in Plans : q # p => stored'[q] = stored[q]
    BY <1>2, <1>4, WriteStep DEF WindowsInv
  <2>2. /\ Windows!NextVersion(p) \in 1 .. MaxLocal + 2
        /\ Windows!NextVersion(p) = Latest(p)'
    BY <1>1, <1>4, <2>1, VersionsType DEF WindowsInv, PlansBounds, Windows!Write
  <2>3. e \in Windows!Known /\ e.record = record
        /\ e.version = Windows!NextVersion(p)
    BY <1>2, <2>2, LearnsKnown
  <2> HIDE DEF e
  <2>4. Learned(t, p, e)
    BY <1>4, <2>1, <2>2, <2>3 DEF Learned, PlansBounds
  <2>5. \A q \in Plans : stored'[q] # Absent => q \in made
    BY <1>1, <2>1, PlanType
  <2> QED
    BY <1>1, <1>4, <2>1, <2>4, <2>5, PlanType, PlanMoved
<1>5. CASE /\ known' = [known EXCEPT ![t][p] = Absent]
           /\ UNCHANGED <<stored, versions, opened>>
  <2>1. Learned(t, p, Absent)
    BY <1>5 DEF Learned
  <2>2. opened' = [opened EXCEPT ![t] = opened[t]]
    BY <1>1, <1>5, PlanType
  <2> QED
    BY <1>1, <1>5, <2>1, <2>2, PlanType, StorageKept, PlanMoved
<1> QED
  BY <1>3, <1>4, <1>5

LEMMA SaveStep ==
  ASSUME PlansBounds, WindowsInv, NEW t \in Tabs, Windows!Save(t)
  PROVE  WindowsStep
<1>0. PICK p \in Plans : p = opened[t]
  BY DEF WindowsInv, Windows!TypeOK, Windows!Save
<1> DEFINE record == [content |-> contents + 1, schema |-> "new"]
           e == [record |-> record, version |-> Windows!NextVersion(p)]
<1>1. /\ p \in made /\ reading[t] = Absent
      /\ contents' \in 0 .. MaxContent
      /\ UNCHANGED <<mode, pallets, marked, made, windows, migrating, listed>>
      /\ UNCHANGED <<quarantine, reading, opened>>
  BY <1>0, PlanType
  DEF PlansBounds, WindowsInv, Windows!TypeOK, PlansMade, Windows!Save,
      Windows!Usable
<1>2. record \in Windows!Record
  BY <1>1 DEF PlansBounds, WindowsInv, Windows!TypeOK, Windows!Record,
              Windows!Save
<1>3. Windows!Write(p, record)
  BY <1>0 DEF Windows!Save
<1>4. known' = [known EXCEPT ![t][p] = e]
  BY <1>0 DEF Windows!Save, Windows!Learns
<1> HIDE DEF record
<1>5. reading' = [reading EXCEPT ![t] = Absent] /\ opened' = [opened EXCEPT ![t] = p]
  BY <1>0, <1>1, PlanType
<1>6. /\ StorageStep
      /\ Latest(p)' = Latest(p) + 1 /\ stored'[p] = record
      /\ stored' \in [Plans -> Windows!Record \cup {Absent}]
      /\ versions' \in [Plans -> 0 .. MaxLocal + 2]
      /\ \A q \in Plans : q # p => stored'[q] = stored[q]
  BY <1>2, <1>3, WriteStep DEF WindowsInv
<1>7. /\ Windows!NextVersion(p) \in 1 .. MaxLocal + 2
      /\ Windows!NextVersion(p) = Latest(p)'
  BY <1>1, <1>3, <1>6, VersionsType DEF WindowsInv, PlansBounds, Windows!Write
<1>8. e \in Windows!Known /\ e.record = record
      /\ e.version = Windows!NextVersion(p)
  BY <1>2, <1>7, LearnsKnown
<1> HIDE DEF e
<1>9. Learned(t, p, e)
  BY <1>4, <1>6, <1>7, <1>8 DEF Learned, PlansBounds
<1>10. \A q \in Plans : stored'[q] # Absent => q \in made
  BY <1>1, <1>6, PlanType
<1> QED
  BY <1>1, <1>5, <1>6, <1>9, <1>10, PlanType, PlanMoved

LEMMA RemoveStep ==
  ASSUME PlansBounds, WindowsInv, NEW t \in Tabs, Windows!Remove(t)
  PROVE  WindowsStep
<1>1. PICK p \in Plans :
        /\ stored[p] # Absent
        /\ \/ Windows!Erase(p, Windows!NextVersion(p))
           \/ Windows!Erase(p, Windows!Current(p))
        /\ known' = [known EXCEPT ![t][p] = Absent]
        /\ opened' = [opened EXCEPT ![t] = IF @ = p THEN Absent ELSE @]
  BY DEF Windows!Remove
<1>2. /\ reading[t] = Absent
      /\ UNCHANGED <<mode, pallets, marked, made, windows, migrating, listed>>
      /\ UNCHANGED <<quarantine, contents, reading>>
  BY DEF Windows!Remove, Windows!Usable
<1>3. PICK version \in {Latest(p), Latest(p) + 1} : Windows!Erase(p, version)
  BY <1>1, VersionsType DEF WindowsInv, Latest
<1>4. /\ StorageStep
      /\ stored' \in [Plans -> Windows!Record \cup {Absent}]
      /\ versions' \in [Plans -> 0 .. MaxLocal + 2]
      /\ \A q \in Plans : stored'[q] # Absent => stored'[q] = stored[q]
  BY <1>3, EraseStep DEF WindowsInv
<1>5. Learned(t, p, Absent)
  BY <1>1 DEF Learned
<1>6. PICK o \in {Absent, opened[t]} : opened' = [opened EXCEPT ![t] = o]
  BY <1>1, PlanType DEF WindowsInv, Windows!TypeOK
<1>7. reading' = [reading EXCEPT ![t] = Absent]
  BY <1>2, PlanType
<1>8. \A q \in Plans : stored'[q] # Absent => q \in made
  BY <1>4, PlanType
<1> QED
  BY <1>2, <1>4, <1>5, <1>6, <1>7, <1>8, PlanType, PlanMoved

LEMMA WindowsStart ==
  ASSUME PlansBounds, Windows!Init
  PROVE  WindowsInv
<1>1. Windows!TypeOK
  BY DEF PlansBounds, Windows!Init, Windows!TypeOK, Windows!Record, Windows!Idle
<1> QED
  BY <1>1 DEF WindowsInv, Windows!Init, Windows!Idle, ReadingKnown, MigratingMade,
              PlansMade, VersionsPassed, VersionNamesRecord,
              Windows!VersionNamesRecord, MarkedWereMade, Windows!MarkedWereMade

\* The inductive step.
LEMMA WindowsNext ==
  ASSUME PlansBounds, WindowsInv, Windows!Next
  PROVE  WindowsInv'
<1>1. PICK t \in Tabs :
        \/ Windows!Mount(t) \/ Windows!CloseTab(t)
        \/ Windows!TakePallet(t) \/ Windows!WasMigrated(t)
        \/ Windows!LookForProject(t) \/ Windows!PutProject(t)
        \/ Windows!MarkMigrated(t) \/ Windows!Migrated(t)
        \/ Windows!ListProjects(t) \/ Windows!LookAtRow(t) \/ Windows!Listed(t)
        \/ Windows!Open(t) \/ Windows!UpgradeOpened(t) \/ Windows!Save(t)
        \/ Windows!Remove(t)
  BY DEF Windows!Next
<1>2. WindowsStep
  BY <1>1, MountStep, CloseTabStep, TakePalletStep, WasMigratedStep,
     LookForProjectStep, PutProjectStep, MarkMigratedStep, ListStep,
     LookAtRowStep, OpenStep, UpgradeOpenedStep, SaveStep, RemoveStep
<1>3. (VersionsPassed /\ VersionNamesRecord)'
  BY <1>2, VersionsNameRecords DEF WindowsStep
<1> QED
  BY <1>2, <1>3 DEF WindowsInv, WindowsStep

LEMMA WindowsKept ==
  ASSUME WindowsInv, UNCHANGED windowVars
  PROVE  WindowsInv'
  BY DEF windowVars, WindowsInv, Windows!TypeOK, ReadingKnown, MigratingMade,
         PlansMade, VersionsPassed, Latest, Windows!Current, VersionNamesRecord,
         Windows!VersionNamesRecord, MarkedWereMade, Windows!MarkedWereMade

-----------------------------------------------------------------------------
(* The publication: what a tab keeps of the server was once true there.    *)

SyncBounds == MaxLocal \in Nat \ {0} /\ MaxServer \in Nat \ {0} /\ Admins \subseteq Users

\* The record has reached this version and, at it, has this content.
Reached(id, version, data) ==
  /\ id \in DOMAIN server
  /\ version <= server[id].version
  /\ version = server[id].version => data = server[id].data

\* Of a link or of a record that was read.
WasTrue(kept) == kept # Absent => Reached(kept.id, kept.version, kept.data)

\* The payload of this version is the one the entry is about.
SnapshotTrue(e) ==
  /\ e.version <= lastVersion
  /\ local # Absent /\ local.version = e.version => local.data = e.data

EntryTrue(e) ==
  e \in Entries /\ WasTrue(e.link) /\ WasTrue(e.record) /\ SnapshotTrue(e)

\* The comparison is that of the record with the payload. A record other than
\* the linked one is a copy of the payload.
IsCompared(e) ==
  /\ e.status = Status(e, e.record)
  /\ e.link # Absent /\ e.record # Absent =>
       e.record.id = e.link.id \/ e.record.data = e.data

\* What is to be confirmed stands for the payload, unless the user rejected it.
Accepts(why, e, link) ==
  \/ why = "reject"
  \/ e.data = link.data
  \/ e.link # Absent /\ e.data = e.link.data

TabInv(at, e, why, link) ==
  /\ IF at = "idle" THEN e = Absent ELSE EntryTrue(e)
  /\ IF at = "confirm"
     THEN link \in Links /\ WasTrue(link) /\ Accepts(why, e, link)
     ELSE link = Absent
  /\ at = "compareCopy" /\ e.record # Absent => e.link = Absent
  /\ at \in {"planned", "shown", "readBack"} => IsCompared(e)

Purposes == {"plan", "retry", "refresh", "publish", "reject"}

LocalInv ==
  /\ local \in Payloads \cup {Absent} /\ lastVersion \in 1 .. MaxLocal
  /\ local # Absent => local.version <= lastVersion

ServerInv ==
  /\ DOMAIN server \subseteq Ids
  /\ \A id \in DOMAIN server :
       server[id] \in [version : 1 .. MaxServer, data : Data, live : BOOLEAN,
                      owner : Accounts]

MetaInv ==
  /\ meta \in [Users -> Links \cup {Absent}] \cup {Absent}
  /\ meta # Absent => \A u \in Users : WasTrue(meta[u])

TabsInv ==
  /\ phase \in [Tabs -> Phases]
  /\ entry \in [Tabs -> Entries \cup {Absent}]
  /\ accepted \in [Tabs -> Links \cup {Absent}]
  /\ purpose \in [Tabs -> Purposes]
  /\ \A t \in Tabs : TabInv(phase[t], entry[t], purpose[t], accepted[t])

SyncInv == LocalInv /\ ServerInv /\ MetaInv /\ TabsInv

\* The invariant says what the type says, and that the links are true.
LEMMA SyncInvTyped ==
  ASSUME SyncInv
  PROVE  TypeOK
<1> SUFFICES ASSUME NEW t \in Tabs
             PROVE  /\ (phase[t] = "idle") <=> (entry[t] = Absent)
                    /\ (phase[t] = "confirm") <=> (accepted[t] # Absent)
  BY DEF SyncInv, LocalInv, ServerInv, MetaInv, TabsInv, TypeOK, Purposes
<1> QED
  BY AbsentAssumption DEF SyncInv, TabsInv, TabInv, EntryTrue

LEMMA SyncInvLinks ==
  ASSUME SyncInv
  PROVE  LinksAreTrue
<1> SUFFICES ASSUME NEW link \in KnownLinks
             PROVE  WasTrue(link) /\ link # Absent
  BY DEF LinksAreTrue, WasTrue, Reached
<1>1. CASE \E t \in Tabs : link = accepted[t] /\ link # Absent
  BY <1>1 DEF SyncInv, TabsInv, TabInv
<1>2. CASE meta # Absent /\ \E u \in Users : link = meta[u] /\ link # Absent
  BY <1>2 DEF SyncInv, MetaInv
<1> QED
  BY <1>1, <1>2 DEF KnownLinks

-----------------------------------------------------------------------------
(* What the steps do to the server and to the payload.                     *)

\* No record goes back, nor is its content changed at one version.
ServerGrows == \A id \in DOMAIN server :
  /\ id \in DOMAIN server'
  /\ \/ server'[id].version > server[id].version
     \/ server'[id].version = server[id].version /\ server'[id].data = server[id].data

\* A payload of an earlier version is the one of that version still.
LocalGrows ==
  /\ lastVersion' >= lastVersion
  /\ local' # Absent => local' = local \/ local'.version > lastVersion

LEMMA ReadTrue ==
  ASSUME ServerInv, NEW id \in Ids
  PROVE  /\ Read(id) = Absent => id \notin DOMAIN server \/ ~server[id].live
         /\ Read(id) # Absent =>
              /\ id \in DOMAIN server /\ server[id].live
              /\ Read(id) \in Records /\ WasTrue(Read(id))
              /\ Read(id).id = id /\ Read(id).version = server[id].version
              /\ Read(id).data = server[id].data
              /\ Read(id).owner = server[id].owner
<1>1. CASE id \in DOMAIN server /\ server[id].live
  <2> DEFINE r == [id |-> id, version |-> server[id].version,
                   data |-> server[id].data, owner |-> server[id].owner]
  <2>1. Read(id) = r
    BY <1>1 DEF Read
  <2>2. /\ r \in Records
        /\ r.id = id /\ r.version = server[id].version
        /\ r.data = server[id].data /\ r.owner = server[id].owner
    BY <1>1 DEF ServerInv, Records
  <2>3. server[id].version \in Nat
    BY <1>1 DEF ServerInv
  <2> HIDE DEF r
  <2> QED
    BY <1>1, <2>1, <2>2, <2>3, AbsentAssumption DEF WasTrue, Reached
<1>2. CASE ~(id \in DOMAIN server /\ server[id].live)
  BY <1>2 DEF Read
<1> QED
  BY <1>1, <1>2

LEMMA NextVersionType ==
  ASSUME ServerInv, NEW id \in Ids
  PROVE  /\ NextVersion(id) \in Nat \ {0}
         /\ id \in DOMAIN server =>
              server[id].version \in Nat /\ NextVersion(id) = server[id].version + 1
  BY DEF ServerInv, NextVersion

LEMMA ServerWritten ==
  ASSUME SyncBounds, ServerInv, NEW id \in Ids, NEW version,
         version = NextVersion(id), version <= MaxServer,
         NEW d \in Data, NEW u \in Accounts,
         server' = WithRecord(id, version, d, u)
  PROVE  /\ ServerInv' /\ ServerGrows
         /\ Reached(id, version, d)' /\ version \in 1 .. MaxServer
         /\ \A i \in DOMAIN server : i # id => server'[i] = server[i]
<1> DEFINE new == [version |-> version, data |-> d, live |-> TRUE, owner |-> u]
<1>1. version \in 1 .. MaxServer
  BY NextVersionType DEF SyncBounds
<1>2. /\ new \in [version : 1 .. MaxServer, data : Data, live : BOOLEAN,
                  owner : Accounts]
      /\ new.version = version /\ new.data = d
  BY <1>1
<1>3. /\ DOMAIN server' = DOMAIN server \cup {id}
      /\ server'[id] = new
      /\ \A i \in DOMAIN server : i # id => server'[i] = server[i]
  BY DEF WithRecord
<1>4. id \in DOMAIN server => server[id].version < version
  BY NextVersionType
<1> HIDE DEF new
<1>5. ServerInv'
  BY <1>2, <1>3 DEF ServerInv
<1>6. ServerGrows
  BY <1>2, <1>3, <1>4 DEF ServerGrows
<1>7. Reached(id, version, d)'
  BY <1>1, <1>2, <1>3 DEF Reached
<1> QED
  BY <1>1, <1>3, <1>5, <1>6, <1>7

LEMMA ServerKept ==
  ASSUME ServerInv, UNCHANGED server
  PROVE  ServerInv' /\ ServerGrows
  BY DEF ServerInv, ServerGrows

LEMMA LocalKept ==
  ASSUME LocalInv, UNCHANGED <<local, lastVersion>>
  PROVE  LocalInv' /\ LocalGrows
  BY DEF LocalInv, LocalGrows

\* What was true stays true.
LEMMA StaysTrue ==
  ASSUME ServerInv, ServerInv', ServerGrows,
         NEW kept, kept # Absent => kept.version \in Nat,
         WasTrue(kept)
  PROVE  WasTrue(kept)'
<1> SUFFICES ASSUME kept # Absent
             PROVE  Reached(kept.id, kept.version, kept.data)'
  BY DEF WasTrue
<1> DEFINE id == kept.id
           version == kept.version
<1>1. /\ id \in DOMAIN server /\ version \in Nat
      /\ version <= server[id].version
      /\ version = server[id].version => kept.data = server[id].data
  BY DEF WasTrue, Reached
<1>2. /\ server[id].version \in Nat /\ server'[id].version \in Nat
      /\ id \in DOMAIN server'
      /\ \/ server'[id].version > server[id].version
         \/ server'[id].version = server[id].version
            /\ server'[id].data = server[id].data
  BY <1>1 DEF ServerInv, ServerGrows
<1> HIDE DEF id, version
<1>3. /\ version <= server'[id].version
      /\ version = server'[id].version => kept.data = server'[id].data
  BY <1>1, <1>2
<1> QED
  BY <1>2, <1>3 DEF Reached, id, version

LEMMA SnapshotStaysTrue ==
  ASSUME LocalInv, LocalInv', LocalGrows, NEW e \in Entries, SnapshotTrue(e)
  PROVE  SnapshotTrue(e)'
<1> DEFINE v == e.version
<1>1. v \in Nat /\ lastVersion \in Nat /\ lastVersion' \in Nat
      /\ (local' # Absent => local'.version \in Nat)
  BY DEF Entries, LocalInv, Payloads
<1> HIDE DEF v
<1>2. /\ v <= lastVersion /\ lastVersion <= lastVersion'
      /\ local # Absent /\ local.version = v => local.data = e.data
      /\ local' # Absent => local' = local \/ local'.version > lastVersion
  BY <1>1 DEF SnapshotTrue, LocalGrows, v
<1>3. /\ v <= lastVersion'
      /\ local' # Absent /\ local'.version = v => local'.data = e.data
  BY <1>1, <1>2
<1> QED
  BY <1>3 DEF SnapshotTrue, v

LEMMA TabStays ==
  ASSUME LocalInv, LocalInv', LocalGrows, ServerInv, ServerInv', ServerGrows,
         NEW at, NEW e \in Entries \cup {Absent}, NEW why,
         NEW link \in Links \cup {Absent}, TabInv(at, e, why, link)
  PROVE  TabInv(at, e, why, link)'
<1>1. EntryTrue(e) => EntryTrue(e)'
  <2> SUFFICES ASSUME EntryTrue(e)
               PROVE  EntryTrue(e)'
    OBVIOUS
  <2>1. SnapshotTrue(e)'
    BY SnapshotStaysTrue DEF EntryTrue
  <2>2. /\ e.link # Absent => e.link.version \in Nat
        /\ e.record # Absent => e.record.version \in Nat
    BY DEF EntryTrue, Entries, Links, Records
  <2>3. WasTrue(e.link)' /\ WasTrue(e.record)'
    BY <2>2, StaysTrue DEF EntryTrue
  <2> QED
    BY <2>1, <2>3 DEF EntryTrue
<1>2. WasTrue(link) => WasTrue(link)'
  <2>1. link # Absent => link.version \in Nat
    BY DEF Links
  <2> QED
    BY <2>1, StaysTrue
<1> QED
  BY <1>1, <1>2 DEF TabInv

LEMMA MetaStays ==
  ASSUME ServerInv, ServerInv', ServerGrows, MetaInv, UNCHANGED meta
  PROVE  MetaInv'
<1> SUFFICES ASSUME meta # Absent, NEW u \in Users
             PROVE  WasTrue(meta[u])'
  BY DEF MetaInv
<1>1. PICK link \in Links \cup {Absent} : link = meta[u] /\ WasTrue(link)
  BY DEF MetaInv
<1>2. link # Absent => link.version \in Nat
  BY DEF Links
<1>3. WasTrue(link)'
  BY <1>1, <1>2, StaysTrue
<1> QED
  BY <1>1, <1>3

-----------------------------------------------------------------------------
(* The ways a step moves one tab.                                          *)

\* What a step leaves of the plan and of the server.
World ==
  /\ LocalInv' /\ LocalGrows
  /\ ServerInv' /\ ServerGrows
  /\ MetaInv'

LEMMA WorldKept ==
  ASSUME SyncInv, UNCHANGED <<local, lastVersion, meta, server>>
  PROVE  World
  BY LocalKept, ServerKept, MetaStays DEF SyncInv, World

LEMMA WorldWritten ==
  ASSUME SyncInv, ServerInv', ServerGrows, UNCHANGED <<local, lastVersion, meta>>
  PROVE  World
  BY LocalKept, MetaStays DEF SyncInv, World

LEMMA TabsStay ==
  ASSUME SyncInv, World, UNCHANGED <<phase, entry, purpose, accepted>>
  PROVE  SyncInv'
<1> SUFFICES ASSUME NEW t \in Tabs
             PROVE  TabInv(phase[t], entry[t], purpose[t], accepted[t])'
  BY DEF SyncInv, World, TabsInv
<1>1. PICK at \in Phases, e \in Entries \cup {Absent}, why \in Purposes,
           link \in Links \cup {Absent} :
        at = phase[t] /\ e = entry[t] /\ why = purpose[t] /\ link = accepted[t]
  BY DEF SyncInv, TabsInv
<1>2. TabInv(at, e, why, link)'
  BY <1>1, TabStays DEF SyncInv, World, TabsInv
<1> QED
  BY <1>1, <1>2

TabGoes(t, at, e, why, link) ==
  /\ phase' = [phase EXCEPT ![t] = at]
  /\ entry' = [entry EXCEPT ![t] = e]
  /\ purpose' = [purpose EXCEPT ![t] = why]
  /\ accepted' = [accepted EXCEPT ![t] = link]

LEMMA TabMoves ==
  ASSUME SyncInv, World, NEW t \in Tabs, NEW at \in Phases,
         NEW e \in Entries \cup {Absent}, NEW why \in Purposes,
         NEW link \in Links \cup {Absent},
         TabGoes(t, at, e, why, link), TabInv(at, e, why, link)'
  PROVE  SyncInv'
<1>1. /\ phase' \in [Tabs -> Phases]
      /\ entry' \in [Tabs -> Entries \cup {Absent}]
      /\ accepted' \in [Tabs -> Links \cup {Absent}]
      /\ purpose' \in [Tabs -> Purposes]
  BY DEF SyncInv, TabsInv, TabGoes
<1>2. ASSUME NEW u \in Tabs
      PROVE  TabInv(phase[u], entry[u], purpose[u], accepted[u])'
  <2>1. CASE u = t
    <3>1. phase'[u] = at /\ entry'[u] = e /\ purpose'[u] = why /\ accepted'[u] = link
      BY <2>1 DEF SyncInv, TabsInv, TabGoes
    <3> QED
      BY <3>1
  <2>2. CASE u # t
    <3>1. PICK at1 \in Phases, e1 \in Entries \cup {Absent}, why1 \in Purposes,
               link1 \in Links \cup {Absent} :
            at1 = phase[u] /\ e1 = entry[u] /\ why1 = purpose[u] /\ link1 = accepted[u]
      BY DEF SyncInv, TabsInv
    <3>2. TabInv(at1, e1, why1, link1)'
      BY <3>1, TabStays DEF SyncInv, World, TabsInv
    <3>3. /\ phase'[u] = at1 /\ entry'[u] = e1
          /\ purpose'[u] = why1 /\ accepted'[u] = link1
      BY <2>2, <3>1 DEF SyncInv, TabsInv, TabGoes
    <3> QED
      BY <3>2, <3>3
  <2> QED
    BY <2>1, <2>2
<1> QED
  BY <1>1, <1>2 DEF SyncInv, World, TabsInv

LEMMA FinishMoves ==
  ASSUME SyncInv, World, NEW t \in Tabs, Finish(t)
  PROVE  SyncInv'
<1>1. TabGoes(t, "idle", Absent, "plan", Absent)
  BY DEF Finish, Goto, TabGoes
<1>2. TabInv("idle", Absent, "plan", Absent)'
  BY DEF TabInv
<1>3. "idle" \in Phases /\ "plan" \in Purposes
  BY DEF Phases, Purposes
<1> QED
  BY <1>1, <1>2, <1>3, TabMoves

\* A tab at work has a true entry, which stays true.
LEMMA EntryStays ==
  ASSUME SyncInv, World, NEW t \in Tabs, phase[t] # "idle",
         NEW e, e = entry[t]
  PROVE  e \in Entries /\ EntryTrue(e) /\ EntryTrue(e)'
<1>1. EntryTrue(e) /\ e \in Entries \cup {Absent}
  BY DEF SyncInv, TabsInv, TabInv, EntryTrue
<1>2. TabInv("snapshot", e, "plan", Absent)
  BY <1>1 DEF TabInv
<1>3. TabInv("snapshot", e, "plan", Absent)'
  BY <1>1, <1>2, TabStays DEF SyncInv, World
<1> QED
  BY <1>1, <1>3 DEF TabInv, EntryTrue

LEMMA TabHere ==
  ASSUME SyncInv, NEW t \in Tabs
  PROVE  /\ phase[t] \in Phases /\ purpose[t] \in Purposes
         /\ phase[t] # "confirm" => accepted[t] = Absent
         /\ phase = [phase EXCEPT ![t] = phase[t]]
         /\ entry = [entry EXCEPT ![t] = entry[t]]
         /\ purpose = [purpose EXCEPT ![t] = purpose[t]]
         /\ accepted = [accepted EXCEPT ![t] = accepted[t]]
  BY DEF SyncInv, TabsInv, TabInv

\* Only where the tab is changes, and perhaps why.
LEMMA GotoMoves ==
  ASSUME SyncInv, World, NEW t \in Tabs, phase[t] \notin {"idle", "confirm"},
         NEW at \in Phases \ {"idle", "confirm", "compareCopy"}, Goto(t, at),
         NEW why \in Purposes, purpose' = [purpose EXCEPT ![t] = why],
         at \in {"planned", "shown", "readBack"} => IsCompared(entry[t]),
         UNCHANGED <<entry, accepted>>
  PROVE  SyncInv'
<1>1. PICK e \in Entries : e = entry[t] /\ EntryTrue(e)'
  BY EntryStays
<1>2. TabInv(at, e, why, Absent)'
  BY <1>1 DEF TabInv, Phases, IsCompared
<1>3. TabGoes(t, at, e, why, Absent)
  BY <1>1, TabHere DEF Goto, TabGoes
<1> QED
  BY <1>1, <1>2, <1>3, TabMoves

LEMMA CompareAgainMoves ==
  ASSUME SyncInv, World, NEW t \in Tabs, phase[t] \notin {"idle", "confirm"},
         NEW why \in Purposes, CompareAgain(t, why)
  PROVE  SyncInv'
<1>1. "compare" \in Phases \ {"idle", "confirm", "compareCopy"}
  BY DEF Phases
<1> QED
  BY <1>1, GotoMoves DEF CompareAgain

LEMMA AcceptMoves ==
  ASSUME SyncInv, World, NEW t \in Tabs, phase[t] # "idle",
         NEW link \in Links, WasTrue(link)', NEW why \in Purposes,
         Accepts(why, entry[t], link), Accept(t, link, why)
  PROVE  SyncInv'
<1>1. PICK e \in Entries : e = entry[t] /\ EntryTrue(e)'
  BY EntryStays
<1>2. TabInv("confirm", e, why, link)'
  BY <1>1 DEF TabInv, Accepts
<1>3. TabGoes(t, "confirm", e, why, link)
  BY <1>1, TabHere DEF Accept, Goto, TabGoes
<1>4. "confirm" \in Phases
  BY DEF Phases
<1> QED
  BY <1>1, <1>2, <1>3, <1>4, TabMoves

-----------------------------------------------------------------------------
(* The steps of the user, of others and of the comparison.                 *)

LEMMA PayloadTyped ==
  ASSUME NEW v \in 1 .. MaxLocal, NEW d \in Data
  PROVE  /\ [version |-> v, data |-> d] \in Payloads
         /\ [version |-> v, data |-> d].version = v
         /\ [version |-> v, data |-> d].data = d
  BY DEF Payloads

LEMMA UserStep ==
  ASSUME SyncBounds, SyncInv,
         (\E d \in Data : EditPlan(d) \/ ImportPlan(d)) \/ DeletePlan
  PROVE  SyncInv'
<1>1. UNCHANGED <<server, phase, entry, purpose, accepted>>
  BY DEF EditPlan, ImportPlan, DeletePlan
<1>2. LocalInv' /\ LocalGrows
  <2>1. CASE DeletePlan
    BY <2>1 DEF DeletePlan, SyncInv, LocalInv, LocalGrows
  <2>2. ASSUME NEW d \in Data, lastVersion < MaxLocal,
               local' = [version |-> lastVersion + 1, data |-> d],
               lastVersion' = lastVersion + 1
        PROVE  LocalInv' /\ LocalGrows
    <3>1. lastVersion + 1 \in 1 .. MaxLocal /\ lastVersion \in Nat
      BY <2>2 DEF SyncBounds, SyncInv, LocalInv
    <3>2. local' \in Payloads /\ local'.version = lastVersion + 1
      BY <2>2, <3>1, PayloadTyped
    <3> QED
      BY <2>2, <3>1, <3>2 DEF LocalInv, LocalGrows
  <2> QED
    BY <2>1, <2>2 DEF EditPlan, ImportPlan
<1>3. ServerInv' /\ ServerGrows
  BY <1>1, ServerKept DEF SyncInv
<1>4. MetaInv'
  <2>1. meta' \in {meta, Absent, [u \in Users |-> Absent]}
    BY DEF EditPlan, ImportPlan, DeletePlan
  <2>2. CASE meta' = meta
    BY <1>3, <2>2, MetaStays DEF SyncInv
  <2>3. CASE meta' \in {Absent, [u \in Users |-> Absent]}
    BY <2>3 DEF MetaInv, WasTrue
  <2> QED
    BY <2>1, <2>2, <2>3
<1> QED
  BY <1>1, <1>2, <1>3, <1>4, TabsStay DEF World

LEMMA OthersStep ==
  ASSUME SyncBounds, SyncInv,
         \/ \E u \in Users \cup Others, d \in Data : OtherCreate(u, d)
         \/ \E id \in DOMAIN server, d \in Data : OtherReplace(id, d)
         \/ \E id \in DOMAIN server : OtherDelete(id)
  PROVE  SyncInv'
<1>1. /\ UNCHANGED <<local, lastVersion, meta>>
      /\ UNCHANGED <<phase, entry, purpose, accepted>>
  BY DEF OtherCreate, OtherReplace, OtherDelete
<1>2. ServerInv' /\ ServerGrows
  <2>1. ASSUME NEW u \in Users \cup Others, NEW d \in Data, OtherCreate(u, d)
        PROVE  ServerInv' /\ ServerGrows
    <3>1. PlanId \in Ids /\ u \in Accounts
      BY DEF PlanId, Ids, Accounts
    <3> QED
      BY <2>1, <3>1, ServerWritten DEF OtherCreate, SyncInv
  <2>2. ASSUME NEW id \in DOMAIN server, NEW d \in Data, OtherReplace(id, d)
        PROVE  ServerInv' /\ ServerGrows
    <3>1. id \in Ids /\ server[id].owner \in Accounts
      BY DEF SyncInv, ServerInv
    <3> QED
      BY <2>2, <3>1, ServerWritten DEF OtherReplace, SyncInv
  <2>3. ASSUME NEW id \in DOMAIN server, OtherDelete(id)
        PROVE  ServerInv' /\ ServerGrows
    <3>1. server' = [server EXCEPT ![id] = [server[id] EXCEPT !.live = FALSE]]
      BY <2>3 DEF OtherDelete
    <3> DEFINE R == [version : 1 .. MaxServer, data : Data, live : BOOLEAN,
                     owner : Accounts]
    <3>2. ASSUME NEW r \in R
          PROVE  /\ [r EXCEPT !.live = FALSE] \in R
                 /\ [r EXCEPT !.live = FALSE].version = r.version
                 /\ [r EXCEPT !.live = FALSE].data = r.data
      OBVIOUS
    <3>3. server[id] \in R
      BY DEF SyncInv, ServerInv
    <3>4. PICK r \in R : r = [server[id] EXCEPT !.live = FALSE]
                         /\ r.version = server[id].version /\ r.data = server[id].data
      BY <3>2, <3>3
    <3>5. \A i \in DOMAIN server : server[i] \in R
      BY DEF SyncInv, ServerInv
    <3>6. DOMAIN server' = DOMAIN server /\ server'[id] = r
          /\ \A i \in DOMAIN server : i # id => server'[i] = server[i]
      BY <3>1, <3>4
    <3> HIDE DEF R
    <3>7. /\ \A i \in DOMAIN server' : server'[i] \in R
          /\ \A i \in DOMAIN server : server'[i].version = server[i].version
                                      /\ server'[i].data = server[i].data
      BY <3>4, <3>5, <3>6
    <3> QED
      BY <3>6, <3>7 DEF SyncInv, ServerInv, ServerGrows, R
  <2> QED
    BY <2>1, <2>2, <2>3
<1> QED
  BY <1>1, <1>2, WorldWritten, TabsStay

LEMMA AbandonStep ==
  ASSUME SyncInv, NEW t \in Tabs, Abandon(t)
  PROVE  SyncInv'
  BY WorldKept, FinishMoves DEF Abandon

LEMMA TakeSnapshotStep ==
  ASSUME SyncInv, NEW t \in Tabs, NEW u \in Users, TakeSnapshot(t, u)
  PROVE  SyncInv'
<1>1. PICK e : e = [user |-> u, data |-> local.data, version |-> local.version,
                    link |-> Absent, record |-> Absent, status |-> "new"]
  OBVIOUS
<1>2. /\ local \in Payloads /\ local.version <= lastVersion
      /\ local.data \in Data /\ local.version \in 1 .. MaxLocal
      /\ UNCHANGED <<local, lastVersion, meta, server>>
  BY DEF TakeSnapshot, SyncInv, LocalInv, Payloads
<1>3. /\ e \in Entries
      /\ e.version = local.version /\ e.data = local.data
      /\ e.link = Absent /\ e.record = Absent
  BY <1>1, <1>2 DEF Entries, Statuses
<1>4. EntryTrue(e)'
  BY <1>2, <1>3 DEF EntryTrue, WasTrue, SnapshotTrue
<1>5. TabInv("snapshot", e, purpose[t], Absent)'
  <2>1. PICK why : why = purpose[t]
    OBVIOUS
  <2>2. TabInv("snapshot", e, why, Absent)'
    BY <1>4 DEF TabInv
  <2>3. UNCHANGED purpose
    BY DEF TakeSnapshot
  <2> QED
    BY <2>1, <2>2, <2>3
<1>6. TabGoes(t, "snapshot", e, purpose[t], Absent)
  BY <1>1, TabHere DEF TakeSnapshot, Goto, TabGoes
<1>7. "snapshot" \in Phases /\ UNCHANGED purpose
  BY DEF Phases, TakeSnapshot
<1>8. PICK why \in Purposes : why = purpose[t]
  BY TabHere
<1>9. TabInv("snapshot", e, why, Absent)' /\ TabGoes(t, "snapshot", e, why, Absent)
  BY <1>5, <1>6, <1>7, <1>8
<1> QED
  BY <1>2, <1>3, <1>7, <1>9, WorldKept, TabMoves

\* An entry with another link, or with a record and its status.
Linked(e, link) == [e EXCEPT !.link = link]

Recorded(e, record) == [e EXCEPT !.record = record]

ComparedTo(e, record, status) == [e EXCEPT !.record = record, !.status = status]

LEMMA EntryEdited ==
  ASSUME NEW e \in Entries, NEW link \in Links \cup {Absent},
         NEW record \in Records \cup {Absent}, NEW status \in Statuses
  PROVE  /\ LET f == Linked(e, link)
            IN  /\ f \in Entries /\ f.link = link
                /\ f.data = e.data /\ f.version = e.version /\ f.record = e.record
         /\ LET f == Recorded(e, record)
            IN  /\ f \in Entries /\ f.record = record
                /\ f.data = e.data /\ f.version = e.version /\ f.link = e.link
         /\ LET f == ComparedTo(e, record, status)
            IN  /\ f \in Entries /\ f.record = record /\ f.status = status
                /\ f.user = e.user
                /\ f.data = e.data /\ f.version = e.version /\ f.link = e.link
  BY DEF Entries, Linked, Recorded, ComparedTo

LEMMA ReadLinkStep ==
  ASSUME SyncInv, NEW t \in Tabs, ReadLink(t)
  PROVE  SyncInv'
<1>1. World /\ UNCHANGED <<meta, purpose, accepted>> /\ phase[t] = "snapshot"
  BY WorldKept DEF ReadLink
<1>2. PICK e \in Entries, why \in Purposes :
        e = entry[t] /\ why = purpose[t] /\ EntryTrue(e)'
  BY <1>1, EntryStays, TabHere
<1>3. PICK link \in Links \cup {Absent} :
        /\ link = IF meta = Absent THEN Absent ELSE meta[e.user]
        /\ WasTrue(link)'
  <2>1. e.user \in Users
    BY DEF Entries
  <2> QED
    BY <1>1, <2>1 DEF World, MetaInv, WasTrue
<1>4. PICK f \in Entries :
        /\ f = Linked(e, link) /\ f.link = link
        /\ f.data = e.data /\ f.version = e.version /\ f.record = e.record
  <2>1. "new" \in Statuses
    BY DEF Statuses
  <2> QED
    BY <2>1, EntryEdited
<1>5. EntryTrue(f)'
  BY <1>2, <1>3, <1>4 DEF EntryTrue, SnapshotTrue
<1>6. TabInv("linked", f, why, Absent)'
  BY <1>5 DEF TabInv
<1>7. TabGoes(t, "linked", f, why, Absent)
  BY <1>1, <1>2, <1>3, <1>4, TabHere
  DEF ReadLink, Goto, TabGoes, Linked, SyncInv, TabsInv
<1>8. "linked" \in Phases
  BY DEF Phases
<1> QED
  BY <1>1, <1>6, <1>7, <1>8, TabMoves

LEMMA VerifySnapshotStep ==
  ASSUME SyncInv, NEW t \in Tabs, VerifySnapshot(t)
  PROVE  SyncInv'
<1>1. World /\ phase[t] = "linked"
  BY WorldKept DEF VerifySnapshot
<1>2. CASE Finish(t)
  BY <1>1, <1>2, FinishMoves
<1>3. CASE Goto(t, "compare") /\ UNCHANGED <<entry, purpose, accepted>>
  <2>1. "compare" \in Phases \ {"idle", "confirm", "compareCopy"}
    BY DEF Phases
  <2>2. PICK why \in Purposes : purpose' = [purpose EXCEPT ![t] = why]
    BY <1>3, TabHere
  <2>3. UNCHANGED <<entry, accepted>> /\ phase[t] \notin {"idle", "confirm"}
    BY <1>1, <1>3
  <2>4. World /\ Goto(t, "compare")
    BY <1>1, <1>3
  <2>5. "compare" \notin {"planned", "shown", "readBack"}
    OBVIOUS
  <2> QED
    BY <2>1, <2>2, <2>3, <2>4, <2>5, GotoMoves
<1> QED
  BY <1>2, <1>3 DEF VerifySnapshot

\* What each outcome of the comparison says.
LEMMA StatusSays ==
  ASSUME NEW e, NEW record
  PROVE  LET status == Status(e, record)
         IN  /\ status \in Statuses
             /\ status \in {"unchanged", "local-changed", "server-changed"} =>
                  record # Absent
             /\ status = "unchanged" => e.data = record.data
             /\ status \in {"local-changed", "server-changed"} => e.link # Absent
             /\ status = "local-changed" =>
                  e.data # record.data /\ ~ServerChanged(e, record)
             /\ status = "server-changed" => e.data = e.link.data
             /\ status = "server-deleted" => e.link # Absent
<1>1. CASE record = Absent
  BY <1>1 DEF Status, Statuses
<1>2. CASE record # Absent /\ ~MayReplace(e.user, record)
  BY <1>2 DEF Status, Statuses
<1>3. CASE record # Absent /\ MayReplace(e.user, record)
  <2>1. CASE e.data = record.data
    BY <1>3, <2>1 DEF Status, Statuses
  <2>2. CASE e.data # record.data /\ e.link = Absent
    BY <1>3, <2>2 DEF Status, Statuses
  <2>3. CASE e.data # record.data /\ e.link # Absent
    BY <1>3, <2>3 DEF Status, Statuses
  <2> QED
    BY <2>1, <2>2, <2>3
<1> QED
  BY <1>1, <1>2, <1>3

LEMMA LinkToTrue ==
  ASSUME NEW record \in Records, WasTrue(record), record # Absent
  PROVE  /\ LinkTo(record) \in Links /\ WasTrue(LinkTo(record))
         /\ LinkTo(record).id = record.id
         /\ LinkTo(record).version = record.version
         /\ LinkTo(record).data = record.data
<1>1. /\ LinkTo(record) \in Links
      /\ LinkTo(record).id = record.id
      /\ LinkTo(record).version = record.version
      /\ LinkTo(record).data = record.data
  BY DEF LinkTo, Records, Links
<1> QED
  BY <1>1 DEF WasTrue

\* The end of a comparison that only read.
LEMMA ComparedMoves ==
  ASSUME SyncInv, NEW t \in Tabs, phase[t] \in {"compare", "compareCopy"},
         NEW record \in Records \cup {Absent}, WasTrue(record),
         entry[t].link # Absent /\ record # Absent =>
           record.id = entry[t].link.id \/ record.data = entry[t].data,
         Compared(t, record), UNCHANGED <<local, lastVersion, meta, server>>
  PROVE  SyncInv'
<1>1. World
  BY WorldKept
<1>2. PICK e \in Entries, why \in Purposes :
        e = entry[t] /\ why = purpose[t] /\ EntryTrue(e)' /\ EntryTrue(e)
  BY <1>1, EntryStays, TabHere
<1>3. PICK status \in Statuses : status = Status(e, record)
  BY StatusSays
<1>4. PICK f \in Entries :
        /\ f = ComparedTo(e, record, status)
        /\ f.record = record /\ f.status = status /\ f.user = e.user
        /\ f.data = e.data /\ f.version = e.version /\ f.link = e.link
  BY EntryEdited
<1>5. WasTrue(record)'
  BY DEF WasTrue, Reached
<1>6. EntryTrue(f)'
  BY <1>2, <1>4, <1>5 DEF EntryTrue, SnapshotTrue
<1>7. Status(f, record) = status /\ IsCompared(f)
  <2>1. Status(f, record) = Status(e, record)
    BY <1>4 DEF Status, ServerChanged
  <2> QED
    BY <1>2, <1>3, <1>4, <2>1 DEF IsCompared
<1>8. entry' = [entry EXCEPT ![t] = f] /\ purpose' = [purpose EXCEPT ![t] = why]
  <2>1. entry' = [entry EXCEPT ![t] = ComparedTo(entry[t], record, status)]
    BY <1>2, <1>3 DEF Compared, ComparedTo, SyncInv, TabsInv
  <2> QED
    BY <1>2, <1>4, <2>1, TabHere DEF Compared
<1>9. CASE /\ status = "unchanged" /\ Goto(t, "confirm")
           /\ accepted' = [accepted EXCEPT ![t] = LinkTo(record)]
  <2>1. record # Absent /\ e.data = record.data
    BY <1>3, <1>9, StatusSays
  <2>2. PICK link \in Links : link = LinkTo(record) /\ WasTrue(link)
                              /\ link.data = record.data
    BY <2>1, LinkToTrue
  <2>3. WasTrue(link)'
    BY <2>2 DEF WasTrue, Reached
  <2>4. TabInv("confirm", f, why, link)'
    BY <1>4, <1>6, <2>1, <2>2, <2>3 DEF TabInv, Accepts
  <2>5. TabGoes(t, "confirm", f, why, link)
    BY <1>8, <1>9, <2>2 DEF TabGoes, Goto
  <2>6. "confirm" \in Phases
    BY DEF Phases
  <2> QED
    BY <1>1, <2>4, <2>5, <2>6, TabMoves
<1>10. CASE /\ Goto(t, "planned") \/ Goto(t, "shown")
            /\ UNCHANGED accepted
  <2>1. PICK at \in {"planned", "shown"} : Goto(t, at)
    BY <1>10
  <2>2. at \in Phases
    BY DEF Phases
  <2>3. TabInv(at, f, why, Absent)'
    BY <1>6, <1>7 DEF TabInv, IsCompared
  <2>4. TabGoes(t, at, f, why, Absent)
    BY <1>8, <1>10, <2>1, TabHere DEF TabGoes, Goto
  <2> QED
    BY <1>1, <2>2, <2>3, <2>4, TabMoves
<1> QED
  BY <1>2, <1>3, <1>9, <1>10 DEF Compared

LEMMA IdsTyped ==
  ASSUME NEW e \in Entries
  PROVE  /\ TargetId(e) \in Ids
         /\ PlanId \in Ids
         /\ CopyOf(LinkedId(e), e.data, e.user) \in Ids
         /\ ChosenCopy(e) \in Ids
<1>1. e.data \in Data /\ e.user \in Users /\ e.link \in Links \cup {Absent}
  BY DEF Entries
<1>2. PlanId \in Ids
  BY DEF PlanId, Ids
<1>3. e.link # Absent => e.link.id \in Ids
  BY <1>1 DEF Links
<1>4. ASSUME NEW deleted \in Ids \cup {Absent}
      PROVE  CopyOf(deleted, e.data, e.user) \in Ids
  <2> DEFINE last == [data |-> e.data, user |-> e.user, first |-> deleted = Absent]
             before == IF deleted = Absent THEN << >> ELSE deleted
  <2>1. last \in Steps
    BY <1>1 DEF Steps
  <2>2. before \in Seq(Steps)
    BY <1>2 DEF Ids, PlanId
  <2> HIDE DEF last, before
  <2>3. Append(before, last) \in Seq(Steps)
    BY <2>1, <2>2, AppendProperties
  <2> QED
    BY <2>3 DEF CopyOf, Ids, last, before
<1>5. LinkedId(e) \in Ids \cup {Absent}
  BY <1>3 DEF LinkedId
<1> QED
  BY <1>2, <1>3, <1>4, <1>5 DEF TargetId, ChosenCopy

LEMMA ReadRecordStep ==
  ASSUME SyncInv, NEW t \in Tabs, ReadRecord(t)
  PROVE  SyncInv'
<1>1. /\ World /\ phase[t] = "compare"
      /\ UNCHANGED <<local, lastVersion, meta, server>>
  BY WorldKept DEF ReadRecord
<1>2. PICK e \in Entries, why \in Purposes :
        e = entry[t] /\ why = purpose[t] /\ EntryTrue(e)' /\ EntryTrue(e)
  BY <1>1, EntryStays, TabHere
<1>3. PICK record \in Records \cup {Absent} :
        /\ record = Read(TargetId(e)) /\ WasTrue(record)
        /\ record # Absent => record.id = TargetId(e)
  BY IdsTyped, ReadTrue DEF SyncInv, WasTrue
<1>4. CASE e.link # Absent /\ record # Absent
  <2>1. Compared(t, record)
    BY <1>2, <1>3, <1>4 DEF ReadRecord
  <2>2. record.id = e.link.id
    BY <1>3, <1>4 DEF TargetId
  <2> QED
    BY <1>1, <1>2, <1>3, <2>1, <2>2, ComparedMoves
<1>5. CASE ~(e.link # Absent /\ record # Absent)
  <2>1. /\ entry' = [entry EXCEPT ![t] = Recorded(entry[t], record)]
        /\ Goto(t, "compareCopy") /\ UNCHANGED <<purpose, accepted>>
    BY <1>2, <1>3, <1>5 DEF ReadRecord, Recorded, SyncInv, TabsInv
  <2>2. PICK f \in Entries :
          /\ f = Recorded(e, record) /\ f.record = record
          /\ f.data = e.data /\ f.version = e.version /\ f.link = e.link
    <3>1. "new" \in Statuses
      BY DEF Statuses
    <3> QED
      BY <3>1, EntryEdited
  <2>3. WasTrue(record)'
    BY <1>1, <1>3 DEF WasTrue, Reached
  <2>4. EntryTrue(f)'
    BY <1>2, <2>2, <2>3 DEF EntryTrue, SnapshotTrue
  <2>5. TabInv("compareCopy", f, why, Absent)'
    BY <1>5, <2>2, <2>4 DEF TabInv
  <2>6. TabGoes(t, "compareCopy", f, why, Absent)
    BY <1>1, <1>2, <2>1, <2>2, TabHere DEF Goto, TabGoes
  <2>7. "compareCopy" \in Phases
    BY DEF Phases
  <2> QED
    BY <1>1, <2>5, <2>6, <2>7, TabMoves
<1> QED
  BY <1>4, <1>5

LEMMA ReadCopyStep ==
  ASSUME SyncInv, NEW t \in Tabs, ReadCopy(t)
  PROVE  SyncInv'
<1>1. /\ World /\ phase[t] = "compareCopy"
      /\ UNCHANGED <<local, lastVersion, meta, server>>
  BY WorldKept DEF ReadCopy
<1>2. PICK e \in Entries : e = entry[t] /\ EntryTrue(e)
  BY <1>1, EntryStays
<1>3. e.record # Absent => e.link = Absent
  BY <1>1, <1>2 DEF SyncInv, TabsInv, TabInv
<1> DEFINE id == CopyOf(LinkedId(e), e.data, e.user)
<1>4. id \in Ids
  BY IdsTyped
<1> HIDE DEF id
<1>5. PICK copy \in Records \cup {Absent} : copy = Read(id) /\ WasTrue(copy)
  BY <1>4, ReadTrue DEF SyncInv, WasTrue
<1>6. Compared(t, IF IsCopyOf(e, copy) THEN copy ELSE e.record)
  BY <1>2, <1>5 DEF ReadCopy, id
<1>7. CASE IsCopyOf(e, copy)
  <2>1. Compared(t, copy) /\ copy.data = e.data
    BY <1>6, <1>7 DEF IsCopyOf
  <2> QED
    BY <1>1, <1>2, <1>5, <2>1, ComparedMoves
<1>8. CASE ~IsCopyOf(e, copy)
  <2>1. PICK record \in Records \cup {Absent} : record = e.record /\ WasTrue(record)
    BY <1>2 DEF EntryTrue, Entries
  <2>2. Compared(t, record)
    BY <1>6, <1>8, <2>1
  <2> QED
    BY <1>1, <1>2, <1>3, <2>1, <2>2, ComparedMoves
<1> QED
  BY <1>7, <1>8

-----------------------------------------------------------------------------
(* The run, the conflicts and the confirmation.                            *)

LEMMA LinkTyped ==
  ASSUME NEW id \in Ids, NEW version \in 1 .. MaxServer, NEW d \in Data
  PROVE  \E link \in Links :
           /\ link = [id |-> id, version |-> version, data |-> d]
           /\ link.id = id /\ link.version = version /\ link.data = d
<1> DEFINE new == [id |-> id, version |-> version, data |-> d]
<1>1. new \in Links /\ new.id = id /\ new.version = version /\ new.data = d
  BY DEF Links
<1>2. \E link \in Links : link = new
  BY <1>1
<1> QED
  BY <1>1, <1>2

LEMMA StoredMoves ==
  ASSUME SyncBounds, SyncInv, NEW t \in Tabs, phase[t] \notin {"idle", "confirm"},
         NEW id \in Ids, NEW owner \in Accounts,
         Stored(t, id, owner, Finish(t)) \/ Stored(t, id, owner, Unanswered(t)),
         UNCHANGED <<local, lastVersion, meta>>
  PROVE  SyncInv'
<1>1. PICK e \in Entries : e = entry[t]
  <2>1. EntryTrue(entry[t])
    BY DEF SyncInv, TabsInv, TabInv
  <2> QED
    BY <2>1 DEF EntryTrue
<1>2. PICK version : version = NextVersion(id)
  OBVIOUS
<1>3. PICK d \in Data : d = e.data
  BY DEF Entries
<1>4. /\ version <= MaxServer
      /\ server' = WithRecord(id, version, d, owner)
      /\ \/ Accept(t, [id |-> id, version |-> version, data |-> d], "publish")
         \/ Finish(t)
         \/ Unanswered(t)
  BY <1>1, <1>2, <1>3 DEF Stored
<1>5. /\ ServerInv' /\ ServerGrows
      /\ Reached(id, version, d)' /\ version \in 1 .. MaxServer
  BY <1>2, <1>4, ServerWritten DEF SyncInv
<1>6. World
  BY <1>5, WorldWritten
<1>7. CASE Accept(t, [id |-> id, version |-> version, data |-> d], "publish")
  <2>1. PICK link \in Links :
          /\ link = [id |-> id, version |-> version, data |-> d]
          /\ link.id = id /\ link.version = version /\ link.data = d
    BY <1>5, LinkTyped
  <2>2. WasTrue(link)'
    BY <1>5, <2>1 DEF WasTrue
  <2>3. Accepts("publish", entry[t], link)
    BY <1>1, <1>3, <2>1 DEF Accepts
  <2>4. "publish" \in Purposes
    BY DEF Purposes
  <2> QED
    BY <1>6, <1>7, <2>1, <2>2, <2>3, <2>4, AcceptMoves
<1>8. CASE Finish(t)
  BY <1>6, <1>8, FinishMoves
<1>9. CASE Unanswered(t)
  BY <1>6, <1>9, TabsStay DEF Unanswered
<1> QED
  BY <1>4, <1>7, <1>8, <1>9

\* The entry of a comparison that is complete.
LEMMA ComparedEntry ==
  ASSUME SyncInv, NEW t \in Tabs, phase[t] \in {"planned", "shown", "readBack"}
  PROVE  /\ entry[t] \in Entries /\ EntryTrue(entry[t])
         /\ IsCompared(entry[t])
         /\ entry[t].status = Status(entry[t], entry[t].record)
         /\ entry[t].user \in Users /\ entry[t].data \in Data
         /\ entry[t].record # Absent =>
              entry[t].record \in Records /\ entry[t].record.id \in Ids
         /\ entry[t].link # Absent => entry[t].link \in Links
<1>1. EntryTrue(entry[t]) /\ IsCompared(entry[t])
  BY DEF SyncInv, TabsInv, TabInv
<1> QED
  BY <1>1 DEF EntryTrue, IsCompared, Entries, Records

LEMMA ShowConflictStep ==
  ASSUME SyncInv, NEW t \in Tabs, ShowConflict(t)
  PROVE  SyncInv'
<1>1. /\ World /\ phase[t] \notin {"idle", "confirm"} /\ Goto(t, "shown")
      /\ UNCHANGED <<entry, accepted>>
  BY WorldKept DEF ShowConflict
<1>2. IsCompared(entry[t])
  BY ComparedEntry DEF ShowConflict
<1>3. PICK why \in Purposes : purpose' = [purpose EXCEPT ![t] = why]
  BY TabHere DEF ShowConflict
<1>4. "shown" \in Phases \ {"idle", "confirm", "compareCopy"}
  BY DEF Phases
<1> QED
  BY <1>1, <1>2, <1>3, <1>4, GotoMoves

\* A run or a choice that finds another record than was compared.
LEMMA AgainStep ==
  ASSUME SyncInv, NEW t \in Tabs, phase[t] \in {"planned", "shown", "readBack"},
         CompareAgain(t, "retry") \/ CompareAgain(t, "refresh"),
         UNCHANGED <<local, lastVersion, meta, server>>
  PROVE  SyncInv'
<1>1. World /\ phase[t] \notin {"idle", "confirm"}
  BY WorldKept
<1>2. PICK why \in Purposes : CompareAgain(t, why)
  BY DEF Purposes
<1> QED
  BY <1>1, <1>2, CompareAgainMoves

LEMMA PublishNewStep ==
  ASSUME SyncBounds, SyncInv, NEW t \in Tabs, PublishNew(t)
  PROVE  SyncInv'
<1>1. /\ phase[t] = "planned" /\ PlanId \in Ids /\ entry[t].user \in Accounts
      /\ UNCHANGED <<local, lastVersion, meta>>
  BY ComparedEntry DEF PublishNew, PlanId, Ids, Accounts
<1>2. CASE Stored(t, PlanId, entry[t].user, Finish(t))
  <2>1. phase[t] \notin {"idle", "confirm"}
    BY <1>1
  <2> QED
    BY <1>1, <1>2, <2>1, StoredMoves
<1>3. CASE CompareAgain(t, "retry") /\ UNCHANGED server
  BY <1>1, <1>3, AgainStep
<1> QED
  BY <1>2, <1>3 DEF PublishNew

LEMMA MatchesOwner ==
  ASSUME SyncInv, NEW t \in Tabs, phase[t] \in {"planned", "shown"},
         entry[t].record # Absent, Matches(entry[t])
  PROVE  /\ entry[t].record.id \in DOMAIN server
         /\ entry[t].record.id \in Ids
         /\ server[entry[t].record.id].owner \in Accounts
<1>1. entry[t].record.id \in Ids
  BY ComparedEntry
<1>2. entry[t].record.id \in DOMAIN server
  BY <1>1, ReadTrue DEF Matches, SyncInv
<1> QED
  BY <1>1, <1>2 DEF SyncInv, ServerInv

LEMMA PublishChangeStep ==
  ASSUME SyncBounds, SyncInv, NEW t \in Tabs, PublishChange(t)
  PROVE  SyncInv'
<1>1. /\ phase[t] = "planned" /\ entry[t].status = "local-changed"
      /\ UNCHANGED <<local, lastVersion, meta>>
  BY DEF PublishChange
<1>2. entry[t].record # Absent
  BY <1>1, ComparedEntry, StatusSays
<1> DEFINE id == entry[t].record.id
<1>3. CASE Matches(entry[t]) /\ Stored(t, id, server[id].owner, Finish(t))
  <2>1. phase[t] \notin {"idle", "confirm"}
    BY <1>1
  <2>2. id \in Ids /\ server[id].owner \in Accounts
    BY <1>1, <1>2, <1>3, MatchesOwner
  <2> QED
    BY <1>1, <1>3, <2>1, <2>2, StoredMoves
<1>4. CASE CompareAgain(t, "retry") /\ UNCHANGED server
  BY <1>1, <1>4, AgainStep
<1> QED
  BY <1>3, <1>4 DEF PublishChange

LEMMA KeepMineStep ==
  ASSUME SyncBounds, SyncInv, NEW t \in Tabs, KeepMine(t)
  PROVE  SyncInv'
<1>1. /\ phase[t] = "shown" /\ entry[t].record # Absent
      /\ UNCHANGED <<local, lastVersion, meta>>
  BY DEF KeepMine
<1> DEFINE id == entry[t].record.id
<1>2. CASE Matches(entry[t]) /\ Stored(t, id, server[id].owner, Unanswered(t))
  <2>1. phase[t] \notin {"idle", "confirm"}
    BY <1>1
  <2>2. id \in Ids /\ server[id].owner \in Accounts
    BY <1>1, <1>2, MatchesOwner
  <2> QED
    BY <1>1, <1>2, <2>1, <2>2, StoredMoves
<1>3. CASE CompareAgain(t, "refresh") /\ UNCHANGED server
  BY <1>1, <1>3, AgainStep
<1> QED
  BY <1>2, <1>3 DEF KeepMine

\* Accepting what was read, or an earlier link.
LEMMA AcceptTrue ==
  ASSUME SyncInv, NEW t \in Tabs, phase[t] \in {"planned", "shown", "readBack"},
         NEW link \in Links, WasTrue(link), NEW why \in {"publish", "reject"},
         Accepts(why, entry[t], link), Accept(t, link, why),
         UNCHANGED <<local, lastVersion, meta, server>>
  PROVE  SyncInv'
<1>1. World /\ phase[t] # "idle" /\ why \in Purposes
  BY WorldKept DEF Purposes
<1>2. WasTrue(link)'
  BY DEF WasTrue, Reached
<1> QED
  BY <1>1, <1>2, AcceptMoves

LEMMA AdoptServerStep ==
  ASSUME SyncInv, NEW t \in Tabs, AdoptServer(t)
  PROVE  SyncInv'
<1>1. /\ phase[t] = "planned" /\ entry[t].status \in {"unchanged", "server-changed"}
      /\ UNCHANGED <<local, lastVersion, meta, server>>
  BY DEF AdoptServer
<1>2. PICK record \in Records : record = entry[t].record /\ WasTrue(record)
                                /\ record # Absent
  <2>1. entry[t].record # Absent
    BY <1>1, ComparedEntry, StatusSays
  <2> QED
    BY <1>1, <2>1, ComparedEntry DEF EntryTrue
<1>3. PICK link \in Links : link = LinkTo(record) /\ WasTrue(link)
                            /\ link.data = record.data
  BY <1>2, LinkToTrue
<1>4. Accepts("publish", entry[t], link)
  BY <1>1, <1>2, <1>3, ComparedEntry, StatusSays DEF Accepts
<1>5. CASE Accept(t, LinkTo(record), "publish")
  BY <1>1, <1>3, <1>4, <1>5, AcceptTrue
<1>6. CASE CompareAgain(t, "refresh")
  BY <1>1, <1>6, AgainStep
<1> QED
  BY <1>2, <1>5, <1>6 DEF AdoptServer

LEMMA KeepServerStep ==
  ASSUME SyncInv, NEW t \in Tabs, KeepServer(t)
  PROVE  SyncInv'
<1>1. /\ phase[t] = "shown"
      /\ UNCHANGED <<local, lastVersion, meta, server>>
  BY DEF KeepServer
<1>2. PICK e \in Entries : e = entry[t] /\ EntryTrue(e)
  BY <1>1, ComparedEntry
<1>3. PICK record \in Records \cup {Absent} :
        record = Read(TargetId(e)) /\ WasTrue(record)
  BY IdsTyped, ReadTrue DEF SyncInv, WasTrue
<1>4. \/ Accept(t, e.link, "reject") /\ e.status = "server-deleted"
      \/ Accept(t, LinkTo(record), "reject") /\ record # Absent
      \/ CompareAgain(t, "refresh")
  BY <1>2, <1>3 DEF KeepServer
<1>5. CASE Accept(t, e.link, "reject") /\ e.status = "server-deleted"
  <2>1. e.link # Absent
    BY <1>1, <1>2, <1>5, ComparedEntry, StatusSays
  <2>2. PICK link \in Links : link = e.link /\ WasTrue(link)
    BY <1>1, <1>2, <2>1, ComparedEntry DEF EntryTrue
  <2>3. Accepts("reject", entry[t], link)
    BY DEF Accepts
  <2> QED
    BY <1>1, <1>5, <2>2, <2>3, AcceptTrue
<1>6. CASE Accept(t, LinkTo(record), "reject") /\ record # Absent
  <2>1. PICK link \in Links : link = LinkTo(record) /\ WasTrue(link)
    BY <1>3, <1>6, LinkToTrue
  <2>2. Accepts("reject", entry[t], link)
    BY DEF Accepts
  <2> QED
    BY <1>1, <1>6, <2>1, <2>2, AcceptTrue
<1>7. CASE CompareAgain(t, "refresh")
  BY <1>1, <1>7, AgainStep
<1> QED
  BY <1>4, <1>5, <1>6, <1>7

LEMMA SaveCopyStep ==
  ASSUME SyncBounds, SyncInv, NEW t \in Tabs, SaveCopy(t)
  PROVE  SyncInv'
<1>1. phase[t] = "shown" /\ UNCHANGED <<local, lastVersion, meta>>
  BY DEF SaveCopy
<1>2. PICK e \in Entries : e = entry[t] /\ IsCompared(entry[t])
                           /\ e.data \in Data /\ e.user \in Accounts
  BY <1>1, ComparedEntry DEF Accounts
<1>3. PICK id \in Ids : id = ChosenCopy(e)
  BY IdsTyped
<1>4. ServerInv' /\ ServerGrows
  <2>1. CASE UNCHANGED server
    BY <2>1, ServerKept DEF SyncInv
  <2>2. CASE NextVersion(id) <= MaxServer
             /\ server' = WithRecord(id, NextVersion(id), e.data, e.user)
    BY <1>2, <2>2, ServerWritten DEF SyncInv
  <2> QED
    BY <1>2, <1>3, <2>1, <2>2 DEF SaveCopy
<1>5. World /\ phase[t] \notin {"idle", "confirm"}
  BY <1>1, <1>4, WorldWritten
<1>6. CASE Goto(t, "readBack") /\ UNCHANGED <<entry, purpose, accepted>>
  <2>1. "readBack" \in Phases \ {"idle", "confirm", "compareCopy"}
    BY DEF Phases
  <2>2. PICK why \in Purposes : purpose' = [purpose EXCEPT ![t] = why]
    BY <1>6, TabHere
  <2> QED
    BY <1>2, <1>5, <1>6, <2>1, <2>2, GotoMoves
<1>7. CASE Unanswered(t)
  BY <1>5, <1>7, TabsStay DEF Unanswered
<1> QED
  BY <1>6, <1>7 DEF SaveCopy

LEMMA ReadBackStep ==
  ASSUME SyncInv, NEW t \in Tabs, ReadBack(t)
  PROVE  SyncInv'
<1>1. /\ phase[t] = "readBack"
      /\ UNCHANGED <<local, lastVersion, meta, server>>
  BY DEF ReadBack
<1>2. PICK e \in Entries : e = entry[t]
  BY <1>1, ComparedEntry
<1>3. PICK id \in Ids : id = ChosenCopy(e)
  BY IdsTyped
<1>4. PICK copy \in Records \cup {Absent} : copy = Read(id) /\ WasTrue(copy)
  BY ReadTrue DEF SyncInv, WasTrue
<1>5. CASE IsCopyOf(e, copy) /\ Accept(t, LinkTo(copy), "publish")
  <2>1. copy # Absent /\ copy.data = e.data
    BY <1>5 DEF IsCopyOf
  <2>2. PICK link \in Links : link = LinkTo(copy) /\ WasTrue(link)
                              /\ link.data = copy.data
    BY <1>4, <2>1, LinkToTrue
  <2>3. Accepts("publish", entry[t], link)
    BY <1>2, <2>1, <2>2 DEF Accepts
  <2> QED
    BY <1>1, <1>5, <2>2, <2>3, AcceptTrue
<1>6. CASE CompareAgain(t, "refresh")
  BY <1>1, <1>6, AgainStep
<1> QED
  BY <1>2, <1>3, <1>4, <1>5, <1>6 DEF ReadBack

LEMMA ConfirmStep ==
  ASSUME SyncInv, NEW t \in Tabs, Confirm(t)
  PROVE  SyncInv'
<1>1. phase[t] = "confirm" /\ UNCHANGED <<lastVersion, server>>
  BY DEF Confirm
<1>2. /\ entry[t].user \in Users
      /\ accepted[t] \in Links /\ WasTrue(accepted[t])
  BY <1>1 DEF SyncInv, TabsInv, TabInv, EntryTrue, Entries
<1>3. ServerInv' /\ ServerGrows
  BY <1>1, ServerKept DEF SyncInv
<1>4. LocalInv' /\ LocalGrows
  <2>1. local' \in {local, Absent}
    BY DEF Confirm
  <2> QED
    BY <1>1, <2>1 DEF SyncInv, LocalInv, LocalGrows
<1>5. MetaInv'
  <2>1. CASE UNCHANGED meta
    BY <1>3, <2>1, MetaStays DEF SyncInv
  <2>2. CASE meta # Absent /\ meta' = [meta EXCEPT ![entry[t].user] = accepted[t]]
    <3>1. PICK u \in Users, link \in Links :
            u = entry[t].user /\ link = accepted[t] /\ WasTrue(link)
      BY <1>2
    <3>2. meta' = [meta EXCEPT ![u] = link] /\ meta \in [Users -> Links \cup {Absent}]
      BY <2>2, <3>1 DEF SyncInv, MetaInv
    <3>3. ASSUME NEW w \in Users
          PROVE  WasTrue(meta[w])'
      <4>1. PICK kept : kept = meta'[w] /\ WasTrue(kept)
        BY <2>2, <3>1, <3>2 DEF SyncInv, MetaInv
      <4>2. WasTrue(kept)'
        BY <1>1, <4>1 DEF WasTrue, Reached
      <4> QED
        BY <4>1, <4>2
    <3> QED
      BY <3>2, <3>3 DEF MetaInv
  <2> QED
    BY <2>1, <2>2 DEF Confirm
<1> QED
  BY <1>3, <1>4, <1>5, FinishMoves DEF World, Confirm

LEMMA SyncStart ==
  ASSUME SyncBounds, Init
  PROVE  SyncInv
<1>1. PICK d \in Data : local = [version |-> 1, data |-> d]
  BY DEF Init
<1>2. LocalInv
  BY <1>1, PayloadTyped DEF SyncBounds, Init, LocalInv
<1>3. ServerInv /\ MetaInv
  BY DEF Init, ServerInv, MetaInv, WasTrue
<1>4. TabsInv
  BY DEF Init, TabsInv, TabInv, Phases, Purposes
<1> QED
  BY <1>2, <1>3, <1>4 DEF SyncInv

\* The inductive step.
LEMMA SyncNext ==
  ASSUME SyncBounds, SyncInv, Next
  PROVE  SyncInv'
<1>1. CASE (\E d \in Data : EditPlan(d) \/ ImportPlan(d)) \/ DeletePlan
  BY <1>1, UserStep
<1>2. CASE \/ \E u \in Users \cup Others, d \in Data : OtherCreate(u, d)
           \/ \E id \in DOMAIN server, d \in Data : OtherReplace(id, d)
           \/ \E id \in DOMAIN server : OtherDelete(id)
  BY <1>2, OthersStep
<1>3. CASE \E t \in Tabs, u \in Users : TakeSnapshot(t, u)
  BY <1>3, TakeSnapshotStep
<1>4. CASE \E t \in Tabs :
             \/ ReadLink(t) \/ VerifySnapshot(t) \/ ReadRecord(t) \/ ReadCopy(t)
             \/ ShowConflict(t) \/ PublishNew(t) \/ PublishChange(t)
             \/ AdoptServer(t)
             \/ KeepServer(t) \/ KeepMine(t) \/ SaveCopy(t) \/ ReadBack(t)
             \/ Confirm(t) \/ Abandon(t)
  BY <1>4, ReadLinkStep, VerifySnapshotStep, ReadRecordStep, ReadCopyStep,
     ShowConflictStep, PublishNewStep, PublishChangeStep, AdoptServerStep,
     KeepServerStep, KeepMineStep, SaveCopyStep, ReadBackStep, ConfirmStep,
     AbandonStep
<1> QED
  BY <1>1, <1>2, <1>3, <1>4 DEF Next

LEMMA SyncKept ==
  ASSUME SyncInv, UNCHANGED vars
  PROVE  SyncInv'
<1>1. World
  BY WorldKept DEF vars
<1> QED
  BY <1>1, TabsStay DEF vars

-----------------------------------------------------------------------------
(* What a run replaces, and what is removed.                               *)

OverwritesAccepted == \A t \in Tabs : RunWrites(t) =>
  \A id \in DOMAIN server :
    (server[id].live /\ server'[id] # server[id])
      => /\ entry[t].link # Absent
         /\ entry[t].link = LinkTo(Read(id))

LEMMA RunOverwritesAccepted ==
  ASSUME SyncBounds, SyncInv, Next
  PROVE  OverwritesAccepted
<1> SUFFICES ASSUME NEW t \in Tabs, RunWrites(t), NEW id \in DOMAIN server,
                    server[id].live, server'[id] # server[id]
             PROVE  entry[t].link # Absent /\ entry[t].link = LinkTo(Read(id))
  BY DEF OverwritesAccepted
<1>1. phase[t] = "planned" /\ phase'[t] # "planned" /\ server' # server
  BY DEF RunWrites
<1>2. PublishNew(t) \/ PublishChange(t)
  <2>1. ~UNCHANGED phase
    BY <1>1
  <2>2. ASSUME NEW u \in Tabs, NEW at, phase' = [phase EXCEPT ![u] = at]
        PROVE  u = t
    BY <1>1, <2>2 DEF SyncInv, TabsInv
  <2>3. ~(\E d \in Data : EditPlan(d) \/ ImportPlan(d)) /\ ~DeletePlan
    BY <2>1 DEF EditPlan, ImportPlan, DeletePlan
  <2>4. /\ ~(\E u \in Users \cup Others, d \in Data : OtherCreate(u, d))
        /\ ~(\E i \in DOMAIN server, d \in Data : OtherReplace(i, d))
        /\ ~(\E i \in DOMAIN server : OtherDelete(i))
    BY <2>1 DEF OtherCreate, OtherReplace, OtherDelete
  <2>5. ~(\E u \in Tabs, w \in Users : TakeSnapshot(u, w))
    BY <1>1 DEF TakeSnapshot
  <2>6. \A u \in Tabs :
          /\ ~ReadLink(u) /\ ~VerifySnapshot(u) /\ ~ReadRecord(u) /\ ~ReadCopy(u)
          /\ ~ShowConflict(u) /\ ~AdoptServer(u) /\ ~KeepServer(u)
          /\ ~ReadBack(u) /\ ~Confirm(u) /\ ~Abandon(u)
    BY <1>1 DEF ReadLink, VerifySnapshot, ReadRecord, ReadCopy, ShowConflict,
                AdoptServer, KeepServer, ReadBack, Confirm, Abandon
  <2>7. PICK u \in Tabs :
          PublishNew(u) \/ PublishChange(u) \/ KeepMine(u) \/ SaveCopy(u)
    BY <2>3, <2>4, <2>5, <2>6 DEF Next
  <2>8. \/ UNCHANGED phase
        \/ \E at : phase' = [phase EXCEPT ![u] = at]
    BY <2>7 DEF PublishNew, PublishChange, KeepMine, SaveCopy, Stored, Accept,
                Finish, Unanswered, CompareAgain, Goto
  <2>9. u = t
    BY <2>1, <2>2, <2>8
  <2> QED
    BY <1>1, <2>7, <2>9 DEF KeepMine, SaveCopy
<1>3. id \in Ids
  BY DEF SyncInv, ServerInv
<1>4. CASE PublishNew(t)
  <2>1. PlanId \in Ids
    BY DEF PlanId, Ids
  <2>2. Read(PlanId) = Absent /\ NextVersion(PlanId) <= MaxServer
        /\ server' = WithRecord(PlanId, NextVersion(PlanId), entry[t].data,
                                entry[t].user)
    BY <1>1, <1>4 DEF PublishNew, Stored
  <2>3. id = PlanId
    BY <2>2 DEF WithRecord
  <2> QED
    BY <2>1, <2>2, <2>3, ReadTrue DEF SyncInv
<1>5. CASE PublishChange(t)
  <2> DEFINE e == entry[t]
  <2>1. e.record # Absent /\ e.link # Absent /\ e.data # e.record.data
        /\ ~ServerChanged(e, e.record)
    BY <1>1, <1>5, ComparedEntry, StatusSays DEF PublishChange
  <2>2. /\ e.record \in Records /\ e.link \in Links /\ WasTrue(e.record)
        /\ e.record.id = e.link.id
    BY <1>1, <2>1, ComparedEntry DEF EntryTrue, IsCompared
  <2>3. /\ Matches(e)
        /\ \E version : server' = WithRecord(e.record.id, version, e.data,
                                             server[e.record.id].owner)
    BY <1>1, <1>5 DEF PublishChange, Stored
  <2>4. id = e.record.id
    BY <2>3 DEF WithRecord
  <2>5. /\ Read(id) \in Records /\ Read(id).id = id
        /\ Read(id).version = server[id].version
        /\ Read(id).data = server[id].data
        /\ Read(id).version = e.record.version
    BY <1>3, <2>3, <2>4, ReadTrue DEF Matches, SyncInv
  <2>6. Read(id).data = e.record.data
    BY <2>1, <2>2, <2>4, <2>5 DEF WasTrue, Reached
  <2>7. /\ e.link.id = Read(id).id
        /\ e.link.version = Read(id).version /\ e.link.data = Read(id).data
    BY <2>1, <2>2, <2>4, <2>5, <2>6 DEF ServerChanged
  <2> HIDE DEF e
  <2>8. ASSUME NEW link \in Links, NEW record \in Records,
               link.id = record.id, link.version = record.version,
               link.data = record.data
        PROVE  link = LinkTo(record)
    BY <2>8 DEF Links, LinkTo
  <2>9. e.link = LinkTo(Read(id))
    BY <2>2, <2>5, <2>7, <2>8
  <2> QED
    BY <2>1, <2>9 DEF e
<1> QED
  BY <1>2, <1>4, <1>5

RemovesPublished ==
  (local # Absent /\ local' = Absent /\ meta' # Absent) =>
    \E t \in Tabs :
      /\ phase[t] = "confirm"
      /\ local.data = entry[t].data
      /\ \/ purpose[t] = "reject"
         \/ local.data = accepted[t].data
         \/ entry[t].link # Absent /\ local.data = entry[t].link.data

LEMMA ConfirmRemovesPublished ==
  ASSUME SyncBounds, SyncInv, Next
  PROVE  RemovesPublished
<1> SUFFICES ASSUME local # Absent, local' = Absent, meta' # Absent
             PROVE  \E t \in Tabs :
                      /\ phase[t] = "confirm"
                      /\ local.data = entry[t].data
                      /\ Accepts(purpose[t], entry[t], accepted[t])
  BY DEF RemovesPublished, Accepts
<1>1. ASSUME NEW d \in Data
      PROVE  ~EditPlan(d) /\ ~ImportPlan(d)
  <2>1. EditPlan(d) => lastVersion + 1 \in 1 .. MaxLocal
    BY DEF EditPlan, SyncBounds, SyncInv, LocalInv
  <2>2. EditPlan(d) => local' \in Payloads
    BY <2>1, PayloadTyped DEF EditPlan
  <2> QED
    BY <2>2, AbsentAssumption DEF ImportPlan
<1>2. ~DeletePlan
  BY DEF DeletePlan
<1>3. /\ ~(\E u \in Users \cup Others, d \in Data : OtherCreate(u, d))
      /\ ~(\E i \in DOMAIN server, d \in Data : OtherReplace(i, d))
      /\ ~(\E i \in DOMAIN server : OtherDelete(i))
      /\ ~(\E u \in Tabs, w \in Users : TakeSnapshot(u, w))
  BY DEF OtherCreate, OtherReplace, OtherDelete, TakeSnapshot
<1>4. \A u \in Tabs :
        /\ ~ReadLink(u) /\ ~VerifySnapshot(u) /\ ~ReadRecord(u) /\ ~ReadCopy(u)
        /\ ~ShowConflict(u) /\ ~AdoptServer(u) /\ ~KeepServer(u)
        /\ ~PublishNew(u) /\ ~PublishChange(u) /\ ~KeepMine(u) /\ ~SaveCopy(u)
        /\ ~ReadBack(u) /\ ~Abandon(u)
  BY DEF ReadLink, VerifySnapshot, ReadRecord, ReadCopy, ShowConflict,
         AdoptServer, KeepServer, PublishNew, PublishChange, KeepMine, SaveCopy,
         ReadBack, Abandon
<1>5. PICK t \in Tabs : Confirm(t)
  BY <1>1, <1>2, <1>3, <1>4 DEF Next
<1>6. phase[t] = "confirm" /\ StillThere(entry[t])
  BY <1>5 DEF Confirm
<1>7. EntryTrue(entry[t]) /\ Accepts(purpose[t], entry[t], accepted[t])
  BY <1>6 DEF SyncInv, TabsInv, TabInv
<1>8. local.data = entry[t].data
  BY <1>6, <1>7 DEF StillThere, EntryTrue, SnapshotTrue
<1> QED
  BY <1>6, <1>7, <1>8

-----------------------------------------------------------------------------
(* The import: what is kept of the server's records stays true.            *)

\* What is kept of the server's record of an entry is older than the record, or
\* is the record.
SeenTrue(s, e) ==
  s # Absent =>
    /\ s.version <= rows[Import!Own(e)].version
    /\ (Import!Live(Import!Own(e)) /\ s.version = rows[Import!Own(e)].version)
         => s = rows[Import!Own(e)]

VerdictTrue(v, e) == v \in Import!Verdict /\ SeenTrue(v.server, e)

ComparedTrue(p) ==
  /\ p \in [Import!Entries -> Import!Verdict]
  /\ \A e \in Import!Entries : VerdictTrue(p[e], e)

FoundTrue(c) ==
  /\ c \in [Import!Entries -> Import!Conflict \cup {Absent}]
  /\ \A e \in Import!Entries : c[e] # Absent => SeenTrue(c[e].server, e)

\* What the comparison of the next entry read first.
OwnTrue(own, left) ==
  /\ own \in Import!Seen
  /\ \A e \in Import!Entries : Import!IsNext(e, left) => SeenTrue(own, e)

PlannerTrue(p) ==
  /\ p \in Import!Planner
  /\ OwnTrue(p.own, p.left)
  /\ \A e \in Import!Entries \ p.left : VerdictTrue(p.plan[e], e)

\* Only an admin's run comes to an entry of the catalogue.
RunTrue(r) ==
  /\ r \in Import!Run
  /\ ComparedTrue(r.plan) /\ FoundTrue(r.found) /\ OwnTrue(r.own, r.left)
  /\ \A e \in r.left : e \in catalog => r.user \in ImportAdmins

ChoiceTrue(c) == c \in Import!Choice /\ SeenTrue(c.conflict.server, c.entry)

ImportInv ==
  /\ Import!TypeOK
  /\ plan # Absent => ComparedTrue(plan)
  /\ \A i \in Planners : planners[i] # Absent => PlannerTrue(planners[i])
  /\ \A i \in Runs : runs[i] # Absent => RunTrue(runs[i])
  /\ FoundTrue(conflicts)
  /\ choice # Absent => ChoiceTrue(choice)
  /\ ReportIsTrue

ImportBounds ==
  /\ ImportAdmins \subseteq ImportUsers /\ Absent \notin ImportUsers
  /\ MaxServer \in Nat /\ MaxOthers \in Nat
  /\ \A e \in Import!Entries :
       Import!IndexOf(e) \in Nat /\ Order[Import!IndexOf(e)] = e

LEMMA ImportBoundsHold == ImportBounds
<1>1. ASSUME NEW e \in Import!Entries
      PROVE  Import!IndexOf(e) \in DOMAIN Order /\ Order[Import!IndexOf(e)] = e
  <2>1. \E n \in DOMAIN Order : Order[n] = e
    BY DEF Import!Entries, Import!Range
  <2> QED
    BY <2>1 DEF Import!IndexOf
<1> QED
  BY <1>1, ImportsAssumption DEF ImportBounds, Import!ImportAssumption

LEMMA OneIsNext ==
  ASSUME ImportBounds, NEW S, NEW e \in Import!Entries, NEW f \in Import!Entries,
         Import!IsNext(e, S), Import!IsNext(f, S)
  PROVE  e = f
<1>1. Import!IndexOf(e) = Import!IndexOf(f)
  BY DEF ImportBounds, Import!IsNext
<1> QED
  BY <1>1 DEF ImportBounds

LEMMA NothingSeen ==
  ASSUME NEW S
  PROVE  OwnTrue(Absent, S) /\ FoundTrue(Import!NoConflicts)
  BY DEF OwnTrue, FoundTrue, SeenTrue, Import!Seen, Import!NoConflicts

\* What becomes of a run's or a comparison's knowledge.
FoundWith(c, e, conflict) == [c EXCEPT ![e] = conflict]

LEMMA FoundAdds ==
  ASSUME NEW c, FoundTrue(c), NEW e \in Import!Entries,
         NEW conflict \in Import!Conflict, SeenTrue(conflict.server, e)
  PROVE  FoundTrue(FoundWith(c, e, conflict))
  BY DEF FoundTrue, FoundWith

LEMMA ConflictTyped ==
  ASSUME NEW s \in Import!Seen, NEW b \in BOOLEAN
  PROVE  /\ [server |-> s, canReplace |-> b] \in Import!Conflict
         /\ [server |-> s, canReplace |-> b].server = s
  BY DEF Import!Conflict

LEMMA VerdictFields ==
  ASSUME NEW v, NEW e, VerdictTrue(v, e)
  PROVE  /\ v.server \in Import!Seen /\ SeenTrue(v.server, e)
         /\ v.canReplace \in BOOLEAN
  BY DEF VerdictTrue, Import!Verdict

LEMMA RunFields ==
  ASSUME NEW r \in Import!Run
  PROVE  /\ r.user \in ImportUsers /\ r.left \subseteq Import!Entries
         /\ r.sent \in ImportUsers \cup {Absent}
         /\ r.own \in Import!Seen /\ r.imported \subseteq Import!Entries
         /\ r.plan \in [Import!Entries -> Import!Verdict]
         /\ r.found \in [Import!Entries -> Import!Conflict \cup {Absent}]
         /\ r.held \subseteq Import!Entries
  BY DEF Import!Run

\* Whatever a run keeps of its user and its comparison, it stays true.
LEMMA RunGoesOn ==
  ASSUME NEW r, RunTrue(r), NEW s \in Import!Run,
         s.user = r.user, s.plan = r.plan, s.left \subseteq r.left,
         FoundTrue(s.found), OwnTrue(s.own, s.left)
  PROVE  RunTrue(s)
  BY DEF RunTrue

LEMMA PastTrue ==
  ASSUME NEW r, RunTrue(r), NEW e \in Import!Entries
  PROVE  /\ RunTrue(Import!Past(r, e))
         /\ Import!Past(r, e).imported = r.imported
         /\ Import!Past(r, e).held = r.held
<1> DEFINE s == Import!Past(r, e)
<1>1. r \in Import!Run /\ FoundTrue(r.found)
  BY DEF RunTrue
<1>2. /\ s \in Import!Run
      /\ s.user = r.user /\ s.plan = r.plan /\ s.left = r.left \ {e}
      /\ s.found = r.found /\ s.own = Absent
      /\ s.imported = r.imported /\ s.held = r.held
  BY <1>1 DEF Import!Past, Import!Run, Import!Seen
<1> HIDE DEF s
<1>3. OwnTrue(s.own, s.left)
  BY <1>2, NothingSeen
<1>4. RunTrue(s)
  BY <1>1, <1>2, <1>3, RunGoesOn
<1> QED
  BY <1>2, <1>4 DEF s

LEMMA ImportedTrue ==
  ASSUME NEW r, RunTrue(r), NEW e \in Import!Entries
  PROVE  /\ RunTrue(Import!Imported(r, e))
         /\ Import!Imported(r, e).imported = r.imported \cup {e}
         /\ Import!Imported(r, e).held = r.held
<1> DEFINE p == Import!Past(r, e)
           s == Import!Imported(r, e)
<1>1. RunTrue(p) /\ p.imported = r.imported /\ p.held = r.held
  BY PastTrue
<1>2. p \in Import!Run /\ FoundTrue(p.found) /\ OwnTrue(p.own, p.left)
  BY <1>1 DEF RunTrue
<1>3. s = [p EXCEPT !.imported = @ \cup {e}]
  BY DEF Import!Imported
<1> HIDE DEF p, s
<1>4. /\ s \in Import!Run
      /\ s.user = p.user /\ s.plan = p.plan /\ s.left = p.left
      /\ s.found = p.found /\ s.own = p.own
      /\ s.imported = p.imported \cup {e} /\ s.held = p.held
  BY <1>2, <1>3 DEF Import!Run
<1>5. RunTrue(s)
  BY <1>1, <1>2, <1>4, RunGoesOn
<1> QED
  BY <1>1, <1>4, <1>5 DEF p, s

\* The run puts a conflict aside.
LEMMA FoundGoesOn ==
  ASSUME NEW r, RunTrue(r), NEW e \in Import!Entries,
         NEW conflict \in Import!Conflict, SeenTrue(conflict.server, e)
  PROVE  /\ RunTrue([Import!Past(r, e) EXCEPT !.found[e] = conflict])
         /\ [Import!Past(r, e) EXCEPT !.found[e] = conflict].imported = r.imported
         /\ [Import!Past(r, e) EXCEPT !.found[e] = conflict].held = r.held
<1> DEFINE p == Import!Past(r, e)
           found == FoundWith(p.found, e, conflict)
           s == [p EXCEPT !.found = found]
<1>1. RunTrue(p) /\ p.imported = r.imported /\ p.held = r.held
  BY PastTrue
<1>2. p \in Import!Run /\ FoundTrue(p.found) /\ OwnTrue(p.own, p.left)
  BY <1>1 DEF RunTrue
<1>3. s = [p EXCEPT !.found[e] = conflict]
  BY DEF FoundWith
<1> HIDE DEF p
<1>4. FoundTrue(found)
  BY <1>2, FoundAdds
<1>5. found \in [Import!Entries -> Import!Conflict \cup {Absent}]
  BY <1>4 DEF FoundTrue
<1> HIDE DEF found
<1>6. /\ s \in Import!Run
      /\ s.user = p.user /\ s.plan = p.plan /\ s.left = p.left
      /\ s.found = found /\ s.own = p.own
      /\ s.imported = p.imported /\ s.held = p.held
  BY <1>2, <1>5 DEF Import!Run
<1>7. RunTrue(s)
  BY <1>1, <1>2, <1>4, <1>6, RunGoesOn
<1> QED
  BY <1>1, <1>3, <1>6, <1>7 DEF p

LEMMA SetAsideTrue ==
  ASSUME NEW r, RunTrue(r), NEW e \in Import!Entries
  PROVE  /\ RunTrue(Import!SetAside(r, e))
         /\ Import!SetAside(r, e).imported = r.imported
         /\ Import!SetAside(r, e).held = r.held
<1> DEFINE v == r.plan[e]
           conflict == [server |-> v.server, canReplace |-> v.canReplace]
<1>1. r \in Import!Run /\ VerdictTrue(v, e)
  BY DEF RunTrue, ComparedTrue
<1>2. /\ v.server \in Import!Seen /\ SeenTrue(v.server, e)
      /\ v.canReplace \in BOOLEAN
  BY <1>1, VerdictFields
<1>3. conflict \in Import!Conflict /\ conflict.server = v.server
  BY <1>2, ConflictTyped
<1>4. Import!SetAside(r, e) = [Import!Past(r, e) EXCEPT !.found[e] = conflict]
  BY <1>1 DEF Import!SetAside, Import!Past, Import!Run
<1> HIDE DEF conflict
<1> QED
  BY <1>2, <1>3, <1>4, FoundGoesOn

LEMMA AsksTrue ==
  ASSUME NEW r, RunTrue(r), NEW e \in Import!Entries, NEW v, VerdictTrue(v, e)
  PROVE  /\ RunTrue(Import!Asks(r, e, v))
         /\ Import!Asks(r, e, v).imported = r.imported
         /\ Import!Asks(r, e, v).held = r.held
<1> DEFINE asked == v.status = "new" \/ v.canReplace \/ e \in catalog
           conflict == [server |-> v.server, canReplace |-> asked]
<1>1. /\ v.server \in Import!Seen /\ SeenTrue(v.server, e)
      /\ v.canReplace \in BOOLEAN
  BY VerdictFields
<1>2. Import!Asks(r, e, v) = [Import!Past(r, e) EXCEPT !.found[e] = conflict]
  BY DEF Import!Asks
<1>3. asked \in BOOLEAN
  BY <1>1
<1>4. conflict \in Import!Conflict /\ conflict.server = v.server
  BY <1>1, <1>3, ConflictTyped
<1> HIDE DEF conflict, asked
<1> QED
  BY <1>1, <1>2, <1>4, FoundGoesOn

LEMMA AfterTrue ==
  ASSUME NEW r, RunTrue(r), NEW e \in Import!Entries, NEW v, VerdictTrue(v, e)
  PROVE  /\ RunTrue(Import!After(r, e, v))
         /\ Import!After(r, e, v).held = r.held
         /\ \/ Import!After(r, e, v).imported = r.imported
            \/ /\ Import!After(r, e, v).imported = r.imported \cup {e}
               /\ ~Import!IsImportable(v) /\ v.status # "server-unreadable"
  BY AsksTrue, PastTrue, ImportedTrue DEF Import!After

-----------------------------------------------------------------------------
(* The server's records in time.                                           *)

LEMMA OwnIsId ==
  ASSUME NEW e \in Import!Entries
  PROVE  Import!Own(e) \in Import!Ids /\ Import!Copy(e) \in Import!Ids
  BY DEF Import!Own, Import!Copy, Import!Ids

LEMMA RowTyped ==
  ASSUME Import!TypeOK, NEW i \in Import!Ids
  PROVE  /\ rows[i] \in Import!Row
         /\ rows[i].version \in 0 .. MaxServer
         /\ rows[i].content \in Import!Contents
         /\ rows[i].creator \in ImportUsers \cup {Absent}
  BY DEF Import!TypeOK, Import!Row

\* Whoever writes a record gives it the next version; a deletion keeps it.
RowMoves(i) ==
  \/ rows'[i] = rows[i]
  \/ rows'[i].version = rows[i].version + 1
  \/ rows'[i].version = rows[i].version /\ ~Import!Live(i)'

RowsMove ==
  /\ rows' \in [Import!Ids -> Import!Row]
  /\ \A i \in Import!Ids : RowMoves(i)

LEMMA RowsKept ==
  ASSUME Import!TypeOK, rows' = rows
  PROVE  RowsMove
  BY DEF RowsMove, RowMoves, Import!TypeOK

LEMMA SeenStays ==
  ASSUME ImportBounds, Import!TypeOK, RowsMove,
         NEW s \in Import!Seen, NEW e \in Import!Entries, SeenTrue(s, e)
  PROVE  SeenTrue(s, e)'
<1> DEFINE i == Import!Own(e)
<1>1. i \in Import!Ids /\ Import!Own(e)' = i
  BY OwnIsId DEF Import!Own
<1>2. rows[i].version \in Nat
  BY <1>1, RowTyped DEF ImportBounds
<1>3. s # Absent => s.version \in Nat
  BY DEF Import!Seen, Import!Row, ImportBounds
<1>4. \/ rows'[i] = rows[i]
      \/ rows'[i].version = rows[i].version + 1
      \/ rows'[i].version = rows[i].version /\ ~Import!Live(i)'
  BY <1>1 DEF RowsMove, RowMoves
<1>5. SUFFICES ASSUME s # Absent
               PROVE  /\ s.version <= rows'[i].version
                      /\ Import!Live(i)' /\ s.version = rows'[i].version
                           => s = rows'[i]
  BY <1>1 DEF SeenTrue, Import!Live
<1>6. /\ s.version <= rows[i].version
      /\ Import!Live(i) /\ s.version = rows[i].version => s = rows[i]
  BY <1>5 DEF SeenTrue
<1>7. CASE rows'[i] = rows[i]
  BY <1>6, <1>7 DEF Import!Live
<1> HIDE DEF i
<1> QED
  BY <1>2, <1>3, <1>4, <1>5, <1>6, <1>7

LEMMA ComparedStays ==
  ASSUME ImportBounds, Import!TypeOK, RowsMove, NEW p, ComparedTrue(p)
  PROVE  ComparedTrue(p)'
<1>1. ASSUME NEW e \in Import!Entries
      PROVE  VerdictTrue(p[e], e)'
  BY VerdictFields, SeenStays DEF ComparedTrue, VerdictTrue
<1> QED
  BY <1>1 DEF ComparedTrue

LEMMA FoundStays ==
  ASSUME ImportBounds, Import!TypeOK, RowsMove, NEW c, FoundTrue(c)
  PROVE  FoundTrue(c)'
<1>1. ASSUME NEW e \in Import!Entries, c[e] # Absent
      PROVE  SeenTrue(c[e].server, e)'
  <2>1. c[e] \in Import!Conflict /\ SeenTrue(c[e].server, e)
    BY <1>1 DEF FoundTrue
  <2>2. c[e].server \in Import!Seen
    BY <2>1 DEF Import!Conflict
  <2> QED
    BY <2>1, <2>2, SeenStays
<1> QED
  BY <1>1 DEF FoundTrue

LEMMA OwnStays ==
  ASSUME ImportBounds, Import!TypeOK, RowsMove, NEW own, NEW left, OwnTrue(own, left)
  PROVE  OwnTrue(own, left)'
  BY SeenStays DEF OwnTrue, Import!IsNext

LEMMA PlannerStays ==
  ASSUME ImportBounds, Import!TypeOK, RowsMove, NEW p, PlannerTrue(p)
  PROVE  PlannerTrue(p)'
<1>1. OwnTrue(p.own, p.left)'
  BY OwnStays DEF PlannerTrue
<1>2. ASSUME NEW e \in Import!Entries \ p.left
      PROVE  VerdictTrue(p.plan[e], e)'
  BY VerdictFields, SeenStays DEF PlannerTrue, VerdictTrue
<1> QED
  BY <1>1, <1>2 DEF PlannerTrue

LEMMA RunStays ==
  ASSUME ImportBounds, Import!TypeOK, RowsMove, catalog' = catalog,
         NEW r, RunTrue(r)
  PROVE  RunTrue(r)'
<1>1. ComparedTrue(r.plan)' /\ FoundTrue(r.found)' /\ OwnTrue(r.own, r.left)'
  BY ComparedStays, FoundStays, OwnStays DEF RunTrue
<1> QED
  BY <1>1 DEF RunTrue

LEMMA ChoiceStays ==
  ASSUME ImportBounds, Import!TypeOK, RowsMove, NEW c, ChoiceTrue(c)
  PROVE  ChoiceTrue(c)'
<1>1. c.conflict.server \in Import!Seen /\ c.entry \in Import!Entries
  BY DEF ChoiceTrue, Import!Choice, Import!Conflict
<1> QED
  BY <1>1, SeenStays DEF ChoiceTrue

-----------------------------------------------------------------------------
(* What a comparison reads.                                                *)

LEMMA OwnRead ==
  ASSUME ImportBounds, Import!TypeOK, NEW e \in Import!Entries
  PROVE  LET own == Import!Read(Import!Own(e))
             v == Import!ClassifyOwn(own)
         IN /\ own \in Import!Seen /\ SeenTrue(own, e)
            /\ v # Absent =>
                 /\ VerdictTrue(v, e)
                 /\ ~Import!IsImportable(v)
                 /\ v.status # "server-unreadable" => e \in Import!Holds(rows)
<1> DEFINE i == Import!Own(e)
           own == Import!Read(i)
           v == Import!ClassifyOwn(own)
<1>1. i \in Import!Ids
  BY OwnIsId
<1>2. rows[i] \in Import!Row /\ rows[i].version \in Nat
  BY <1>1, RowTyped DEF ImportBounds
<1>3. own \in Import!Seen /\ SeenTrue(own, e)
  BY <1>2 DEF Import!Read, Import!Seen, SeenTrue
<1>4. SeenTrue(Absent, e)
  BY DEF SeenTrue
<1>5. v # Absent =>
        \/ v = [status |-> "server-unreadable", server |-> Absent, canReplace |-> FALSE]
        \/ /\ v = [status |-> "unchanged", server |-> own, canReplace |-> FALSE]
           /\ own # Absent /\ own.content = "local"
  BY DEF Import!ClassifyOwn
<1>6. own # Absent => own = rows[i]
  BY DEF Import!Read
<1>7. own # Absent /\ own.content = "local" => e \in Import!Holds(rows)
  BY <1>6 DEF Import!Holds
<1> HIDE DEF own, v
<1>8. ASSUME NEW w \in {"server-unreadable", "unchanged"},
             NEW s \in Import!Seen, SeenTrue(s, e),
             v = [status |-> w, server |-> s, canReplace |-> FALSE]
      PROVE  VerdictTrue(v, e) /\ v.status = w /\ ~Import!IsImportable(v)
  BY <1>8 DEF VerdictTrue, Import!Verdict, Import!Statuses, Import!IsImportable
<1>9. Absent \in Import!Seen
  BY DEF Import!Seen
<1>10. v # Absent =>
         /\ VerdictTrue(v, e)
         /\ ~Import!IsImportable(v)
         /\ v.status # "server-unreadable" => e \in Import!Holds(rows)
  BY <1>3, <1>4, <1>5, <1>7, <1>8, <1>9
<1> QED
  BY <1>3, <1>10 DEF own, v

LEMMA CopyRead ==
  ASSUME ImportBounds, Import!TypeOK, NEW e \in Import!Entries,
         NEW u \in ImportUsers, NEW own \in Import!Seen, SeenTrue(own, e)
  PROVE  LET v == Import!ClassifyCopy(e, u, own, Import!Read(Import!Copy(e)))
         IN /\ VerdictTrue(v, e)
            /\ \/ Import!IsImportable(v)
               \/ e \in Import!Holds(rows)
               \/ e \in catalog /\ u \notin ImportAdmins
<1> DEFINE i == Import!Copy(e)
           copy == Import!Read(i)
           v == Import!ClassifyCopy(e, u, own, copy)
           replace == Import!MayReplace(u, e, own)
<1>1. copy # Absent => e \in Import!Holds(rows)
  BY DEF Import!Read, Import!Live, Import!Holds
<1>2. replace \in BOOLEAN
  BY DEF Import!MayReplace
<1>3. \/ /\ v = [status |-> "copied", server |-> own, canReplace |-> FALSE]
         /\ copy # Absent
      \/ /\ v = [status |-> "admin-only", server |-> own, canReplace |-> FALSE]
         /\ e \in catalog /\ u \notin ImportAdmins
      \/ v = [status |-> "new", server |-> own, canReplace |-> FALSE]
      \/ v = [status |-> "differs", server |-> own, canReplace |-> replace]
  BY DEF Import!ClassifyCopy
<1> HIDE DEF copy, v, replace
<1>4. ASSUME NEW w \in {"copied", "admin-only", "new", "differs"}, NEW b \in BOOLEAN,
             v = [status |-> w, server |-> own, canReplace |-> b]
      PROVE  VerdictTrue(v, e) /\ v.status = w
  BY <1>4 DEF VerdictTrue, Import!Verdict, Import!Statuses
<1>5. /\ VerdictTrue(v, e)
      /\ \/ v.status \in {"new", "differs"}
         \/ copy # Absent
         \/ e \in catalog /\ u \notin ImportAdmins
  BY <1>2, <1>3, <1>4
<1>6. \/ Import!IsImportable(v)
      \/ e \in Import!Holds(rows)
      \/ e \in catalog /\ u \notin ImportAdmins
  BY <1>1, <1>5 DEF Import!IsImportable
<1> QED
  BY <1>5, <1>6 DEF v, copy

-----------------------------------------------------------------------------
(* A step, seen from the state before it.                                  *)

PlannersMove ==
  /\ planners' \in [Planners -> Import!Planner \cup {Absent}]
  /\ \A i \in Planners : planners'[i] # Absent => PlannerTrue(planners'[i])

RunsMove ==
  /\ runs' \in [Runs -> Import!Run \cup {Absent}]
  /\ \A i \in Runs : runs'[i] # Absent =>
       RunTrue(runs'[i]) /\ runs'[i].imported \subseteq runs'[i].held

PlanMoves == plan' = Absent \/ ComparedTrue(plan')
ChoiceMoves == choice' = Absent \/ ChoiceTrue(choice')

WindowMoves ==
  /\ session' \in ImportUsers \cup {Absent} /\ user' \in ImportUsers \cup {Absent}
  /\ inventory' \in BOOLEAN /\ planning' \in BOOLEAN /\ deciding' \in BOOLEAN
  /\ step' \in {"overview", "running", "done"}

ImportMoves ==
  /\ RowsMove /\ others' \in 0 .. MaxOthers /\ catalog' = catalog
  /\ WindowMoves /\ PlanMoves /\ PlannersMove /\ RunsMove
  /\ FoundTrue(conflicts') /\ ChoiceMoves

LEMMA ImportMovesKeep ==
  ASSUME ImportBounds, ImportInv, ImportMoves
  PROVE  ImportInv'
<1>1. Import!TypeOK /\ RowsMove /\ catalog' = catalog
  BY DEF ImportInv, ImportMoves
<1>2. plan' # Absent => ComparedTrue(plan)'
  <2>1. PICK p : p = plan'
    OBVIOUS
  <2>2. p # Absent => ComparedTrue(p)'
    BY <1>1, <2>1, ComparedStays DEF ImportMoves, PlanMoves
  <2> QED
    BY <2>1, <2>2 DEF ComparedTrue, VerdictTrue, SeenTrue
<1>3. ASSUME NEW i \in Planners, planners'[i] # Absent
      PROVE  PlannerTrue(planners[i])'
  <2>1. PICK p : p = planners'[i]
    OBVIOUS
  <2>2. PlannerTrue(p)'
    BY <1>1, <1>3, <2>1, PlannerStays DEF ImportMoves, PlannersMove
  <2> QED
    BY <2>1, <2>2 DEF PlannerTrue, OwnTrue, VerdictTrue, SeenTrue
<1>4. ASSUME NEW i \in Runs, runs'[i] # Absent
      PROVE  RunTrue(runs[i])'
  <2>1. PICK r : r = runs'[i]
    OBVIOUS
  <2>2. RunTrue(r)'
    BY <1>1, <1>4, <2>1, RunStays DEF ImportMoves, RunsMove
  <2> QED
    BY <2>1, <2>2 DEF RunTrue, OwnTrue, ComparedTrue, FoundTrue, VerdictTrue, SeenTrue
<1>5. FoundTrue(conflicts)'
  <2>1. PICK c : c = conflicts'
    OBVIOUS
  <2>2. FoundTrue(c)'
    BY <1>1, <2>1, FoundStays DEF ImportMoves
  <2> QED
    BY <2>1, <2>2 DEF FoundTrue, SeenTrue
<1>6. choice' # Absent => ChoiceTrue(choice)'
  <2>1. PICK c : c = choice'
    OBVIOUS
  <2>2. c # Absent => ChoiceTrue(c)'
    BY <1>1, <2>1, ChoiceStays DEF ImportMoves, ChoiceMoves
  <2> QED
    BY <2>1, <2>2 DEF ChoiceTrue, SeenTrue
<1>7. ReportIsTrue'
  BY DEF ImportMoves, RunsMove, ReportIsTrue, Import!ReportIsTrue
<1>8. Import!TypeOK'
  <2>1. plan' = Absent \/ plan' \in [Import!Entries -> Import!Verdict]
    BY DEF ImportMoves, PlanMoves, ComparedTrue
  <2>2. choice' = Absent \/ choice' \in Import!Choice
    BY DEF ImportMoves, ChoiceMoves, ChoiceTrue
  <2>3. conflicts' \in [Import!Entries -> Import!Conflict \cup {Absent}]
    BY DEF ImportMoves, FoundTrue
  <2>4. catalog' \subseteq Import!Entries
    BY <1>1 DEF Import!TypeOK
  <2> QED
    BY <2>1, <2>2, <2>3, <2>4
    DEF ImportMoves, Import!TypeOK, RowsMove, WindowMoves, PlannersMove, RunsMove
<1> QED
  BY <1>2, <1>3, <1>4, <1>5, <1>6, <1>7, <1>8 DEF ImportInv

\* What a step does not touch.
LEMMA RestMoves ==
  ASSUME ImportInv
  PROVE  /\ rows' = rows => RowsMove
         /\ others' = others => others' \in 0 .. MaxOthers
         /\ plan' \in {plan, Absent} => PlanMoves
         /\ planners' = planners => PlannersMove
         /\ runs' = runs => RunsMove
         /\ conflicts' \in {conflicts, Import!NoConflicts} => FoundTrue(conflicts')
         /\ choice' \in {choice, Absent} => ChoiceMoves
<1>1. Import!TypeOK
  BY DEF ImportInv
<1>2. runs' = runs => RunsMove
  BY <1>1 DEF ImportInv, Import!TypeOK, RunsMove, ReportIsTrue, Import!ReportIsTrue
<1>3. planners' = planners => PlannersMove
  BY <1>1 DEF ImportInv, Import!TypeOK, PlannersMove
<1>4. plan' \in {plan, Absent} => PlanMoves
  BY DEF ImportInv, PlanMoves
<1>5. conflicts' \in {conflicts, Import!NoConflicts} => FoundTrue(conflicts')
  BY NothingSeen DEF ImportInv
<1>6. choice' \in {choice, Absent} => ChoiceMoves
  BY DEF ImportInv, ChoiceMoves
<1>7. others' = others => others' \in 0 .. MaxOthers
  BY <1>1 DEF Import!TypeOK
<1> QED
  BY <1>1, <1>2, <1>3, <1>4, <1>5, <1>6, <1>7, RowsKept

LEMMA WindowTyped ==
  ASSUME ImportInv
  PROVE  /\ session \in ImportUsers \cup {Absent} /\ user \in ImportUsers \cup {Absent}
         /\ inventory \in BOOLEAN /\ planning \in BOOLEAN /\ deciding \in BOOLEAN
         /\ step \in {"overview", "running", "done"}
  BY DEF ImportInv, Import!TypeOK

LEMMA PlannerSet ==
  ASSUME ImportInv, NEW i \in Planners, NEW p, p = Absent \/ PlannerTrue(p),
         planners' = [planners EXCEPT ![i] = p]
  PROVE  PlannersMove
<1>1. p \in Import!Planner \cup {Absent}
  BY DEF PlannerTrue
<1> QED
  BY <1>1 DEF PlannersMove, ImportInv, Import!TypeOK

LEMMA RunSet ==
  ASSUME ImportInv, NEW i \in Runs, NEW r,
         r = Absent \/ (RunTrue(r) /\ r.imported \subseteq r.held),
         runs' = [runs EXCEPT ![i] = r]
  PROVE  RunsMove
<1>1. r \in Import!Run \cup {Absent}
  BY DEF RunTrue
<1> QED
  BY <1>1 DEF RunsMove, ImportInv, Import!TypeOK, ReportIsTrue, Import!ReportIsTrue

-----------------------------------------------------------------------------
(* The steps of the server and of the session.                             *)

LEMMA RowSet ==
  ASSUME ImportBounds, Import!TypeOK, NEW i \in Import!Ids, NEW row \in Import!Row,
         rows' = [rows EXCEPT ![i] = row],
         \/ row.version = rows[i].version + 1
         \/ row.version = rows[i].version /\ row.content = "none"
  PROVE  RowsMove
<1>1. rows' \in [Import!Ids -> Import!Row] /\ rows'[i] = row
      /\ \A j \in Import!Ids : j # i => rows'[j] = rows[j]
  BY DEF Import!TypeOK
<1> QED
  BY <1>1 DEF RowsMove, RowMoves, Import!Live

LEMMA InsertedMoves ==
  ASSUME ImportBounds, Import!TypeOK, NEW i \in Import!Ids, NEW u \in ImportUsers,
         Import!Room(i), rows' = Import!Inserted(i, u)
  PROVE  RowsMove /\ rows'[i].content = "local"
<1> DEFINE row == [version |-> rows[i].version + 1, content |-> "local", creator |-> u]
<1>1. rows' = [rows EXCEPT ![i] = row] /\ rows'[i] = row
  BY DEF Import!Inserted, Import!TypeOK
<1>2. rows[i].version + 1 \in 0 .. MaxServer
  BY RowTyped DEF Import!Room, ImportBounds
<1>3. row \in Import!Row /\ row.version = rows[i].version + 1 /\ row.content = "local"
  BY <1>2 DEF Import!Row, Import!Contents
<1> HIDE DEF row
<1> QED
  BY <1>1, <1>3, RowSet

LEMMA ReplacedMoves ==
  ASSUME ImportBounds, Import!TypeOK, NEW i \in Import!Ids,
         Import!Room(i), rows' = Import!Replaced(i)
  PROVE  /\ RowsMove
         /\ rows'[i].creator = rows[i].creator
         /\ \A j \in Import!Ids : j # i => rows'[j] = rows[j]
<1> DEFINE old == rows[i]
           row == [[old EXCEPT !.version = @ + 1] EXCEPT !.content = "local"]
<1>1. old \in Import!Row /\ old.version + 1 \in 0 .. MaxServer
  BY RowTyped DEF Import!Room, ImportBounds
<1>2. rows' = [rows EXCEPT ![i] = row] /\ rows'[i] = row
      /\ \A j \in Import!Ids : j # i => rows'[j] = rows[j]
  BY DEF Import!Replaced, Import!TypeOK
<1>3. row \in Import!Row /\ row.version = old.version + 1
      /\ row.creator = old.creator
  BY <1>1 DEF Import!Row, Import!Contents
<1> HIDE DEF row
<1> QED
  BY <1>2, <1>3, RowSet

LEMMA OtherWritesStep ==
  ASSUME ImportBounds, ImportInv, catalog' = catalog,
         NEW i \in Import!Ids, NEW u \in ImportUsers,
         NEW content \in Import!Contents, Import!OtherWrites(i, u, content)
  PROVE  ImportMoves
<1> DEFINE creator == IF Import!Live(i) THEN rows[i].creator ELSE u
           row == [version |-> rows[i].version + 1, content |-> content,
                   creator |-> creator]
<1>1. Import!TypeOK
  BY DEF ImportInv
<1>2. rows' = [rows EXCEPT ![i] = row]
  BY <1>1 DEF Import!OtherWrites, Import!TypeOK
<1>3. rows[i].version + 1 \in 0 .. MaxServer
  BY <1>1, RowTyped DEF Import!OtherWrites, Import!Room, ImportBounds
<1>4. creator \in ImportUsers \cup {Absent}
  BY <1>1, RowTyped
<1> HIDE DEF creator
<1>5. row \in Import!Row /\ row.version = rows[i].version + 1
  BY <1>3, <1>4 DEF Import!Row
<1> HIDE DEF row
<1>6. RowsMove
  BY <1>1, <1>2, <1>5, RowSet
<1>7. others' \in 0 .. MaxOthers
  BY <1>1 DEF Import!OtherWrites, Import!TypeOK, ImportBounds
<1> QED
  BY <1>6, <1>7, RestMoves, WindowTyped
  DEF Import!OtherWrites, Import!view, Import!tasks, ImportMoves, WindowMoves

LEMMA OtherDeletesStep ==
  ASSUME ImportBounds, ImportInv, catalog' = catalog,
         NEW i \in Import!Ids, NEW u \in ImportUsers, Import!OtherDeletes(i, u)
  PROVE  ImportMoves
<1> DEFINE old == rows[i]
           row == [[old EXCEPT !.content = "none"] EXCEPT !.creator = Absent]
<1>1. Import!TypeOK
  BY DEF ImportInv
<1>2. old \in Import!Row
  BY <1>1, RowTyped
<1>3. rows' = [rows EXCEPT ![i] = row]
  BY <1>1 DEF Import!OtherDeletes, Import!TypeOK
<1>4. row \in Import!Row /\ row.version = old.version /\ row.content = "none"
  BY <1>2 DEF Import!Row, Import!Contents
<1> HIDE DEF row
<1>5. RowsMove
  BY <1>1, <1>3, <1>4, RowSet
<1>6. others' \in 0 .. MaxOthers
  BY <1>1 DEF Import!OtherDeletes, Import!TypeOK, ImportBounds
<1> QED
  BY <1>5, <1>6, RestMoves, WindowTyped
  DEF Import!OtherDeletes, Import!view, Import!tasks, ImportMoves, WindowMoves

\* A request of a revoked session goes on without one.
LEMMA SentDropped ==
  ASSUME NEW r, RunTrue(r)
  PROVE  /\ RunTrue([r EXCEPT !.sent = Absent])
         /\ [r EXCEPT !.sent = Absent].imported = r.imported
         /\ [r EXCEPT !.sent = Absent].held = r.held
<1> DEFINE s == [r EXCEPT !.sent = Absent]
<1>1. r \in Import!Run /\ FoundTrue(r.found) /\ OwnTrue(r.own, r.left)
  BY DEF RunTrue
<1>2. /\ s \in Import!Run
      /\ s.user = r.user /\ s.plan = r.plan /\ s.left = r.left
      /\ s.found = r.found /\ s.own = r.own
      /\ s.imported = r.imported /\ s.held = r.held
  BY <1>1 DEF Import!Run
<1> HIDE DEF s
<1>3. RunTrue(s)
  BY <1>1, <1>2, RunGoesOn
<1> QED
  BY <1>2, <1>3 DEF s

LEMMA RevokedMoves ==
  ASSUME ImportBounds, ImportInv, Import!Revoked
  PROVE  session' = Absent /\ RunsMove /\ ChoiceMoves
<1>1. /\ session' = Absent
      /\ runs' = [i \in Runs |->
           IF runs[i] # Absent /\ runs[i].sent = session
           THEN [runs[i] EXCEPT !.sent = Absent] ELSE runs[i]]
      /\ choice' = IF choice # Absent /\ choice.sent = session
                   THEN [choice EXCEPT !.sent = Absent] ELSE choice
  BY DEF Import!Revoked
<1>2. ASSUME NEW i \in Runs
      PROVE  \/ runs'[i] = Absent
             \/ /\ RunTrue(runs'[i]) /\ runs'[i].imported \subseteq runs'[i].held
  <2>1. runs[i] # Absent => RunTrue(runs[i]) /\ runs[i].imported \subseteq runs[i].held
    BY DEF ImportInv, ReportIsTrue, Import!ReportIsTrue
  <2>2. runs'[i] = runs[i] \/ (runs[i] # Absent /\ runs'[i] = [runs[i] EXCEPT !.sent = Absent])
    BY <1>1
  <2> QED
    BY <2>1, <2>2, SentDropped
<1>3. \A i \in Runs : runs'[i] \in Import!Run \cup {Absent}
  BY <1>2 DEF RunTrue
<1>4. RunsMove
  <2>1. runs' \in [Runs -> Import!Run \cup {Absent}]
    <3>1. runs' = [i \in Runs |-> runs'[i]]
      BY <1>1
    <3> QED
      BY <1>3, <3>1
  <2> QED
    BY <1>2, <2>1 DEF RunsMove
<1>5. ASSUME NEW c, ChoiceTrue(c)
      PROVE  ChoiceTrue([c EXCEPT !.sent = Absent])
  <2>1. [c EXCEPT !.sent = Absent] \in Import!Choice
        /\ [c EXCEPT !.sent = Absent].conflict = c.conflict
        /\ [c EXCEPT !.sent = Absent].entry = c.entry
    BY <1>5 DEF ChoiceTrue, Import!Choice
  <2> QED
    BY <1>5, <2>1 DEF ChoiceTrue
<1>6. ChoiceMoves
  BY <1>1, <1>5 DEF ImportInv, ChoiceMoves
<1> QED
  BY <1>1, <1>4, <1>6

LEMMA SessionStepMoves ==
  ASSUME ImportBounds, ImportInv, catalog' = catalog, Import!SessionStep
  PROVE  ImportMoves
<1>1. /\ rows' = rows /\ others' = others /\ planning' = planning /\ step' = step
      /\ planners' = planners
  BY DEF Import!SessionStep, Import!SignIn, Import!SignOut, Import!SessionLost,
         Import!Expire, Import!server, Import!tasks, Import!view
<1>2. Import!Emptied \/ UNCHANGED <<inventory, plan, conflicts, deciding>>
  BY DEF Import!SessionStep, Import!SignIn, Import!SignOut, Import!SessionLost,
         Import!Expire, Import!view
<1>3. /\ inventory' \in {inventory, FALSE} /\ deciding' \in {deciding, FALSE}
      /\ plan' \in {plan, Absent}
      /\ conflicts' \in {conflicts, Import!NoConflicts}
  BY <1>2 DEF Import!Emptied
<1>4. Import!Revoked \/ UNCHANGED <<runs, choice>>
  BY DEF Import!SessionStep, Import!SignIn, Import!SignOut, Import!SessionLost,
         Import!Expire, Import!tasks
<1>5. RunsMove /\ ChoiceMoves
  BY <1>4, RevokedMoves, RestMoves
<1>6. user' \in ImportUsers \cup {Absent} /\ session' \in ImportUsers \cup {Absent}
  BY WindowTyped
  DEF Import!SessionStep, Import!SignIn, Import!SignOut, Import!SessionLost,
      Import!Expire, Import!Revoked, Import!view
<1> QED
  BY <1>1, <1>3, <1>5, <1>6, RestMoves, WindowTyped DEF ImportMoves, WindowMoves

-----------------------------------------------------------------------------
(* The comparison.                                                         *)

LEMMA NewPlannerTrue ==
  ASSUME ImportInv, user # Absent
  PROVE  PlannerTrue(Import!NewPlanner)
<1> DEFINE p == Import!NewPlanner
<1>1. user \in ImportUsers
  BY WindowTyped
<1>2. /\ p \in Import!Planner /\ p.left = Import!Entries /\ p.own = Absent
  BY <1>1 DEF Import!NewPlanner, Import!Planner, Import!Seen
<1> HIDE DEF p
<1>3. PlannerTrue(p)
  BY <1>2, NothingSeen DEF PlannerTrue
<1> QED
  BY <1>3 DEF p

LEMMA BeginPlanningMoves ==
  ASSUME ImportInv, user # Absent, Import!BeginPlanning
  PROVE  PlannersMove /\ planning' \in BOOLEAN
<1>1. PICK i \in Planners : planners' = [planners EXCEPT ![i] = Import!NewPlanner]
  BY DEF Import!BeginPlanning
<1>2. PlannersMove
  BY <1>1, NewPlannerTrue, PlannerSet
<1> QED
  BY <1>2 DEF Import!BeginPlanning

LEMMA LoadStep ==
  ASSUME ImportBounds, ImportInv, catalog' = catalog, Import!Load
  PROVE  ImportMoves
<1>1. PlannersMove /\ planning' \in BOOLEAN
  BY BeginPlanningMoves DEF Import!Load
<1> QED
  BY <1>1, RestMoves, WindowTyped
  DEF Import!Load, Import!server, ImportMoves, WindowMoves

LEMMA ReopenStep ==
  ASSUME ImportBounds, ImportInv, catalog' = catalog, Import!Reopen
  PROVE  ImportMoves
<1>1. PlannersMove /\ planning' \in BOOLEAN
  BY BeginPlanningMoves DEF Import!Reopen
<1> QED
  BY <1>1, RestMoves, WindowTyped
  DEF Import!Reopen, Import!server, ImportMoves, WindowMoves

LEMMA CloseStep ==
  ASSUME ImportBounds, ImportInv, catalog' = catalog, Import!Close
  PROVE  ImportMoves
<1>1. PlannersMove /\ planning' \in BOOLEAN
  BY BeginPlanningMoves, RestMoves, WindowTyped DEF Import!Close
<1> QED
  BY <1>1, RestMoves, WindowTyped
  DEF Import!Close, Import!server, ImportMoves, WindowMoves

LEMMA EndPlanningMoves ==
  ASSUME ImportInv, NEW i \in Planners, NEW p, PlannerTrue(p), p.left = {},
         Import!EndPlanning(i, p)
  PROVE  /\ PlannersMove /\ planning' \in BOOLEAN /\ PlanMoves
         /\ step' \in {"overview", "running", "done"}
<1>1. PlannersMove
  BY PlannerSet DEF Import!EndPlanning
<1>2. ComparedTrue(p.plan)
  <2>1. p.plan \in [Import!Entries -> Import!Verdict \cup {Absent}]
    BY DEF PlannerTrue, Import!Planner
  <2>2. \A e \in Import!Entries : VerdictTrue(p.plan[e], e)
    BY DEF PlannerTrue
  <2> QED
    BY <2>1, <2>2 DEF ComparedTrue, VerdictTrue
<1>3. \/ UNCHANGED <<plan, step>>
      \/ plan' = p.plan /\ step' = "overview"
  BY DEF Import!EndPlanning
<1> QED
  BY <1>1, <1>2, <1>3, RestMoves, WindowTyped DEF Import!EndPlanning, PlanMoves

\* An entry is compared.
LEMMA ClassifiedMoves ==
  ASSUME ImportInv, NEW i \in Planners, planners[i] # Absent,
         NEW e \in Import!Entries, NEW v, VerdictTrue(v, e),
         Import!Classified(i, e, v)
  PROVE  /\ PlannersMove /\ planning' \in BOOLEAN /\ PlanMoves
         /\ step' \in {"overview", "running", "done"}
<1>1. PICK p : p = planners[i] /\ PlannerTrue(p)
  BY DEF ImportInv
<1> DEFINE verdicts == [p.plan EXCEPT ![e] = v]
           next == [p EXCEPT !.plan = verdicts, !.left = @ \ {e}, !.at = "own",
                             !.own = Absent]
<1>2. /\ p \in Import!Planner /\ v \in Import!Verdict
      /\ p.plan \in [Import!Entries -> Import!Verdict \cup {Absent}]
  BY <1>1 DEF PlannerTrue, VerdictTrue, Import!Planner
<1>3. /\ verdicts \in [Import!Entries -> Import!Verdict \cup {Absent}]
      /\ verdicts[e] = v
      /\ \A f \in Import!Entries : f # e => verdicts[f] = p.plan[f]
  BY <1>2
<1>4. next = [planners[i] EXCEPT !.plan[e] = v, !.left = @ \ {e}, !.at = "own",
                                 !.own = Absent]
  BY <1>1
<1> HIDE DEF verdicts
<1>5. /\ next \in Import!Planner
      /\ next.plan = verdicts /\ next.left = p.left \ {e} /\ next.own = Absent
  BY <1>2, <1>3 DEF Import!Planner, Import!Seen
<1> HIDE DEF next
<1>6. PlannerTrue(next)
  <2>1. \A f \in Import!Entries \ next.left : VerdictTrue(next.plan[f], f)
    BY <1>1, <1>3, <1>5 DEF PlannerTrue
  <2> QED
    BY <1>5, <2>1, NothingSeen DEF PlannerTrue
<1>7. \/ next.left = {} /\ Import!EndPlanning(i, next)
      \/ /\ planners' = [planners EXCEPT ![i] = next]
         /\ UNCHANGED <<planning, plan, step>>
  BY <1>4 DEF Import!Classified
<1>8. CASE next.left = {} /\ Import!EndPlanning(i, next)
  BY <1>6, <1>8, EndPlanningMoves
<1>9. CASE /\ planners' = [planners EXCEPT ![i] = next]
           /\ UNCHANGED <<planning, plan, step>>
  BY <1>6, <1>9, PlannerSet, RestMoves, WindowTyped
<1> QED
  BY <1>7, <1>8, <1>9

LEMMA CompareStep ==
  ASSUME ImportBounds, ImportInv, catalog' = catalog,
         NEW i \in Planners, NEW e \in Import!Entries, Import!Compare(i, e)
  PROVE  ImportMoves
<1> DEFINE own == Import!Read(Import!Own(e))
<1>1. PICK p : p = planners[i] /\ PlannerTrue(p) /\ Import!IsNext(e, p.left)
               /\ p # Absent
  BY DEF ImportInv, Import!Compare
<1>2. Import!TypeOK
  BY DEF ImportInv
<1>3. /\ p.user \in ImportUsers /\ p.own \in Import!Seen /\ SeenTrue(p.own, e)
  BY <1>1 DEF PlannerTrue, OwnTrue, Import!Planner
<1>4. /\ own \in Import!Seen /\ SeenTrue(own, e)
      /\ Import!ClassifyOwn(own) # Absent => VerdictTrue(Import!ClassifyOwn(own), e)
  BY <1>2, OwnRead
<1>5. VerdictTrue(Import!ClassifyCopy(e, p.user, p.own, Import!Read(Import!Copy(e))), e)
  BY <1>2, <1>3, CopyRead
<1>6. \/ \E v : VerdictTrue(v, e) /\ Import!Classified(i, e, v)
      \/ /\ planners' = [planners EXCEPT ![i].at = "copy", ![i].own = own]
         /\ UNCHANGED <<planning, plan, step>>
  BY <1>1, <1>4, <1>5 DEF Import!Compare
<1>7. /\ PlannersMove /\ planning' \in BOOLEAN /\ PlanMoves
      /\ step' \in {"overview", "running", "done"}
  <2>1. CASE \E v : VerdictTrue(v, e) /\ Import!Classified(i, e, v)
    BY <1>1, <2>1, ClassifiedMoves
  <2>2. CASE /\ planners' = [planners EXCEPT ![i].at = "copy", ![i].own = own]
             /\ UNCHANGED <<planning, plan, step>>
    <3> DEFINE next == [p EXCEPT !.at = "copy", !.own = own]
    <3>1. planners' = [planners EXCEPT ![i] = next]
      BY <1>1, <1>2, <2>2 DEF Import!TypeOK
    <3> HIDE DEF own
    <3>2. /\ next \in Import!Planner /\ next.plan = p.plan /\ next.left = p.left
          /\ next.own = own
      BY <1>1, <1>4 DEF PlannerTrue, Import!Planner
    <3>3. \A f \in Import!Entries : Import!IsNext(f, p.left) => f = e
      BY <1>1, OneIsNext
    <3> HIDE DEF next
    <3>4. OwnTrue(next.own, next.left)
      BY <1>4, <3>2, <3>3 DEF OwnTrue
    <3>5. PlannerTrue(next)
      BY <1>1, <3>2, <3>4 DEF PlannerTrue
    <3>6. PlannersMove
      BY <3>1, <3>5, PlannerSet
    <3> QED
      BY <2>2, <3>6, RestMoves, WindowTyped
  <2> QED
    BY <1>6, <2>1, <2>2
<1> QED
  BY <1>7, RestMoves, WindowTyped
  DEF Import!Compare, Import!server, ImportMoves, WindowMoves

LEMMA CompareFailsStep ==
  ASSUME ImportBounds, ImportInv, catalog' = catalog,
         NEW i \in Planners, Import!CompareFails(i)
  PROVE  ImportMoves
<1>1. PlannersMove
  BY PlannerSet DEF Import!CompareFails
<1> QED
  BY <1>1, RestMoves, WindowTyped
  DEF Import!CompareFails, Import!server, ImportMoves, WindowMoves

-----------------------------------------------------------------------------
(* The run.                                                                *)

LEMMA StartStep ==
  ASSUME ImportBounds, ImportInv, catalog' = catalog,
         NEW selection \in SUBSET Import!Entries, Import!Start(selection)
  PROVE  ImportMoves
<1> DEFINE left == {e \in Import!Entries : Import!Selected(e, selection)}
           r == [user |-> user, sent |-> session, left |-> left,
                 at |-> "create", own |-> Absent, plan |-> plan, imported |-> {},
                 found |-> Import!NoConflicts, held |-> Import!Holds(rows)]
<1>1. PICK i \in Runs : runs' = [runs EXCEPT ![i] = r]
  BY DEF Import!Start
<1>2. ComparedTrue(plan) /\ user \in ImportUsers
      /\ session \in ImportUsers \cup {Absent}
  BY WindowTyped DEF ImportInv, Import!Start
<1>3. \A e \in left : e \in catalog => user \in ImportAdmins
  BY DEF Import!Selected
<1>4. FoundTrue(Import!NoConflicts) /\ OwnTrue(Absent, left)
  BY NothingSeen
<1>5. /\ plan \in [Import!Entries -> Import!Verdict]
      /\ Import!NoConflicts \in [Import!Entries -> Import!Conflict \cup {Absent}]
      /\ left \subseteq Import!Entries /\ Absent \in Import!Seen
      /\ Import!Holds(rows) \subseteq Import!Entries
  BY <1>2, <1>4
  DEF ComparedTrue, FoundTrue, OwnTrue, Import!Holds
<1> HIDE DEF left
<1>6. r \in Import!Run
  BY <1>2, <1>5 DEF Import!Run
<1>7. RunTrue(r) /\ r.imported \subseteq r.held
  BY <1>2, <1>3, <1>4, <1>6 DEF RunTrue
<1> HIDE DEF r
<1>8. RunsMove
  BY <1>1, <1>7, RunSet
<1> QED
  BY <1>8, RestMoves, WindowTyped
  DEF Import!Start, Import!server, ImportMoves, WindowMoves

\* The run goes on to its next request.
LEMMA ContinuedMoves ==
  ASSUME ImportInv, NEW i \in Runs, NEW r, RunTrue(r), NEW held,
         held = Import!Holds(rows'), r.imported \subseteq r.held \cup held,
         Import!Continued(i, r)
  PROVE  RunsMove /\ UNCHANGED <<conflicts, deciding, step>>
<1> DEFINE s == [r EXCEPT !.sent = session, !.held = @ \cup held]
<1>1. runs' = [runs EXCEPT ![i] = s]
  BY DEF Import!Continued
<1>2. r \in Import!Run /\ FoundTrue(r.found) /\ OwnTrue(r.own, r.left)
  BY DEF RunTrue
<1>3. held \subseteq Import!Entries
  BY DEF Import!Holds
<1>4. /\ s \in Import!Run
      /\ s.user = r.user /\ s.plan = r.plan /\ s.left = r.left
      /\ s.found = r.found /\ s.own = r.own
      /\ s.imported = r.imported /\ s.held = r.held \cup held
  BY <1>2, <1>3, WindowTyped DEF Import!Run
<1> HIDE DEF s
<1>5. RunTrue(s) /\ s.imported \subseteq s.held
  BY <1>2, <1>4, RunGoesOn
<1>6. RunsMove
  BY <1>1, <1>5, RunSet
<1> QED
  BY <1>6 DEF Import!Continued

LEMMA RunFrameMoves ==
  ASSUME ImportInv, catalog' = catalog, Import!RunFrame,
         RowsMove, RunsMove, UNCHANGED <<conflicts, deciding, step>>
  PROVE  ImportMoves
  BY RestMoves, WindowTyped DEF Import!RunFrame, ImportMoves, WindowMoves

LEMMA TheRun ==
  ASSUME ImportInv, NEW i \in Runs, runs[i] # Absent
  PROVE  RunTrue(runs[i]) /\ runs[i].imported \subseteq runs[i].held
  BY DEF ImportInv, ReportIsTrue, Import!ReportIsTrue

LEMMA HandOverStep ==
  ASSUME ImportBounds, ImportInv, catalog' = catalog,
         NEW i \in Runs, NEW e \in Import!Entries, Import!HandOver(i, e)
  PROVE  ImportMoves
<1>1. runs[i] # Absent /\ runs' = [runs EXCEPT ![i] = Import!SetAside(runs[i], e)]
  BY DEF Import!HandOver, ImportInv, Import!TypeOK
<1>2. /\ RunTrue(Import!SetAside(runs[i], e))
      /\ Import!SetAside(runs[i], e).imported \subseteq Import!SetAside(runs[i], e).held
  BY <1>1, TheRun, SetAsideTrue
<1>3. RunsMove
  BY <1>1, <1>2, RunSet
<1> QED
  BY <1>3, RestMoves, WindowTyped
  DEF Import!HandOver, Import!server, Import!view, ImportMoves, WindowMoves

LEMMA InsertStep ==
  ASSUME ImportBounds, ImportInv, catalog' = catalog,
         NEW i \in Runs, NEW e \in Import!Entries, Import!Insert(i, e)
  PROVE  ImportMoves
<1>1. PICK r, held :
        /\ r = runs[i] /\ r # Absent /\ RunTrue(r) /\ r.imported \subseteq r.held
        /\ held = Import!Holds(rows')
  BY TheRun DEF Import!Insert, Import!Waits
<1>2. /\ rows' = Import!Inserted(Import!Own(e), r.sent)
      /\ r.sent \in ImportUsers /\ Import!Room(Import!Own(e))
      /\ Import!RunFrame
      /\ \/ Import!Continued(i, Import!Imported(r, e))
         \/ Import!Continued(i, Import!Past(r, e))
  BY <1>1 DEF Import!Insert, Import!MayInsert, RunTrue, Import!Run
<1>3. RowsMove /\ rows'[Import!Own(e)].content = "local"
  BY <1>2, OwnIsId, InsertedMoves DEF ImportInv
<1>4. e \in held
  BY <1>1, <1>3 DEF Import!Holds
<1>5. RunsMove /\ UNCHANGED <<conflicts, deciding, step>>
  <2>1. CASE Import!Continued(i, Import!Imported(r, e))
    BY <1>1, <1>4, <2>1, ImportedTrue, ContinuedMoves
  <2>2. CASE Import!Continued(i, Import!Past(r, e))
    BY <1>1, <2>2, PastTrue, ContinuedMoves
  <2> QED
    BY <1>2, <2>1, <2>2
<1> QED
  BY <1>2, <1>3, <1>5, RunFrameMoves

LEMMA InsertRefusedStep ==
  ASSUME ImportBounds, ImportInv, catalog' = catalog,
         NEW i \in Runs, NEW e \in Import!Entries, Import!InsertRefused(i, e)
  PROVE  ImportMoves
<1>1. PICK r, held :
        /\ r = runs[i] /\ RunTrue(r) /\ r.imported \subseteq r.held
        /\ held = Import!Holds(rows')
  BY TheRun DEF Import!InsertRefused, Import!Waits
<1> DEFINE s == [r EXCEPT !.at = "own"]
<1>2. r \in Import!Run /\ FoundTrue(r.found) /\ OwnTrue(r.own, r.left)
  BY <1>1 DEF RunTrue
<1>3. /\ s \in Import!Run
      /\ s.user = r.user /\ s.plan = r.plan /\ s.left = r.left
      /\ s.found = r.found /\ s.own = r.own
      /\ s.imported = r.imported /\ s.held = r.held
  BY <1>2 DEF Import!Run
<1>4. rows' = rows /\ Import!RunFrame /\ Import!Continued(i, s)
  BY <1>1 DEF Import!InsertRefused
<1> HIDE DEF s
<1>5. RunTrue(s)
  BY <1>1, <1>2, <1>3, RunGoesOn
<1>6. RunsMove /\ UNCHANGED <<conflicts, deciding, step>>
  BY <1>1, <1>3, <1>4, <1>5, ContinuedMoves
<1> QED
  BY <1>4, <1>6, RestMoves, RunFrameMoves

LEMMA AgainOwnStep ==
  ASSUME ImportBounds, ImportInv, catalog' = catalog,
         NEW i \in Runs, NEW e \in Import!Entries, Import!AgainOwn(i, e)
  PROVE  ImportMoves
<1>1. PICK r, held :
        /\ r = runs[i] /\ RunTrue(r) /\ r.imported \subseteq r.held
        /\ held = Import!Holds(rows')
  BY TheRun DEF Import!AgainOwn, Import!Waits
<1>2. PICK own, v :
        own = Import!Read(Import!Own(e)) /\ v = Import!ClassifyOwn(own)
  OBVIOUS
<1> DEFINE s == [r EXCEPT !.at = "copy", !.own = own]
<1>3. /\ rows' = rows /\ Import!RunFrame /\ Import!IsNext(e, r.left)
      /\ \/ v # Absent /\ Import!Continued(i, Import!After(r, e, v))
         \/ Import!Continued(i, s)
  BY <1>1, <1>2 DEF Import!AgainOwn, Import!Waits
<1>4. /\ own \in Import!Seen /\ SeenTrue(own, e)
      /\ v # Absent =>
           /\ VerdictTrue(v, e)
           /\ v.status # "server-unreadable" => e \in held
  BY <1>1, <1>2, <1>3, OwnRead DEF ImportInv
<1>5. RunsMove /\ UNCHANGED <<conflicts, deciding, step>>
  <2>1. CASE v # Absent /\ Import!Continued(i, Import!After(r, e, v))
    <3>1. /\ RunTrue(Import!After(r, e, v))
          /\ Import!After(r, e, v).imported \subseteq Import!After(r, e, v).held \cup held
      BY <1>1, <1>4, <2>1, AfterTrue
    <3> QED
      BY <1>1, <2>1, <3>1, ContinuedMoves
  <2>2. CASE Import!Continued(i, s)
    <3>1. r \in Import!Run /\ FoundTrue(r.found)
      BY <1>1 DEF RunTrue
    <3>2. /\ s \in Import!Run
          /\ s.user = r.user /\ s.plan = r.plan /\ s.left = r.left
          /\ s.found = r.found /\ s.own = own
          /\ s.imported = r.imported /\ s.held = r.held
      BY <1>4, <3>1 DEF Import!Run
    <3> HIDE DEF s
    <3>3. \A f \in Import!Entries : Import!IsNext(f, r.left) => f = e
      BY <1>3, OneIsNext
    <3>4. OwnTrue(s.own, s.left)
      BY <1>4, <3>2, <3>3 DEF OwnTrue
    <3>5. RunTrue(s)
      BY <1>1, <3>1, <3>2, <3>4, RunGoesOn
    <3> QED
      BY <1>1, <2>2, <3>2, <3>5, ContinuedMoves
  <2> QED
    BY <1>3, <2>1, <2>2
<1> QED
  BY <1>3, <1>5, RestMoves, RunFrameMoves

LEMMA AgainCopyStep ==
  ASSUME ImportBounds, ImportInv, catalog' = catalog,
         NEW i \in Runs, NEW e \in Import!Entries, Import!AgainCopy(i, e)
  PROVE  ImportMoves
<1>1. PICK r, held :
        /\ r = runs[i] /\ RunTrue(r) /\ r.imported \subseteq r.held
        /\ held = Import!Holds(rows')
  BY TheRun DEF Import!AgainCopy, Import!Waits
<1>2. PICK v : v = Import!ClassifyCopy(e, r.user, r.own, Import!Read(Import!Copy(e)))
  OBVIOUS
<1>3. /\ rows' = rows /\ Import!RunFrame /\ Import!IsNext(e, r.left)
      /\ Import!Continued(i, Import!After(r, e, v))
  BY <1>1, <1>2 DEF Import!AgainCopy, Import!Waits
<1>4. /\ r.user \in ImportUsers /\ r.own \in Import!Seen /\ SeenTrue(r.own, e)
      /\ e \in catalog => r.user \in ImportAdmins
  BY <1>1, <1>3 DEF RunTrue, OwnTrue, Import!Run, Import!IsNext
<1>5. /\ VerdictTrue(v, e)
      /\ Import!IsImportable(v) \/ e \in held
  BY <1>1, <1>2, <1>3, <1>4, CopyRead DEF ImportInv
<1>6. /\ RunTrue(Import!After(r, e, v))
      /\ Import!After(r, e, v).imported \subseteq Import!After(r, e, v).held \cup held
  BY <1>1, <1>5, AfterTrue
<1>7. RunsMove /\ UNCHANGED <<conflicts, deciding, step>>
  BY <1>1, <1>3, <1>6, ContinuedMoves
<1> QED
  BY <1>3, <1>7, RestMoves, RunFrameMoves

LEMMA RequestFailsStep ==
  ASSUME ImportBounds, ImportInv, catalog' = catalog,
         NEW i \in Runs, NEW e \in Import!Entries, Import!RequestFails(i, e)
  PROVE  ImportMoves
<1>1. PICK r, held :
        /\ r = runs[i] /\ RunTrue(r) /\ r.imported \subseteq r.held
        /\ held = Import!Holds(rows')
  BY TheRun DEF Import!RequestFails, Import!Waits
<1>2. rows' = rows /\ Import!RunFrame /\ Import!Continued(i, Import!Past(r, e))
  BY <1>1 DEF Import!RequestFails
<1>3. RunsMove /\ UNCHANGED <<conflicts, deciding, step>>
  BY <1>1, <1>2, PastTrue, ContinuedMoves
<1> QED
  BY <1>2, <1>3, RestMoves, RunFrameMoves

LEMMA EndRunMoves ==
  ASSUME ImportInv, NEW i \in Runs, NEW found, FoundTrue(found),
         Import!EndRun(i, found)
  PROVE  /\ RunsMove /\ FoundTrue(conflicts') /\ deciding' \in BOOLEAN
         /\ step' = "done"
<1>1. RunsMove
  BY RunSet DEF Import!EndRun
<1> QED
  BY <1>1 DEF Import!EndRun

LEMMA FinishStep ==
  ASSUME ImportBounds, ImportInv, catalog' = catalog,
         NEW i \in Runs, Import!Finish(i)
  PROVE  ImportMoves
<1>1. FoundTrue(runs[i].found)
  BY TheRun DEF Import!Finish, RunTrue
<1>2. /\ RunsMove /\ FoundTrue(conflicts') /\ deciding' \in BOOLEAN
      /\ step' = "done"
  BY <1>1, EndRunMoves DEF Import!Finish
<1> QED
  BY <1>2, RestMoves, WindowTyped
  DEF Import!Finish, Import!RunFrame, ImportMoves, WindowMoves

LEMMA AbortedStep ==
  ASSUME ImportBounds, ImportInv, catalog' = catalog,
         NEW i \in Runs, NEW e \in Import!Entries, Import!Aborted(i, e)
  PROVE  ImportMoves
<1>1. FoundTrue(runs[i].found) /\ FoundTrue(Import!NoConflicts)
  BY TheRun, NothingSeen DEF Import!Aborted, Import!Waits, RunTrue
<1>2. /\ RunsMove /\ FoundTrue(conflicts') /\ deciding' \in BOOLEAN
      /\ step' = "done"
  BY <1>1, EndRunMoves DEF Import!Aborted
<1> QED
  BY <1>2, RestMoves, WindowTyped DEF Import!Aborted, ImportMoves, WindowMoves

-----------------------------------------------------------------------------
(* The choices about conflicts.                                            *)

LEMMA DroppedTrue ==
  ASSUME ImportInv, NEW e \in Import!Entries
  PROVE  FoundTrue(Import!Dropped(e))
<1>1. FoundTrue(conflicts)
  BY DEF ImportInv
<1>2. \/ Import!Dropped(e) = [conflicts EXCEPT ![e] = Absent]
      \/ Import!Dropped(e) =
           [f \in Import!Entries |-> IF Import!IsFirst(f) THEN Absent ELSE conflicts[f]]
  BY DEF Import!Dropped
<1>3. CASE Import!Dropped(e) = [conflicts EXCEPT ![e] = Absent]
  BY <1>1, <1>3 DEF FoundTrue
<1>4. CASE Import!Dropped(e) =
             [f \in Import!Entries |-> IF Import!IsFirst(f) THEN Absent ELSE conflicts[f]]
  BY <1>1, <1>4 DEF FoundTrue
<1> QED
  BY <1>2, <1>3, <1>4

LEMMA ChoiceFrameMoves ==
  ASSUME ImportInv, catalog' = catalog, Import!ChoiceFrame,
         RowsMove, others' = others, user' \in {user, Absent},
         FoundTrue(conflicts'), deciding' \in BOOLEAN, ChoiceMoves
  PROVE  ImportMoves
  BY RestMoves, WindowTyped DEF Import!ChoiceFrame, ImportMoves, WindowMoves

LEMMA KeptServerStep ==
  ASSUME ImportBounds, ImportInv, catalog' = catalog,
         NEW e \in Import!Entries, Import!KeepServer(e)
  PROVE  ImportMoves
  BY DroppedTrue, RestMoves, WindowTyped, ChoiceFrameMoves
  DEF Import!KeepServer, Import!server

LEMMA PostponeStep ==
  ASSUME ImportBounds, ImportInv, catalog' = catalog, Import!Postpone
  PROVE  ImportMoves
<1>1. conflicts' =
        [e \in Import!Entries |-> IF e \in catalog THEN conflicts[e] ELSE Absent]
  BY DEF Import!Postpone
<1>2. FoundTrue(conflicts')
  BY <1>1 DEF ImportInv, FoundTrue
<1> QED
  BY <1>2, RestMoves, ChoiceFrameMoves DEF Import!Postpone, Import!server

LEMMA ChooseStep ==
  ASSUME ImportBounds, ImportInv, catalog' = catalog,
         NEW e \in Import!Entries, NEW pick \in {"mine", "copy"},
         Import!Choose(e, pick)
  PROVE  ImportMoves
<1>1. PICK conflict :
        /\ conflict = conflicts[e] /\ conflict \in Import!Conflict
        /\ SeenTrue(conflict.server, e)
  BY DEF Import!Choose, Import!Shown, Import!Waiting, ImportInv, FoundTrue
<1> DEFINE c == [user |-> user, sent |-> session, entry |-> e,
                 conflict |-> conflict, pick |-> pick, at |-> "write"]
<1>2. user \in ImportUsers /\ session \in ImportUsers \cup {Absent}
  BY WindowTyped DEF Import!Choose, Import!Shown
<1>3. c \in Import!Choice /\ c.conflict = conflict /\ c.entry = e
  BY <1>1, <1>2 DEF Import!Choice
<1>4. choice' = c
  BY <1>1 DEF Import!Choose
<1> HIDE DEF c
<1>5. ChoiceMoves
  BY <1>1, <1>3, <1>4 DEF ChoiceMoves, ChoiceTrue
<1> QED
  BY <1>5, RestMoves, WindowTyped, ChoiceFrameMoves DEF Import!Choose, Import!server

LEMMA TheChoice ==
  ASSUME ImportInv, choice # Absent
  PROVE  /\ ChoiceTrue(choice)
         /\ choice.entry \in Import!Entries /\ choice.user \in ImportUsers
         /\ choice.sent \in ImportUsers \cup {Absent}
         /\ choice.conflict.server \in Import!Seen
         /\ Import!Written \in Import!Ids
<1>1. ChoiceTrue(choice)
  BY DEF ImportInv
<1>2. /\ choice.entry \in Import!Entries /\ choice.user \in ImportUsers
      /\ choice.sent \in ImportUsers \cup {Absent}
      /\ choice.conflict.server \in Import!Seen
  BY <1>1 DEF ChoiceTrue, Import!Choice, Import!Conflict
<1> QED
  BY <1>1, <1>2, OwnIsId DEF Import!Written

LEMMA CarriedStep ==
  ASSUME ImportBounds, ImportInv, catalog' = catalog, Import!Carried
  PROVE  ImportMoves
<1>1. /\ choice # Absent /\ choice.entry \in Import!Entries
      /\ choice.sent \in ImportUsers /\ Import!Written \in Import!Ids
  BY TheChoice DEF Import!Carried
<1>2. /\ Import!Room(Import!Written)
      /\ \/ rows' = Import!Replaced(Import!Written)
         \/ rows' = Import!Inserted(Import!Written, choice.sent)
  BY DEF Import!Carried
<1>3. RowsMove
  BY <1>1, <1>2, InsertedMoves, ReplacedMoves DEF ImportInv
<1>4. FoundTrue(conflicts')
  BY <1>1, DroppedTrue, RestMoves DEF Import!Carried
<1> QED
  BY <1>3, <1>4, RestMoves, WindowTyped, ChoiceFrameMoves DEF Import!Carried

LEMMA ChangedStep ==
  ASSUME ImportBounds, ImportInv, catalog' = catalog, Import!Changed
  PROVE  ImportMoves
<1>1. PICK c : c = choice /\ ChoiceTrue(c)
  BY TheChoice DEF Import!Changed
<1> DEFINE d == [c EXCEPT !.at = "refresh"]
<1>2. d \in Import!Choice /\ d.conflict = c.conflict /\ d.entry = c.entry
  BY <1>1 DEF ChoiceTrue, Import!Choice
<1>3. choice' = d
  BY <1>1 DEF Import!Changed
<1> HIDE DEF d
<1>4. ChoiceMoves
  BY <1>1, <1>2, <1>3 DEF ChoiceMoves, ChoiceTrue
<1> QED
  BY <1>4, RestMoves, WindowTyped, ChoiceFrameMoves DEF Import!Changed, Import!server

LEMMA RefreshedStep ==
  ASSUME ImportBounds, ImportInv, catalog' = catalog, Import!Refreshed
  PROVE  ImportMoves
<1>1. PICK e, read :
        /\ e = choice.entry /\ e \in Import!Entries
        /\ read = Import!Read(Import!Own(e))
        /\ read \in Import!Seen /\ SeenTrue(read, e)
  BY TheChoice, OwnRead DEF Import!Refreshed, ImportInv
<1>2. PICK now :
        /\ now = IF read = Absent \/ read.content = "unreadable" THEN Absent ELSE read
        /\ now \in Import!Seen /\ SeenTrue(now, e)
  BY <1>1 DEF Import!Seen, SeenTrue
<1>3. PICK replace \in BOOLEAN :
        replace = (now = Absent \/ Import!MayReplace(choice.user, e, now))
  BY DEF Import!MayReplace
<1>4. PICK c : /\ c = [server |-> now, canReplace |-> replace]
               /\ c \in Import!Conflict /\ SeenTrue(c.server, e)
  BY <1>2, ConflictTyped
<1>5. \/ conflicts' = [conflicts EXCEPT ![e] = c]
      \/ conflicts' = conflicts
      \/ conflicts' = [Import!Dropped(e) EXCEPT ![e] = c]
  BY <1>1, <1>2, <1>3, <1>4 DEF Import!Refreshed
<1>6. FoundTrue(conflicts) /\ FoundTrue(Import!Dropped(e))
  BY <1>1, DroppedTrue DEF ImportInv
<1>7. FoundTrue(conflicts')
  BY <1>1, <1>4, <1>5, <1>6, FoundAdds DEF FoundWith
<1> QED
  BY <1>7, RestMoves, WindowTyped, ChoiceFrameMoves DEF Import!Refreshed, Import!server

LEMMA ChoiceEnds ==
  ASSUME ImportBounds, ImportInv, catalog' = catalog,
         Import!CopyExists \/ Import!ChoiceFails \/ Import!ChoiceUnauthenticated
  PROVE  ImportMoves
<1>1. CASE Import!CopyExists
  BY <1>1, TheChoice, DroppedTrue, RestMoves, WindowTyped, ChoiceFrameMoves
  DEF Import!CopyExists, Import!server
<1>2. CASE Import!ChoiceFails
  BY <1>2, RestMoves, WindowTyped, ChoiceFrameMoves
  DEF Import!ChoiceFails, Import!server
<1>3. CASE Import!ChoiceUnauthenticated
  BY <1>3, RestMoves, WindowTyped
  DEF Import!ChoiceUnauthenticated, Import!server, ImportMoves, WindowMoves
<1> QED
  BY <1>1, <1>2, <1>3

-----------------------------------------------------------------------------

LEMMA ImportStart ==
  ASSUME ImportBounds, Import!Init
  PROVE  ImportInv
<1>1. FoundTrue(conflicts)
  BY NothingSeen DEF Import!Init
<1>2. Import!TypeOK
  <2>1. rows \in [Import!Ids -> Import!Row]
    BY DEF Import!Init, Import!Row, Import!Contents, ImportBounds
  <2>2. catalog \subseteq Import!Entries /\ others \in 0 .. MaxOthers
    BY DEF Import!Init, ImportBounds
  <2>3. conflicts \in [Import!Entries -> Import!Conflict \cup {Absent}]
    BY <1>1 DEF FoundTrue
  <2> QED
    BY <2>1, <2>2, <2>3 DEF Import!Init, Import!TypeOK
<1> QED
  BY <1>1, <1>2 DEF Import!Init, ImportInv, ReportIsTrue, Import!ReportIsTrue

\* The inductive step.
LEMMA ImportNext ==
  ASSUME ImportBounds, ImportInv, Import!Next
  PROVE  ImportInv'
<1>1. catalog' = catalog
  BY DEF Import!Next
<1>2. CASE Import!OthersStep
  BY <1>1, <1>2, OtherWritesStep, OtherDeletesStep, ImportMovesKeep
  DEF Import!OthersStep
<1>3. CASE Import!SessionStep
  BY <1>1, <1>3, SessionStepMoves, ImportMovesKeep
<1>4. CASE Import!Load \/ Import!Asked
  BY <1>1, <1>4, LoadStep, ReopenStep, CloseStep, PostponeStep, StartStep,
     KeptServerStep, ChooseStep, ImportMovesKeep DEF Import!Asked
<1>5. CASE Import!ChoiceStep
  BY <1>1, <1>5, CarriedStep, ChangedStep, RefreshedStep, ChoiceEnds,
     ImportMovesKeep DEF Import!ChoiceStep
<1>6. CASE \E i \in Planners : Import!Compares(i)
  BY <1>1, <1>6, CompareStep, CompareFailsStep, ImportMovesKeep
  DEF Import!Compares
<1>7. CASE \E i \in Runs : Import!RunStep(i)
  BY <1>1, <1>7, HandOverStep, InsertStep, InsertRefusedStep, AgainOwnStep,
     AgainCopyStep, RequestFailsStep, FinishStep, AbortedStep, ImportMovesKeep
  DEF Import!RunStep
<1> QED
  BY <1>2, <1>3, <1>4, <1>5, <1>6, <1>7 DEF Import!Next

LEMMA ImportKept ==
  ASSUME ImportBounds, ImportInv, UNCHANGED importVars
  PROVE  ImportInv'
<1>1. ImportMoves
  BY RestMoves, WindowTyped DEF importVars, ImportMoves, WindowMoves
<1> QED
  BY <1>1, ImportMovesKeep

-----------------------------------------------------------------------------
(* What an import replaces.                                                *)

ReplacesAsked == \A i \in Import!Ids :
  Import!Live(i) /\ rows'[i] # rows[i] /\ others' = others =>
    /\ choice # Absent /\ choice.pick = "mine"
    /\ i = Import!Own(choice.entry)
    /\ rows[i] = choice.conflict.server
    /\ rows'[i].creator = rows[i].creator

LEMMA WrittenOnly ==
  ASSUME Import!TypeOK, NEW i \in Import!Ids, NEW j \in Import!Ids, NEW u,
         rows' = Import!Inserted(i, u), rows'[j] # rows[j]
  PROVE  j = i
  BY DEF Import!TypeOK, Import!Inserted

LEMMA ImportReplacesAsked ==
  ASSUME ImportBounds, ImportInv, Import!Next
  PROVE  ReplacesAsked
<1> SUFFICES ASSUME NEW i \in Import!Ids, Import!Live(i), rows'[i] # rows[i],
                    others' = others
             PROVE  /\ choice # Absent /\ choice.pick = "mine"
                    /\ i = Import!Own(choice.entry)
                    /\ rows[i] = choice.conflict.server
                    /\ rows'[i].creator = rows[i].creator
  BY DEF ReplacesAsked
<1>1. Import!TypeOK /\ others \in Nat /\ rows' # rows
  BY DEF ImportInv, Import!TypeOK, ImportBounds
<1>2. ~Import!OthersStep
  <2>1. Import!OthersStep => others' = others + 1
    BY DEF Import!OthersStep, Import!OtherWrites, Import!OtherDeletes
  <2> QED
    BY <1>1, <2>1
<1>3. ~Import!SessionStep /\ ~Import!Load /\ ~Import!Asked
  BY <1>1 DEF Import!SessionStep, Import!SignIn, Import!SignOut, Import!SessionLost,
              Import!Expire, Import!Load, Import!Asked, Import!Reopen, Import!Close,
              Import!Postpone, Import!Start, Import!KeepServer, Import!Choose,
              Import!server
<1>4. ~(\E j \in Planners : Import!Compares(j))
  BY <1>1 DEF Import!Compares, Import!Compare, Import!CompareFails, Import!server
<1>5. ASSUME NEW r \in Runs, Import!RunStep(r)
      PROVE  FALSE
  <2>1. PICK e \in Import!Entries : Import!Insert(r, e)
    BY <1>1, <1>5 DEF Import!RunStep, Import!HandOver, Import!InsertRefused,
       Import!AgainOwn, Import!AgainCopy, Import!RequestFails, Import!Finish,
       Import!Aborted, Import!server
  <2>2. /\ rows' = Import!Inserted(Import!Own(e), runs[r].sent)
        /\ ~Import!Live(Import!Own(e))
    BY <2>1 DEF Import!Insert
  <2>3. i = Import!Own(e)
    BY <1>1, <2>2, OwnIsId, WrittenOnly
  <2> QED
    BY <2>2, <2>3
<1>6. Import!Carried
  BY <1>1, <1>2, <1>3, <1>4, <1>5
  DEF Import!Next, Import!ChoiceStep, Import!CopyExists, Import!Changed,
      Import!Refreshed, Import!ChoiceFails, Import!ChoiceUnauthenticated,
      Import!server
<1>7. /\ choice # Absent /\ ChoiceTrue(choice) /\ choice.entry \in Import!Entries
      /\ Import!Written \in Import!Ids
  BY <1>6, TheChoice DEF Import!Carried
<1>8. /\ Import!Replaces /\ Import!Matches /\ Import!Room(Import!Written)
      /\ rows' = Import!Replaced(Import!Written)
  <2>1. ASSUME ~Import!Live(Import!Written),
               rows' = Import!Inserted(Import!Written, choice.sent)
        PROVE  FALSE
    BY <1>1, <1>7, <2>1, WrittenOnly
  <2> QED
    BY <1>6, <2>1 DEF Import!Carried
<1>9. i = Import!Written /\ rows'[i].creator = rows[i].creator
  BY <1>1, <1>7, <1>8, ReplacedMoves
<1>10. choice.pick = "mine" /\ Import!Written = Import!Own(choice.entry)
  BY <1>8 DEF Import!Replaces, Import!Written
<1>11. rows[i] = choice.conflict.server
  BY <1>7, <1>8, <1>9, <1>10 DEF Import!Matches, ChoiceTrue, SeenTrue
<1> QED
  BY <1>7, <1>9, <1>10, <1>11

-----------------------------------------------------------------------------
(* The composed specification.                                             *)

PlansInv == WindowsInv /\ SyncInv /\ ImportInv

LEMMA BoundsHold == PlansBounds /\ SyncBounds /\ ImportBounds
  BY ConstantsAssumption, WindowsAssumption, ImportBoundsHold
  DEF PlansBounds, SyncBounds, Windows!LocalPlansAssumption

LEMMA PlansStart ==
  ASSUME PlansInit
  PROVE  PlansInv
  BY BoundsHold, WindowsStart, SyncStart, ImportStart DEF PlansInit, PlansInv

LEMMA PlansSteps ==
  ASSUME PlansInv, [PlansNext]_<<part, vars, windowVars, importVars>>
  PROVE  PlansInv' /\ [Next]_vars /\ [Import!Next]_(Import!vars)
<1>1. \/ Next /\ UNCHANGED windowVars /\ UNCHANGED importVars
      \/ Windows!Next /\ UNCHANGED vars /\ UNCHANGED importVars
      \/ Import!Next /\ UNCHANGED vars /\ UNCHANGED windowVars
      \/ UNCHANGED vars /\ UNCHANGED windowVars /\ UNCHANGED importVars
  BY DEF PlansNext
<1>2. WindowsInv'
  BY <1>1, BoundsHold, WindowsNext, WindowsKept DEF PlansInv
<1>3. SyncInv'
  BY <1>1, BoundsHold, SyncNext, SyncKept DEF PlansInv
<1>4. ImportInv'
  BY <1>1, BoundsHold, ImportNext, ImportKept DEF PlansInv
<1>5. UNCHANGED importVars => UNCHANGED Import!vars
  BY DEF importVars, Import!vars, Import!server, Import!view, Import!tasks
<1> QED
  BY <1>1, <1>2, <1>3, <1>4, <1>5 DEF PlansInv

\* The inductive invariant of the windows, the publication and the import.
THEOREM PlansInvariant == PlansSpec => []PlansInv
<1>1. PlansInit => PlansInv
  BY PlansStart
<1>2. PlansInv /\ [PlansNext]_<<part, vars, windowVars, importVars>> => PlansInv'
  BY PlansSteps
<1> QED
  BY <1>1, <1>2, PTL DEF PlansSpec

\* A window that saves, upgrades or removes a plan by the version it knows does
\* so to the very record it read (plannerRecordStorage.ts), for any number of
\* plans and windows.
THEOREM PlansNameRecords == PlansSpec => []VersionNamesRecord
<1>1. PlansInv => VersionNamesRecord
  BY DEF PlansInv, WindowsInv
<1> QED
  BY <1>1, PlansInvariant, PTL

\* However many windows migrate the saved pallets at once, none is marked
\* before its plan was stored (projectRepository.ts).
THEOREM PlansMigratePallets == PlansSpec => []MarkedWereMade
<1>1. PlansInv => MarkedWereMade
  BY DEF PlansInv, WindowsInv
<1> QED
  BY <1>1, PlansInvariant, PTL

\* Every link a browser keeps, or is about to, names a state its record really
\* had, whoever wrote since (ADR 0010).
THEOREM PlansLinkTruly == PlansSpec => []LinksAreTrue
<1>1. PlansInv => LinksAreTrue
  BY SyncInvLinks DEF PlansInv
<1> QED
  BY <1>1, PlansInvariant, PTL

\* A run of the publication replaces on the server only the state its account
\* accepted before (ADR 0010: "No field merge or silent overwrite").
THEOREM PlansOverwriteNothing == PlansSpec => NoSilentOverwrite
<1>1. PlansInv /\ [PlansNext]_<<part, vars, windowVars, importVars>>
        => [OverwritesAccepted]_vars
  BY PlansSteps, BoundsHold, RunOverwritesAccepted DEF PlansInv
<1>2. PlansSpec => [][OverwritesAccepted]_vars
  BY <1>1, PlansInvariant, PTL DEF PlansSpec
<1> QED
  BY <1>2, PTL DEF NoSilentOverwrite, OverwritesAccepted

\* The clean-up after a publication removes the payload that was compared, and
\* only what the server holds or held or the user rejected.
THEOREM PlansRemovePublished == PlansSpec => OnlyPublishedPayloadRemoved
<1>1. PlansInv /\ [PlansNext]_<<part, vars, windowVars, importVars>>
        => [RemovesPublished]_vars
  BY PlansSteps, BoundsHold, ConfirmRemovesPublished DEF PlansInv
<1>2. PlansSpec => [][RemovesPublished]_vars
  BY <1>1, PlansInvariant, PTL DEF PlansSpec
<1> QED
  BY <1>2, PTL DEF OnlyPublishedPayloadRemoved, RemovesPublished

\* The storage, the windows, the dialogs and the server hold what their types
\* allow, however many there are.
THEOREM PlansTyped == PlansSpec => []PlansTypeOK
<1>1. PlansInv => PlansTypeOK
  BY SyncInvTyped DEF PlansInv, WindowsInv, ImportInv, PlansTypeOK
<1> QED
  BY <1>1, PlansInvariant, PTL

\* For any number of entries, comparisons and runs, plans or catalogue entries:
\* what a run reports as imported was on the server while it was under way
\* (localImportModel.ts).
THEOREM PlansReportTruly == PlansSpec => []ReportIsTrue
<1>1. PlansInv => ReportIsTrue
  BY DEF PlansInv, ImportInv
<1> QED
  BY <1>1, PlansInvariant, PTL

\* An import replaces a record only for a choice, and only the very record the
\* user saw when he made it (ADR 0007).
THEOREM PlansAskFirst == PlansSpec => ImportAsksFirst
<1>1. PlansInv /\ [PlansNext]_<<part, vars, windowVars, importVars>>
        => [ReplacesAsked]_(Import!vars)
  BY PlansSteps, BoundsHold, ImportReplacesAsked DEF PlansInv
<1>2. PlansSpec => [][ReplacesAsked]_(Import!vars)
  BY <1>1, PlansInvariant, PTL DEF PlansSpec
<1> QED
  BY <1>2, PTL DEF ImportAsksFirst, Import!NoSilentOverwrite, ReplacesAsked
=============================================================================
