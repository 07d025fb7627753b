----------------------------- MODULE LocalPlans -----------------------------
(***************************************************************************)
(* Plans kept in this browser's IndexedDB, in local mode or as browser     *)
(* plans of server mode: the storage with its versions                     *)
(* (plannerRecordStorage.ts), the repository that upgrades, quarantines    *)
(* and migrates while it reads (projectRepository.ts), and the windows     *)
(* that list, open, save and remove plans (workspaceRepositoryModel.ts,    *)
(* PlannerProjectWorkspace.tsx).  Every step is one IndexedDB transaction; *)
(* a window may be closed between any two of them.                         *)
(*                                                                         *)
(* Of a plan only its content, a number, and the schema it is stored in    *)
(* are kept.  What synchronisation does with browser plans is BrowserSync. *)
(***************************************************************************)
EXTENDS Naturals, FiniteSets

CONSTANTS
  Tabs,
  Plans,         \* a saved pallet has the id of the plan it becomes
  Absent,
  MaxVersion,    \* bound on the versions of a plan
  MaxContent     \* bound on the contents users make

LocalPlansAssumption ==
  /\ IsFiniteSet(Plans) /\ Absent \notin Plans
  /\ MaxVersion \in Nat /\ MaxContent \in Nat

VARIABLES
  mode,          \* "local", or "browser" for browser plans in server mode
  pallets,       \* the store of the time before projects: never changed
  stored, versions,    \* projects and record-versions
  marked,        \* legacy-migrations
  quarantine,    \* project-quarantine
  contents,      \* the contents made so far
  phase,         \* of each window
  migrating,     \* its pallets left to migrate, and where it is with one
  rows,          \* the plans it listed and has not looked at yet
  reading,       \* the plan getProject read and has to upgrade
  opened, known, \* the open plan, and what the window knows of the plans
  made           \* ghost: pallets whose plan was stored at some time

storage == <<pallets, stored, versions, marked, quarantine, contents, made>>
window == <<phase, migrating, rows, reading, opened, known>>
vars == <<mode, pallets, stored, versions, marked, quarantine, contents, made,
          phase, migrating, rows, reading, opened, known>>

Record == [content : 0 .. MaxContent, schema : {"old", "new", "broken"}]
Known == [record : Record, version : 1 .. MaxVersion]

Upgraded(record) == [record EXCEPT !.schema = "new"]

-----------------------------------------------------------------------------
(* The storage *)

\* A record from before versions counts as version 1.
Current(p) ==
  IF stored[p] = Absent THEN 0
  ELSE IF versions[p] = 0 THEN 1 ELSE versions[p]

\* A deleted record leaves its version, so that a recreated one goes on
\* counting.
NextVersion(p) == (IF stored[p] = Absent THEN versions[p] ELSE Current(p)) + 1

Write(p, record) ==
  /\ NextVersion(p) <= MaxVersion
  /\ stored' = [stored EXCEPT ![p] = record]
  /\ versions' = [versions EXCEPT ![p] = NextVersion(p)]

\* Mutant: the deleted record leaves no version behind.
EraseWithVersion(p, version) ==
  /\ version <= MaxVersion
  /\ stored' = [stored EXCEPT ![p] = Absent]
  /\ versions' = [versions EXCEPT ![p] = 0]

Erase(p, version) ==
  /\ version <= MaxVersion
  /\ stored' = [stored EXCEPT ![p] = Absent]
  /\ versions' = [versions EXCEPT ![p] = version]

-----------------------------------------------------------------------------

Idle == [left |-> {}, at |-> "none", pallet |-> Absent]

TypeOK ==
  /\ mode \in {"local", "browser"}
  /\ pallets \in [Plans -> {"none", "good", "broken"}]
  /\ stored \in [Plans -> Record \cup {Absent}]
  /\ versions \in [Plans -> 0 .. MaxVersion]
  /\ marked \subseteq Plans /\ quarantine \subseteq Plans /\ made \subseteq Plans
  /\ contents \in 0 .. MaxContent
  /\ phase \in [Tabs -> {"closed", "migrating", "listing", "ready"}]
  /\ migrating \in [Tabs -> [left : SUBSET Plans, pallet : Plans \cup {Absent},
                             at : {"none", "marker", "project", "put", "mark"}]]
  /\ rows \in [Tabs -> SUBSET (Plans \X Record)]
  /\ reading \in [Tabs -> Plans \cup {Absent}]
  /\ opened \in [Tabs -> Plans \cup {Absent}]
  /\ known \in [Tabs -> [Plans -> Known \cup {Absent}]]

Init ==
  /\ mode \in {"local", "browser"}
  /\ pallets \in [Plans -> IF mode = "local" THEN {"none", "good", "broken"}
                                             ELSE {"none"}]
  /\ stored \in [Plans -> [content : {0}, schema : {"old", "broken"}]
                          \cup {Absent}]
  /\ versions = [p \in Plans |-> 0]
  /\ marked = {} /\ quarantine = {} /\ contents = 0
  /\ made = {p \in Plans : stored[p] # Absent}
  /\ phase = [t \in Tabs |-> "closed"]
  /\ migrating = [t \in Tabs |-> Idle]
  /\ rows = [t \in Tabs |-> {}]
  /\ reading = [t \in Tabs |-> Absent]
  /\ opened = [t \in Tabs |-> Absent]
  /\ known = [t \in Tabs |-> [p \in Plans |-> Absent]]

\* migrateSavedPalletStore lists the pallets; it does nothing in server mode.
Mount(t) ==
  /\ phase[t] = "closed"
  /\ phase' = [phase EXCEPT ![t] = "migrating"]
  /\ migrating' = [migrating EXCEPT ![t].left =
                     {p \in Plans : pallets[p] # "none"}]
  /\ UNCHANGED <<mode, storage, rows, reading, opened, known>>

\* What a window has in memory goes with it.
CloseTab(t) ==
  /\ phase[t] # "closed"
  /\ phase' = [phase EXCEPT ![t] = "closed"]
  /\ migrating' = [migrating EXCEPT ![t] = Idle]
  /\ rows' = [rows EXCEPT ![t] = {}]
  /\ reading' = [reading EXCEPT ![t] = Absent]
  /\ opened' = [opened EXCEPT ![t] = Absent]
  /\ known' = [known EXCEPT ![t] = [p \in Plans |-> Absent]]
  /\ UNCHANGED <<mode, storage>>

-----------------------------------------------------------------------------
(* Migrating the saved pallets *)

\* The next pallet: one that cannot be recovered is quarantined and skipped.
TakePallet(t) ==
  /\ phase[t] = "migrating" /\ migrating[t].at = "none"
  /\ \E p \in migrating[t].left :
       \/ /\ pallets[p] = "good"
          /\ migrating' = [migrating EXCEPT ![t] =
               [left |-> @.left \ {p}, at |-> "marker", pallet |-> p]]
          /\ UNCHANGED quarantine
       \/ /\ pallets[p] = "broken"
          /\ migrating' = [migrating EXCEPT ![t].left = @ \ {p}]
          /\ quarantine' = quarantine \cup {p}
  /\ UNCHANGED <<mode, pallets, stored, versions, marked, contents, made, phase,
                 rows, reading, opened, known>>

MigrationAt(t, at, next) ==
  /\ migrating[t].at = at
  /\ migrating' = [migrating EXCEPT ![t].at = next,
                     ![t].pallet = IF next = "none" THEN Absent ELSE @]
  /\ UNCHANGED <<mode, pallets, quarantine, contents, phase, rows, reading,
                 opened, known>>

WasMigrated(t) ==
  /\ MigrationAt(t, "marker",
       IF migrating[t].pallet \in marked THEN "none" ELSE "project")
  /\ UNCHANGED <<stored, versions, marked, made>>

\* Mutant: the pallet is marked before its plan is put.
MarkBeforePut(t) ==
  /\ MigrationAt(t, "project",
       IF stored[migrating[t].pallet] # Absent THEN "mark" ELSE "put")
  /\ marked' = marked \cup {migrating[t].pallet}
  /\ UNCHANGED <<stored, versions, made>>

\* A plan that is there is left alone and only marked.
LookForProject(t) ==
  /\ MigrationAt(t, "project",
       IF stored[migrating[t].pallet] # Absent THEN "mark" ELSE "put")
  /\ UNCHANGED <<stored, versions, marked, made>>

PutProject(t) ==
  /\ MigrationAt(t, "put", "mark")
  /\ Write(migrating[t].pallet, [content |-> 0, schema |-> "new"])
  /\ made' = made \cup {migrating[t].pallet}
  /\ UNCHANGED marked

MarkMigrated(t) ==
  /\ MigrationAt(t, "mark", "none")
  /\ marked' = marked \cup {migrating[t].pallet}
  /\ UNCHANGED <<stored, versions, made>>

\* The list is loaded only when the migration is over, or failed.
Migrated(t) ==
  /\ phase[t] = "migrating" /\ migrating[t] = Idle
  /\ phase' = [phase EXCEPT ![t] = "ready"]
  /\ UNCHANGED <<mode, storage, migrating, rows, reading, opened, known>>

-----------------------------------------------------------------------------
(* Listing *)

ListProjects(t) ==
  /\ phase[t] = "ready" /\ reading[t] = Absent
  /\ phase' = [phase EXCEPT ![t] = "listing"]
  /\ rows' = [rows EXCEPT ![t] =
                {<<p, stored[p]>> : p \in {q \in Plans : stored[q] # Absent}}]
  /\ UNCHANGED <<mode, storage, migrating, reading, opened, known>>

\* An upgraded plan is written back as it was listed, without a version.
PersistUpgrade(t, row) ==
  /\ row[2].schema = "old"
  /\ Write(row[1], Upgraded(row[2]))
  /\ UNCHANGED quarantine

Quarantine(row) ==
  /\ row[2].schema = "broken"
  /\ quarantine' = quarantine \cup {row[1]}
  /\ UNCHANGED <<stored, versions>>

LookAtRow(t) ==
  /\ \E row \in rows[t] :
       /\ rows' = [rows EXCEPT ![t] = @ \ {row}]
       /\ \/ PersistUpgrade(t, row)
          \/ Quarantine(row)
          \/ row[2].schema = "new" /\ UNCHANGED <<stored, versions, quarantine>>
  /\ UNCHANGED <<mode, pallets, marked, contents, made, phase, migrating,
                 reading, opened, known>>

Listed(t) ==
  /\ phase[t] = "listing" /\ rows[t] = {}
  /\ phase' = [phase EXCEPT ![t] = "ready"]
  /\ UNCHANGED <<mode, storage, migrating, rows, reading, opened, known>>

-----------------------------------------------------------------------------
(* One plan *)

Usable(t) == phase[t] \in {"listing", "ready"} /\ reading[t] = Absent

Learns(t, p, record, version) ==
  known' = [known EXCEPT ![t][p] = [record |-> record, version |-> version]]

\* getProject reads the plan with its version; one in an old schema has still
\* to be written back. One that is gone or cannot be read does not open.
Open(t) ==
  /\ Usable(t)
  /\ \E p \in Plans :
       \/ /\ stored[p] # Absent /\ stored[p].schema = "new"
          /\ opened' = [opened EXCEPT ![t] = p]
          /\ Learns(t, p, stored[p], Current(p))
          /\ UNCHANGED <<reading, quarantine>>
       \/ /\ stored[p] # Absent /\ stored[p].schema = "old"
          /\ opened' = [opened EXCEPT ![t] = Absent]
          /\ reading' = [reading EXCEPT ![t] = p]
          /\ Learns(t, p, stored[p], Current(p))
          /\ UNCHANGED quarantine
       \/ /\ stored[p] # Absent => stored[p].schema = "broken"
          /\ opened' = [opened EXCEPT ![t] = Absent]
          /\ known' = [known EXCEPT ![t][p] = Absent]
          /\ quarantine' = quarantine \cup (IF stored[p] = Absent THEN {} ELSE {p})
          /\ UNCHANGED reading
  /\ UNCHANGED <<mode, pallets, stored, versions, marked, contents, made, phase,
                 migrating, rows>>

\* The write back names the version that was read; if it is refused, the plan
\* does not open and nothing is known of it.
UpgradeOpened(t) ==
  LET p == reading[t] IN
  /\ p # Absent
  /\ reading' = [reading EXCEPT ![t] = Absent]
  /\ \/ /\ Current(p) = known[t][p].version
        /\ Write(p, Upgraded(known[t][p].record))
        /\ opened' = [opened EXCEPT ![t] = p]
        /\ Learns(t, p, Upgraded(known[t][p].record), NextVersion(p))
     \/ /\ Current(p) # known[t][p].version
        /\ known' = [known EXCEPT ![t][p] = Absent]
        /\ UNCHANGED <<stored, versions, opened>>
  /\ UNCHANGED <<mode, pallets, marked, quarantine, contents, made, phase,
                 migrating, rows>>

ExpectedIsStored(t, p) ==
  known[t][p] # Absent /\ known[t][p].version = Current(p)

\* The open plan is edited and saved: against the version the window knows,
\* or in local mode whatever is stored.
Save(t) ==
  LET p == opened[t]
      record == [content |-> contents + 1, schema |-> "new"] IN
  /\ Usable(t) /\ p # Absent /\ contents < MaxContent
  /\ mode = "browser" => ExpectedIsStored(t, p)
  /\ Write(p, record)
  /\ contents' = contents + 1
  /\ Learns(t, p, record, NextVersion(p))
  /\ UNCHANGED <<mode, pallets, marked, quarantine, made, phase, migrating, rows,
                 reading, opened>>

\* A browser plan this window never loaded is read before it is removed: one
\* in an old schema is upgraded by that, and one that cannot be read has no
\* version to remove.
Remove(t) ==
  /\ Usable(t)
  /\ \E p \in Plans :
       /\ stored[p] # Absent
       /\ IF mode = "browser" /\ known[t][p] = Absent
          THEN /\ stored[p].schema # "broken"
               /\ Erase(p, IF stored[p].schema = "old" THEN NextVersion(p)
                                                       ELSE Current(p))
          ELSE /\ mode = "browser" => ExpectedIsStored(t, p)
               /\ Erase(p, Current(p))
       /\ known' = [known EXCEPT ![t][p] = Absent]
       /\ opened' = [opened EXCEPT ![t] = IF @ = p THEN Absent ELSE @]
  /\ UNCHANGED <<mode, pallets, marked, quarantine, contents, made, phase,
                 migrating, rows, reading>>

-----------------------------------------------------------------------------

Next == \E t \in Tabs :
  \/ Mount(t) \/ CloseTab(t)
  \/ TakePallet(t) \/ WasMigrated(t) \/ LookForProject(t) \/ PutProject(t)
  \/ MarkMigrated(t) \/ Migrated(t)
  \/ ListProjects(t) \/ LookAtRow(t) \/ Listed(t)
  \/ Open(t) \/ UpgradeOpened(t) \/ Save(t) \/ Remove(t)

Spec == Init /\ [][Next]_vars

-----------------------------------------------------------------------------
(* Properties *)

\* Removing and migrating, listing and saving in other windows go on while a
\* window has a plan open.  The version it knows names the very record it
\* read, also after that was deleted and recreated: what it saves, upgrades or
\* removes by that version is what its user saw.
VersionNamesRecord == \A t \in Tabs : \A p \in Plans :
  known[t][p] # Absent /\ Current(p) = known[t][p].version =>
    stored[p] = known[t][p].record

\* A pallet is marked as migrated only once its plan was stored, wherever a
\* window is closed: a mark without it would hide the pallet for good.
MarkedWereMade == marked \subseteq made
==============================================================================
