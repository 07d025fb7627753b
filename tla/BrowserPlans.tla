----------------------------- MODULE BrowserPlans -----------------------------
(***************************************************************************)
(* The plans a browser keeps and what becomes of them: the storage and the *)
(* windows that work on it (LocalPlans), the import of local plans into    *)
(* the server (LocalImport) and the publication of browser plans           *)
(* (BrowserSync).  Which of them a browser meets depends on the mode and   *)
(* on the user's choice; they share no state here, so each behaviour moves *)
(* one of them only.                                                       *)
(***************************************************************************)
EXTENDS BrowserSync

CONSTANTS
  Plans, MaxContent,                           \* of LocalPlans
  Order, ImportUsers, ImportAdmins,   \* of LocalImport
  Planners, Runs, MaxOthers

VARIABLES
  part,   \* the component that moves
  mode, pallets, stored, versions, marked, quarantine, contents, windows,
  migrating, listed, reading, opened, known, made,
  catalog, rows, others, session, user, inventory, planners, planning, plan, step, runs,
  conflicts, deciding, choice

Windows == INSTANCE LocalPlans
  WITH MaxVersion <- MaxLocal + 2, phase <- windows, rows <- listed

Import == INSTANCE LocalImport
  WITH Users <- ImportUsers, Admins <- ImportAdmins, MaxVersion <- MaxServer,
       None <- Absent, phase <- step

windowVars ==
  <<mode, pallets, stored, versions, marked, quarantine, contents, windows,
    migrating, listed, reading, opened, known, made>>

importVars ==
  <<catalog, rows, others, session, user, inventory, planners, planning, plan, step,
    runs, conflicts, deciding, choice>>

ASSUME WindowsAssumption == Windows!LocalPlansAssumption
ASSUME ImportsAssumption == Import!ImportAssumption

AtRest ==
  /\ part # "windows" =>
       /\ mode = "local" /\ stored = [p \in Plans |-> Absent]
       /\ pallets = [p \in Plans |-> "none"]
  /\ part # "import" => catalog = {}

PlansInit ==
  /\ part \in {"sync", "import", "windows"}
  /\ Init /\ Windows!Init /\ Import!Init
  /\ AtRest

PlansNext ==
  \/ part = "sync" /\ Next /\ UNCHANGED <<part, windowVars, importVars>>
  \/ part = "windows" /\ Windows!Next /\ UNCHANGED <<part, vars, importVars>>
  \/ part = "import" /\ Import!Next /\ UNCHANGED <<part, vars, windowVars>>

PlansSpec == PlansInit /\ [][PlansNext]_<<part, vars, windowVars, importVars>>

-----------------------------------------------------------------------------

\* The storage, the dialogs and the server hold what their types allow.
PlansTypeOK == TypeOK /\ Windows!TypeOK /\ Import!TypeOK

\* The version a window knows of a stored plan names the very record it read,
\* also after the plan was deleted and created again (plannerRecordStorage.ts).
VersionNamesRecord == Windows!VersionNamesRecord

\* A saved pallet is marked as migrated only when its plan was written, however
\* many windows migrate at once: none is lost to a mark without a plan.
MarkedWereMade == Windows!MarkedWereMade

\* An import replaces a record of the server only for a user's choice, and only
\* the very record that choice was made on (localImportModel.ts).
ImportAsksFirst == Import!NoSilentOverwrite

\* An entry that a run reports as imported was on the server while the run was
\* under way, although answers are lost and others write in between.
ReportIsTrue == Import!ReportIsTrue
===============================================================================
