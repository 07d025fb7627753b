------------------------------- MODULE Editing -------------------------------
(***************************************************************************)
(* A plan in the editor: what the commands of its layer editor make of a   *)
(* pattern (EditorKernel), and what the window does with the plan, of      *)
(* which it keeps a draft, backups and saves (OpenEditor).  To the one a   *)
(* plan is a content like any other, to the other it is a pattern with     *)
(* its history; each behaviour moves one of them only.                     *)
(***************************************************************************)
EXTENDS EditorKernel, OpenEditor

VARIABLE part   \* the component that moves

kernelVars ==
  <<original, persisted, present, past, future, saving, edits, saveCount>>

\* The pattern that does not change while the document does.
Plainest ==
  CHOOSE content \in Starts : \A other \in Starts :
    Cardinality(DOMAIN content.at) <= Cardinality(DOMAIN other.at)

EditingInit ==
  /\ part \in {"commands", "document"}
  /\ HistoryInit /\ Init
  /\ part = "document" => original.content = Plainest

EditingNext ==
  \/ part = "commands" /\ HistoryNext /\ UNCHANGED <<part, vars>>
  \/ part = "document" /\ Next /\ UNCHANGED <<part, kernelVars>>

EditingSpec == EditingInit /\ [][EditingNext]_<<part, kernelVars, vars>>

-----------------------------------------------------------------------------

\* The pattern with its history, and the window with its drafts and the server,
\* hold what their types allow.
EditingTypeOK == KernelTypeOK /\ TypeOK
==============================================================================
