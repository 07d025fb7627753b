--------------------------- MODULE EditorHistory ---------------------------
(***************************************************************************)
(* features/editor/editorHistory.ts: the undo and redo stacks of the       *)
(* editor, and the save that ends while they go on changing.  A project is *)
(* its content and the number of the save it came from: a save gives the   *)
(* snapshot back with new metadata.                                        *)
(***************************************************************************)
EXTENDS Integers, Sequences

CONSTANTS
  Starts,       \* the contents a project is opened with
  Edits(_),     \* the contents a command may turn a content into
  MaxHistory,   \* MAX_EDITOR_HISTORY
  MaxEdits,     \* bound: commands executed
  MaxSaves      \* bound: saves and replacements by another version

HistoryAssumption ==
  /\ MaxHistory \in Nat \ {0} /\ MaxEdits \in Nat /\ MaxSaves \in Nat

VARIABLES
  original, persisted, present,   \* ProjectEditorHistoryState
  past, future,                   \* its entries, the newest and the next last
  saving,                         \* the snapshot of the save under way
  edits, saveCount

historyVars == <<original, persisted, present, past, future, saving, edits, saveCount>>

NoSnapshot == [none |-> TRUE]

Project(content, save) == [content |-> content, save |-> save]

\* Mutant: the stack has no limit.
PushAll(entries, project) == Append(entries, project)

\* pushEntry: the oldest entry goes when the stack is full.
Push(entries, project) ==
  LET all == Append(entries, project)
  IN IF Len(all) > MaxHistory THEN Tail(all) ELSE all

HistoryInit ==
  /\ \E content \in Starts : original = Project(content, 0)
  /\ persisted = original /\ present = original
  /\ past = <<>> /\ future = <<>>
  /\ saving = NoSnapshot
  /\ edits = 0 /\ saveCount = 0

\* execute: a command that changes nothing leaves no entry.
Execute ==
  /\ edits < MaxEdits
  /\ \E content \in Edits(present.content) :
       /\ content # present.content
       /\ present' = [present EXCEPT !.content = content]
  /\ past' = Push(past, present)
  /\ future' = <<>>
  /\ edits' = edits + 1
  /\ UNCHANGED <<original, persisted, saving, saveCount>>

UndoEdit ==
  /\ past # <<>>
  /\ present' = past[Len(past)]
  /\ past' = SubSeq(past, 1, Len(past) - 1)
  /\ future' = Append(future, present)
  /\ UNCHANGED <<original, persisted, saving, edits, saveCount>>

\* Mutant: the entry taken from the future is what can be undone.
RedoTwice ==
  /\ future # <<>>
  /\ present' = future[Len(future)]
  /\ past' = Push(past, future[Len(future)])
  /\ future' = SubSeq(future, 1, Len(future) - 1)
  /\ UNCHANGED <<original, persisted, saving, edits, saveCount>>

Redo ==
  /\ future # <<>>
  /\ present' = future[Len(future)]
  /\ past' = Push(past, present)
  /\ future' = SubSeq(future, 1, Len(future) - 1)
  /\ UNCHANGED <<original, persisted, saving, edits, saveCount>>

\* reset-to-original, an edit that can be undone.
ResetToOriginal ==
  /\ present # original
  /\ present' = original
  /\ past' = Push(past, present)
  /\ future' = <<>>
  /\ UNCHANGED <<original, persisted, saving, edits, saveCount>>

DiscardEdits ==
  /\ present' = persisted
  /\ past' = <<>> /\ future' = <<>>
  /\ UNCHANGED <<original, persisted, saving, edits, saveCount>>

\* ProjectEditorWorkspace.save: the snapshot is what is on screen.
StartSave ==
  /\ saving = NoSnapshot
  /\ present # persisted
  /\ saveCount < MaxSaves
  /\ saving' = present
  /\ saveCount' = saveCount + 1
  /\ UNCHANGED <<original, persisted, present, past, future, edits>>

\* mark-saved: wherever the snapshot stands, its saved form takes its place.
Rebased(project) ==
  IF project = saving THEN Project(saving.content, saveCount) ELSE project

MarkSaved ==
  /\ saving # NoSnapshot
  /\ persisted' = Rebased(saving)
  /\ present' = Rebased(present)
  /\ past' = [i \in DOMAIN past |-> Rebased(past[i])]
  /\ future' = [i \in DOMAIN future |-> Rebased(future[i])]
  /\ saving' = NoSnapshot
  /\ UNCHANGED <<original, edits, saveCount>>

SaveFails ==
  /\ saving # NoSnapshot
  /\ saving' = NoSnapshot
  /\ UNCHANGED <<original, persisted, present, past, future, edits, saveCount>>

\* replace: another version of the project is opened.
ReplaceProject ==
  /\ saving = NoSnapshot
  /\ saveCount < MaxSaves
  /\ \E content \in Starts :
       /\ original' = Project(content, saveCount + 1)
       /\ persisted' = original' /\ present' = original'
  /\ past' = <<>> /\ future' = <<>>
  /\ saveCount' = saveCount + 1
  /\ UNCHANGED <<saving, edits>>

HistoryNext ==
  \/ Execute \/ UndoEdit \/ Redo \/ ResetToOriginal \/ DiscardEdits
  \/ StartSave \/ MarkSaved \/ SaveFails \/ ReplaceProject

HistorySpec == HistoryInit /\ [][HistoryNext]_historyVars

-----------------------------------------------------------------------------
\* The contents undo and redo walk through, with the present one at Here.
Timeline ==
  [i \in 1 .. Len(past) + 1 + Len(future) |->
     IF i <= Len(past) THEN past[i].content
     ELSE IF i = Len(past) + 1 THEN present.content
     ELSE future[Len(past) + 2 + Len(future) - i].content]

Here == Len(past) + 1

\* The stacks together never exceed the limit, so that a redo never pushes an
\* entry out (pushEntry would drop it).
StacksBounded == Len(past) + Len(future) <= MaxHistory

\* Undo, redo and the end of a save, successful or not, change no content on
\* the timeline; a command cuts the timeline off behind the present and adds
\* one content, dropping at most the oldest; everything else empties it.  The
\* save ends at any moment of the editing, on any snapshot (mark-saved).
KeepsTimeline ==
  \/ Timeline' = Timeline /\ Here' \in Here - 1 .. Here + 1
  \/ LET kept == SubSeq(Timeline, 1, Here)
     IN /\ Timeline' \in {Append(kept, present'.content),
                          Append(Tail(kept), present'.content)}
        /\ Here' = Len(Timeline')
        /\ Here' < Len(kept) + 1 => Len(past) = MaxHistory
  \/ past' = <<>> /\ future' = <<>> /\ present' = persisted'

\* Whatever was done, undone and saved before.
TimelineKept == [][KeepsTimeline]_historyVars
=============================================================================
