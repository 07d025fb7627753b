---------------------------- MODULE PhotoImport ----------------------------
(***************************************************************************)
(* Reading a photographed pallet sheet into the form of a new plan: the    *)
(* form and its photo import (GuidedProjectForm.tsx, SheetPhotoImport.tsx) *)
(* in several windows, the route that admits an upload and an extraction   *)
(* by two gates without queues (sheet-extraction/route.ts,                 *)
(* requestGuards.ts), and the model that is asked once more when its       *)
(* answer has errors (ollamaSheetExtractor.ts).                            *)
(*                                                                         *)
(* A photo is named by its request. Of the form only two things matter:    *)
(* what the user typed into fields that no sheet prints, counted, and      *)
(* whether a sheet filled in the others.                                   *)
(***************************************************************************)
EXTENDS Integers, FiniteSets

CONSTANTS
  Windows,
  Photos,
  UploadSlots,   \* uploads at once
  ModelSlots,    \* extractions at once (SHEET_EXTRACTION_MAX_CONCURRENT)
  MaxRetries,    \* further questions to the model
  MaxTyped,      \* bound: edits of a form
  None

PhotoAssumption ==
  /\ UploadSlots \in Nat \ {0} /\ ModelSlots \in Nat \ {0}
  /\ MaxRetries \in Nat /\ MaxTyped \in Nat
  /\ IsFiniteSet(Photos) /\ None \notin Photos \cup Windows

VARIABLES
  form,         \* of each window; None when it is not open
  reading,      \* the photo a window reads, whose controller is not aborted
  stage,        \* of each photo
  owner,        \* the window a photo was chosen in
  typedThen,    \* what was typed when the photo was chosen
  gone,         \* the server knows that nobody waits (request.signal)
  questions,    \* to the model about a photo
  answer,       \* of the route
  uploads,      \* inFlight of uploadAdmission
  extractions   \* inFlight of admission

photoVars == <<stage, owner, typedThen, gone, questions, answer>>
gates == <<uploads, extractions>>
vars == <<form, reading, photoVars, gates>>

Stages == {"unused", "preparing", "sent", "uploading", "encoding", "asking",
           "settled", "closed"}

\* "sheet" is the answer 200; the others stand for the route's refusals.
Answers == {"sheet", "busy", "rejected", "failed", "gone"}

Form == [typed : 0 .. MaxTyped, sheet : BOOLEAN, saving : BOOLEAN]

TypeOK ==
  /\ form \in [Windows -> Form \cup {None}]
  /\ reading \in [Windows -> Photos \cup {None}]
  /\ stage \in [Photos -> Stages]
  /\ owner \in [Photos -> Windows \cup {None}]
  /\ typedThen \in [Photos -> 0 .. MaxTyped]
  /\ gone \in [Photos -> BOOLEAN]
  /\ questions \in [Photos -> 0 .. MaxRetries + 1]
  /\ answer \in [Photos -> Answers \cup {None}]
  /\ uploads \in 0 .. UploadSlots
  /\ extractions \in 0 .. ModelSlots

Init ==
  /\ form = [w \in Windows |-> None]
  /\ reading = [w \in Windows |-> None]
  /\ stage = [p \in Photos |-> "unused"]
  /\ owner = [p \in Photos |-> None]
  /\ typedThen = [p \in Photos |-> 0]
  /\ gone = [p \in Photos |-> FALSE]
  /\ questions = [p \in Photos |-> 0]
  /\ answer = [p \in Photos |-> None]
  /\ uploads = 0 /\ extractions = 0

-----------------------------------------------------------------------------
(* The form. Its text fields stay usable while a photo is read and while   *)
(* the plan is saved; only the buttons wait.                               *)

Open(w) == form[w] # None

OpenForm(w) ==
  /\ ~Open(w)
  /\ form' = [form EXCEPT ![w] = [typed |-> 0, sheet |-> FALSE, saving |-> FALSE]]
  /\ UNCHANGED <<reading, photoVars, gates>>

Type(w) ==
  /\ Open(w) /\ form[w].typed < MaxTyped
  /\ form' = [form EXCEPT ![w].typed = @ + 1]
  /\ UNCHANGED <<reading, photoVars, gates>>

\* Both buttons that save are disabled while a photo is read.
Submit(w) ==
  /\ Open(w) /\ ~form[w].saving
  /\ reading[w] = None
  /\ form' = [form EXCEPT ![w].saving = TRUE]
  /\ UNCHANGED <<reading, photoVars, gates>>

\* A saved form is clean for its caller and closes without asking.
Saved(w) ==
  /\ Open(w) /\ form[w].saving
  /\ form' = [form EXCEPT ![w] = None]
  /\ UNCHANGED <<reading, photoVars, gates>>

SaveFailed(w) ==
  /\ Open(w) /\ form[w].saving
  /\ form' = [form EXCEPT ![w].saving = FALSE]
  /\ UNCHANGED <<reading, photoVars, gates>>

\* Unmounting the photo import aborts its controller.
CloseForm(w) ==
  /\ Open(w) /\ ~form[w].saving
  /\ form' = [form EXCEPT ![w] = None]
  /\ reading' = [reading EXCEPT ![w] = None]
  /\ UNCHANGED <<photoVars, gates>>

-----------------------------------------------------------------------------
(* The photo import in the browser.                                        *)

\* Nobody waits for the photo any more: its controller is aborted.
Abandoned(p) == reading[owner[p]] # p

\* read(): the form's onExtracted is the one of the render it began in.
ChoosePhoto(w, p) ==
  /\ Open(w) /\ ~form[w].saving
  /\ reading[w] = None
  /\ stage[p] = "unused"
  /\ reading' = [reading EXCEPT ![w] = p]
  /\ stage' = [stage EXCEPT ![p] = "preparing"]
  /\ owner' = [owner EXCEPT ![p] = w]
  /\ typedThen' = [typedThen EXCEPT ![p] = form[w].typed]
  /\ UNCHANGED <<form, gone, questions, answer, gates>>

\* downscalePhoto(), which does not look at the signal; fetch does.
Prepare(p) ==
  /\ stage[p] = "preparing"
  /\ stage' = [stage EXCEPT ![p] = IF Abandoned(p) THEN "closed" ELSE "sent"]
  /\ UNCHANGED <<form, reading, owner, typedThen, gone, questions, answer, gates>>

Reader(p) == IF Abandoned(p) THEN reading
             ELSE [reading EXCEPT ![owner[p]] = None]

\* What the sheet fills in is based on the values of that render.
Filled(p) ==
  [form EXCEPT ![owner[p]].typed = typedThen[p], ![owner[p]].sheet = TRUE]

Deliver(p) ==
  /\ stage[p] = "settled"
  /\ stage' = [stage EXCEPT ![p] = "closed"]
  /\ reading' = Reader(p)
  /\ form' = IF ~Abandoned(p) /\ answer[p] = "sheet" THEN Filled(p) ELSE form
  /\ UNCHANGED <<owner, typedThen, gone, questions, answer, gates>>

OnServer(p) == stage[p] \in {"uploading", "encoding", "asking"}

\* The server hears of an abort after a while.
Disconnect(p) ==
  /\ OnServer(p) /\ Abandoned(p) /\ ~gone[p]
  /\ gone' = [gone EXCEPT ![p] = TRUE]
  /\ UNCHANGED <<form, reading, stage, owner, typedThen, questions, answer, gates>>

\* The connection breaks: the window shows an error, the server hears of it.
ConnectionLost(p) ==
  /\ OnServer(p) /\ ~Abandoned(p)
  /\ reading' = Reader(p)
  /\ gone' = [gone EXCEPT ![p] = TRUE]
  /\ UNCHANGED <<form, stage, owner, typedThen, questions, answer, gates>>

\* The request never gets to the route.
NotSent(p) ==
  /\ stage[p] = "sent"
  /\ stage' = [stage EXCEPT ![p] = "closed"]
  /\ reading' = Reader(p)
  /\ UNCHANGED <<form, owner, typedThen, gone, questions, answer, gates>>

-----------------------------------------------------------------------------
(* The route.                                                              *)

Settle(p, a) ==
  /\ stage' = [stage EXCEPT ![p] = "settled"]
  /\ answer' = [answer EXCEPT ![p] = a]

\* tryAcquire() of the upload gate.
Arrive(p) ==
  /\ stage[p] = "sent"
  /\ \/ /\ uploads >= UploadSlots
        /\ Settle(p, "busy")
        /\ UNCHANGED uploads
     \/ /\ uploads < UploadSlots
        /\ stage' = [stage EXCEPT ![p] = "uploading"]
        /\ uploads' = uploads + 1
        /\ UNCHANGED answer
  /\ UNCHANGED <<form, reading, owner, typedThen, gone, questions, extractions>>

\* Mutant: nothing gives the slot back.
KeptUpload == uploads' = uploads

\* releaseUpload() in the finally of the upload.
ReleaseUpload == uploads' = uploads - 1

\* formData() rejects: aborted, timed out, too large or malformed.
UploadFails(p) ==
  /\ stage[p] = "uploading"
  /\ Settle(p, IF gone[p] THEN "gone" ELSE "rejected")
  /\ ReleaseUpload
  /\ UNCHANGED <<form, reading, owner, typedThen, gone, questions, extractions>>

\* The body is there; checks of the image and of the signal, then the model's
\* gate, without an await in between.
Received(p) ==
  /\ stage[p] = "uploading"
  /\ ReleaseUpload
  /\ \/ /\ Settle(p, "rejected")
        /\ UNCHANGED extractions
     \/ /\ gone[p]
        /\ Settle(p, "gone")
        /\ UNCHANGED extractions
     \/ /\ ~gone[p] /\ extractions >= ModelSlots
        /\ Settle(p, "busy")
        /\ UNCHANGED extractions
     \/ /\ ~gone[p] /\ extractions < ModelSlots
        /\ stage' = [stage EXCEPT ![p] = "encoding"]
        /\ extractions' = extractions + 1
        /\ UNCHANGED answer
  /\ UNCHANGED <<form, reading, owner, typedThen, gone, questions>>

\* Mutant: release() at the end of the try block, not in a finally.
LeaveOnSuccess(p, a) ==
  /\ Settle(p, a)
  /\ extractions' = IF a = "sheet" THEN extractions - 1 ELSE extractions

\* The finally of the extraction.
Leave(p, a) ==
  /\ Settle(p, a)
  /\ extractions' = extractions - 1

\* arrayBuffer() resolves and the first question goes out, or not.
Encoded(p) ==
  /\ stage[p] = "encoding"
  /\ \/ /\ ~gone[p]
        /\ stage' = [stage EXCEPT ![p] = "asking"]
        /\ questions' = [questions EXCEPT ![p] = 1]
        /\ UNCHANGED <<answer, extractions>>
     \/ /\ Leave(p, IF gone[p] THEN "gone" ELSE "failed")
        /\ UNCHANGED questions
  /\ UNCHANGED <<form, reading, owner, typedThen, gone, uploads>>

\* The model answers with a sheet. One with errors is asked about again,
\* unless that was the last question or nobody waits.
Answered(p) ==
  /\ stage[p] = "asking"
  /\ \/ /\ Leave(p, "sheet")
        /\ UNCHANGED questions
     \/ /\ questions[p] <= MaxRetries
        /\ IF gone[p]
           THEN Leave(p, "gone") /\ UNCHANGED questions
           ELSE /\ questions' = [questions EXCEPT ![p] = @ + 1]
                /\ UNCHANGED <<stage, answer, extractions>>
  /\ UNCHANGED <<form, reading, owner, typedThen, gone, uploads>>

\* Unreachable, timed out, refused or not a sheet: an earlier answer is lost
\* with the exception. An abort rejects the fetch.
AskFails(p) ==
  /\ stage[p] = "asking"
  /\ Leave(p, IF gone[p] THEN "gone" ELSE "failed")
  /\ UNCHANGED <<form, reading, owner, typedThen, gone, questions, uploads>>

-----------------------------------------------------------------------------

InBrowser(w) ==
  \/ OpenForm(w) \/ Type(w) \/ Submit(w) \/ Saved(w) \/ SaveFailed(w)
  \/ CloseForm(w)
  \/ \E p \in Photos : ChoosePhoto(w, p)

OnItsWay(p) ==
  \/ Prepare(p) \/ NotSent(p) \/ Disconnect(p) \/ ConnectionLost(p) \/ Deliver(p)

InRoute(p) ==
  \/ Arrive(p) \/ UploadFails(p) \/ Received(p)
  \/ Encoded(p) \/ Answered(p) \/ AskFails(p)

Next ==
  \/ \E w \in Windows : InBrowser(w)
  \/ \E p \in Photos : OnItsWay(p) \/ InRoute(p)

\* Uploads and questions have a time limit, preparing and encoding end, and a
\* browser gives every request an answer or an error.
Fairness ==
  \A p \in Photos :
    /\ WF_vars(Prepare(p)) /\ WF_vars(Deliver(p)) /\ WF_vars(NotSent(p) \/ Arrive(p))
    /\ WF_vars(InRoute(p))

Spec == Init /\ [][Next]_vars /\ Fairness

-----------------------------------------------------------------------------

\* Each exit of the handler gives its slot back, and gives it back once: the
\* gates count exactly the requests that are inside (route.ts).
SlotsCounted ==
  /\ uploads = Cardinality({p \in Photos : stage[p] = "uploading"})
  /\ extractions = Cardinality({p \in Photos : stage[p] \in {"encoding", "asking"}})

\* A gate that is full opens again, and a window that reads a photo ends
\* reading, whatever fails on the way: nobody has to restart the server or to
\* reload the page.
PhotosSettle ==
  /\ uploads = UploadSlots ~> uploads < UploadSlots
  /\ extractions = ModelSlots ~> extractions < ModelSlots
  /\ \A w \in Windows : reading[w] # None ~> reading[w] = None
=============================================================================
