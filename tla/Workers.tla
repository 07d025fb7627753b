------------------------------- MODULE Workers -------------------------------
(***************************************************************************)
(* What the page keeps off its own thread: the pattern solver              *)
(* (SolverClient), the detection of the sheet (DocAligner) and the files   *)
(* the detection downloads (AssetLoader).  The three share no state, so    *)
(* each behaviour moves one of them only.                                  *)
(***************************************************************************)
EXTENDS SolverClient

CONSTANTS Loops, Shutters, Files

VARIABLES
  part,    \* the component that moves
  status, prefetching, requests, shown, loop, shutter, want, inbox, outbox,
  docWorker, gpu, prefetch, stage, session, backend, sessions, queue, run,
  caches, stored, started, excused, loader, loading, prefetches, gets

Doc == INSTANCE DocAligner WITH pending <- requests, worker <- docWorker

Assets == INSTANCE AssetLoader WITH status <- loader, prefetching <- loading

docVars ==
  <<status, prefetching, requests, shown, loop, shutter, want, inbox, outbox,
    docWorker, gpu, prefetch, stage, session, backend, sessions, queue, run>>

assetVars ==
  <<caches, stored, loading, loader, prefetches, gets, started, excused>>

ASSUME DocAssumption == Doc!RequestersAssumption
ASSUME AssetsAssumption == Assets!FilesAssumption

AtRest ==
  /\ part # "solver" => shared
  /\ part # "detection" => /\ gpu /\ loop = (CHOOSE l \in Loops : TRUE)
                           /\ shutter = (CHOOSE s \in Shutters : TRUE)
  /\ part # "files" => caches /\ stored = {}

WorkersInit ==
  /\ part \in {"solver", "detection", "files"}
  /\ Init /\ Doc!Init /\ Assets!Init
  /\ AtRest

WorkersNext ==
  \/ part = "solver" /\ Next /\ UNCHANGED <<part, docVars, assetVars>>
  \/ part = "detection" /\ Doc!Next /\ UNCHANGED <<part, vars, assetVars>>
  \/ part = "files" /\ Assets!Next /\ UNCHANGED <<part, vars, docVars>>

\* The fairness of the component that moves: Fairness, Doc!Fairness and
\* Assets!Fairness.
WorkersFairness ==
  /\ \A r \in Runs :
       /\ WF_vars(part = "solver" /\ Load(r))
       /\ WF_vars(part = "solver" /\ (PostOutcome(r) \/ Break(r)))
       /\ WF_vars(part = "solver" /\ (Deliver(r) \/ DeliverFailure(r)))
       /\ WF_vars(part = "solver" /\ Execute(r))
       /\ WF_vars(part = "solver" /\ ExecuteOutcome(r))
  /\ WF_docVars(part = "detection" /\ (Doc!Receive \/ Doc!ReceiveError))
  /\ WF_docVars(part = "detection" /\ Doc!Handle)
  /\ WF_docVars(part = "detection" /\ Doc!PrefetchOver)
  /\ WF_docVars(part = "detection" /\ Doc!Download)
  /\ WF_docVars(part = "detection" /\ Doc!StartSession)
  /\ \A r \in Loops \cup Shutters :
       /\ WF_docVars(part = "detection" /\ Doc!Detect(r))
       /\ WF_docVars(part = "detection" /\ (\/ Doc!StartDetect(r) \/ Doc!EndDetect(r)
                                          \/ Doc!Release(r) \/ Doc!Switch(r)))
  /\ WF_assetVars(part = "files" /\ Assets!Settle)
  /\ \A f \in Files : WF_assetVars(part = "files" /\ Assets!Work(f))

WorkersSpec ==
  WorkersInit /\ [][WorkersNext]_<<part, vars, docVars, assetVars>> /\ WorkersFairness

-----------------------------------------------------------------------------

\* Clients, workers, messages and files hold what their types allow.
WorkersTypeOK == TypeOK /\ Doc!TypeOK /\ Assets!TypeOK

\* A detection is carried by one message or one turn of the queue; a session
\* runs one at a time, is the only one, and is the one the page shows.
DetectionsServed ==
  /\ Doc!EveryDetectionCarried /\ Doc!SessionForOne /\ Doc!OneSession
  /\ Doc!BackendShown

\* The camera's waits end: for the files, the model, and each frame.
PromisesSettle == Doc!PromisesSettle /\ Assets!LoadSettles

\* A worker downloads a file a second time only if its own first download failed
\* or the Cache no longer gave it (docAlignerAssets.ts).
DownloadedOnce == Assets!DownloadedOnce
==============================================================================
