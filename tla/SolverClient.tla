---------------------------- MODULE SolverClient ----------------------------
(***************************************************************************)
(* The pattern solver outside the page's thread: LayerSolverClient on a    *)
(* ResilientSolverTransport (solverTransport.ts), which gives each run a   *)
(* worker of its own and goes over to the page's thread for good once a    *)
(* worker cannot start.                                                    *)
(*                                                                         *)
(* A worker's messages reach the page in the order they were posted; its   *)
(* error event may overtake them; a terminated worker delivers nothing.    *)
(* Whether a progress message is also shown is left out.                   *)
(***************************************************************************)
EXTENDS Integers

CONSTANTS
  MaxRuns,       \* bound: runs of one client
  MaxProgress    \* bound: progress messages of one execution

ASSUME BoundsAssumption == MaxRuns \in Nat /\ MaxProgress \in Nat

Runs == 1 .. MaxRuns
NoRun == 0

\* Above every sequence number (Number.MAX_SAFE_INTEGER).
ErrorSequence == MaxProgress + 2

VARIABLES
  \* LayerSolverClient
  active,        \* activeRun
  lastSequence,  \* of the active run
  disposed,
  outcome,       \* what became of the promise of each run
  result,        \* the run whose message settled it
  \* ResilientSolverTransport
  pending,       \* runs of which the primary has dispatched nothing yet
  fallbackRuns,
  primaryFailed,
  \* BrowserSolverWorkerTransport and its workers
  shared,        \* the page has SharedArrayBuffer: cancellation is cooperative
  worker,
  posted,        \* messages posted by the worker, or dispatched on the page
  delivered,     \* messages of the worker that reached the page
  \* SynchronousSolverTransport
  sync

clientVars == <<active, lastSequence, disposed, outcome, result>>
resilientVars == <<pending, fallbackRuns, primaryFailed>>
workerVars == <<worker, posted, delivered>>
vars == <<active, lastSequence, disposed, outcome, result, pending,
          fallbackRuns, primaryFailed, shared, worker, posted, delivered, sync>>

Outcomes == {"new", "pending", "complete", "error", "replaced", "cancelled",
             "disposed"}

TypeOK ==
  /\ active \in Runs \cup {NoRun}
  /\ lastSequence \in -1 .. ErrorSequence
  /\ disposed \in BOOLEAN
  /\ outcome \in [Runs -> Outcomes]
  /\ result \in [Runs -> Runs \cup {NoRun}]
  /\ pending \subseteq Runs
  /\ fallbackRuns \subseteq Runs
  /\ primaryFailed \in BOOLEAN
  /\ shared \in BOOLEAN
  /\ worker \in [Runs -> {"none", "loading", "solving", "complete", "error",
                          "broken", "released"}]
  /\ posted \in [Runs -> 0 .. MaxProgress + 1]
  /\ delivered \in [Runs -> 0 .. MaxProgress + 1]
  /\ sync \in [Runs -> {"none", "queued", "executing", "over"}]

Init ==
  /\ active = NoRun
  /\ lastSequence = -1
  /\ disposed = FALSE
  /\ outcome = [r \in Runs |-> "new"]
  /\ result = [r \in Runs |-> NoRun]
  /\ pending = {}
  /\ fallbackRuns = {}
  /\ primaryFailed = FALSE
  /\ shared \in BOOLEAN
  /\ worker = [r \in Runs |-> "none"]
  /\ posted = [r \in Runs |-> 0]
  /\ delivered = [r \in Runs |-> 0]
  /\ sync = [r \in Runs |-> "none"]

-----------------------------------------------------------------------------

\* The worker is in the map "workers".
Alive(r) == worker[r] \notin {"none", "released"}

Executing == \E r \in Runs : sync[r] = "executing"

\* Callbacks run during an execution on the page: onProgress.
CallerMayAct == \A r \in Runs : sync[r] = "executing" => posted[r] > 0

\* Mutant: messages are not told apart.
AnyRun(r) == active # NoRun

\* The message names the active run.
IsFor(r) == active = r

\* LayerSolverClient.receive
Receive(r, sequence, type) ==
  IF ~disposed /\ IsFor(r) /\ sequence > lastSequence
  THEN IF type = "progress"
       THEN /\ lastSequence' = sequence
            /\ UNCHANGED <<active, disposed, outcome, result>>
       ELSE /\ active' = NoRun
            /\ lastSequence' = -1
            /\ outcome' = [outcome EXCEPT ![active] = type]
            /\ result' = [result EXCEPT ![active] = r]
            /\ UNCHANGED disposed
  ELSE UNCHANGED clientVars

\* Mutant: the entry goes and nothing is known of the worker any more.
Unregister(w, r) == [s \in Runs \ {r} |-> w[s]]

\* BrowserSolverWorkerTransport.release
Release(w, r) == [w EXCEPT ![r] = "released"]

\* Mutant: a failed run's worker is kept.
ReleaseWithResult(w, r, type) ==
  IF type = "complete" THEN Release(w, r) ELSE w

\* A worker goes with the last message of its run.
ReleaseAfter(w, r, type) == IF type = "progress" THEN w ELSE Release(w, r)

\* BrowserSolverWorkerTransport.dispose
ReleaseAll(w) ==
  [r \in Runs |-> IF w[r] = "none" THEN "none" ELSE "released"]

\* What a cancel message can leave of the workers: without shared memory the
\* run's worker is terminated, with it only if the message cannot be posted.
WorkersAfterCancel(r) ==
  IF r = NoRun \/ r \in fallbackRuns \/ primaryFailed \/ ~Alive(r)
  THEN {worker}
  ELSE {Release(worker, r)} \cup IF shared THEN {worker} ELSE {}

\* A run that is replaced: its promise is rejected before the new one exists.
Replaced(r) ==
  [s \in Runs |-> IF s = r THEN "pending"
                  ELSE IF s = active THEN "replaced" ELSE outcome[s]]

\* A cancel message for the active run, if there is one, removes it.
WithoutCancelled(runs) == runs \ {active}

\* ResilientSolverTransport.startOnFallback: a microtask will execute the run.
StartOnFallback(r) ==
  /\ fallbackRuns' = WithoutCancelled(fallbackRuns) \cup {r}
  /\ sync' = [sync EXCEPT ![r] = "queued"]

\* run(): the active run is cancelled, the new one posted to the primary, or,
\* if that has failed or fails now, to the fallback.
Run(r) ==
  /\ CallerMayAct
  /\ ~disposed
  /\ outcome[r] = "new"
  /\ \A s \in 1 .. r - 1 : outcome[s] # "new"
  /\ active' = r
  /\ lastSequence' = -1
  /\ outcome' = Replaced(r)
  /\ \E w \in WorkersAfterCancel(active) :
       \/ /\ ~primaryFailed
          /\ worker' = [w EXCEPT ![r] = "loading"]
          /\ pending' = WithoutCancelled(pending) \cup {r}
          /\ fallbackRuns' = WithoutCancelled(fallbackRuns)
          /\ UNCHANGED <<primaryFailed, sync>>
       \/ /\ ~primaryFailed                        \* the worker is refused
          /\ primaryFailed' = TRUE
          /\ worker' = ReleaseAll(w)
          /\ pending' = WithoutCancelled(pending)
          /\ StartOnFallback(r)
       \/ /\ primaryFailed
          /\ worker' = w
          /\ pending' = WithoutCancelled(pending)
          /\ StartOnFallback(r)
          /\ UNCHANGED primaryFailed
  /\ UNCHANGED <<disposed, result, shared, posted, delivered>>

\* cancel()
Cancel ==
  /\ CallerMayAct
  /\ active # NoRun
  /\ active' = NoRun
  /\ lastSequence' = -1
  /\ outcome' = [outcome EXCEPT ![active] = "cancelled"]
  /\ worker' \in WorkersAfterCancel(active)
  /\ pending' = WithoutCancelled(pending)
  /\ fallbackRuns' = WithoutCancelled(fallbackRuns)
  /\ UNCHANGED <<disposed, result, primaryFailed, shared, posted, delivered,
                 sync>>

\* dispose(): the active run is cancelled, then both transports are disposed
\* of. A run that is executing on the page goes on and nobody listens.
Dispose ==
  /\ CallerMayAct
  /\ ~disposed
  /\ disposed' = TRUE
  /\ active' = NoRun
  /\ lastSequence' = -1
  /\ outcome' = [r \in Runs |-> IF r = active THEN "disposed" ELSE outcome[r]]
  /\ worker' = ReleaseAll(worker)
  /\ pending' = {}
  /\ fallbackRuns' = {}
  /\ sync' = [r \in Runs |-> IF sync[r] = "queued" THEN "over" ELSE sync[r]]
  /\ UNCHANGED <<result, primaryFailed, shared, posted, delivered>>

-----------------------------------------------------------------------------

\* The worker's script loads and the start message reaches it, or it does not.
Load(r) ==
  /\ worker[r] = "loading"
  /\ \E next \in {"solving", "broken"} :
       worker' = [worker EXCEPT ![r] = next]
  /\ UNCHANGED <<clientVars, resilientVars, shared, posted, delivered, sync>>

\* onProgress in solver.worker.ts
PostProgress(r) ==
  /\ worker[r] = "solving"
  /\ posted[r] < MaxProgress
  /\ posted' = [posted EXCEPT ![r] = @ + 1]
  /\ UNCHANGED <<clientVars, resilientVars, shared, worker, delivered, sync>>

\* The last message: the result or what solveLayer threw. A cancellation seen in
\* the shared memory also ends in one of the two.
PostOutcome(r) ==
  /\ worker[r] = "solving"
  /\ \E type \in {"complete", "error"} :
       worker' = [worker EXCEPT ![r] = type]
  /\ posted' = [posted EXCEPT ![r] = @ + 1]
  /\ UNCHANGED <<clientVars, resilientVars, shared, delivered, sync>>

\* The worker dies half way.
Break(r) ==
  /\ worker[r] = "solving"
  /\ worker' = [worker EXCEPT ![r] = "broken"]
  /\ UNCHANGED <<clientVars, resilientVars, shared, posted, delivered, sync>>

\* A message of the worker reaches the transports and the client.
Deliver(r) ==
  /\ ~Executing
  /\ Alive(r)
  /\ delivered[r] < posted[r]
  /\ LET sequence == delivered[r] + 1
         type == IF worker[r] \in {"complete", "error"} /\ sequence = posted[r]
                 THEN worker[r] ELSE "progress"
     IN  /\ Receive(r, sequence, type)
         /\ worker' = ReleaseAfter(worker, r, type)
  /\ delivered' = [delivered EXCEPT ![r] = @ + 1]
  /\ pending' = pending \ {r}
  /\ UNCHANGED <<fallbackRuns, primaryFailed, shared, posted, sync>>

\* Mutant: every failed run starts again.
RestartAny(r) == active = r

\* Nothing of the run has been dispatched and it was not cancelled.
MayRestart(r) == r \in pending

\* receivePrimary on the worker's error event.
DeliverFailure(r) ==
  /\ ~Executing
  /\ worker[r] = "broken"
  /\ pending' = pending \ {r}
  /\ IF MayRestart(r)
     THEN /\ primaryFailed' = TRUE
          /\ worker' = ReleaseAll(worker)
          /\ fallbackRuns' = fallbackRuns \cup {r}
          /\ sync' = [sync EXCEPT ![r] = "queued"]
          /\ posted' = [posted EXCEPT ![r] = 0]
          /\ UNCHANGED clientVars
     ELSE /\ Receive(r, ErrorSequence, "error")
          /\ worker' = Release(worker, r)
          /\ UNCHANGED <<fallbackRuns, primaryFailed, posted, sync>>
  /\ UNCHANGED <<shared, delivered>>

\* The microtask: solveLayer runs on the page until it is done.
Execute(r) ==
  /\ ~Executing
  /\ sync[r] = "queued"
  /\ \A s \in 1 .. r - 1 : sync[s] # "queued"
  /\ sync' = [sync EXCEPT ![r] = "executing"]
  /\ UNCHANGED <<clientVars, resilientVars, shared, workerVars>>

ExecuteProgress(r) ==
  /\ sync[r] = "executing"
  /\ posted[r] < MaxProgress
  /\ posted' = [posted EXCEPT ![r] = @ + 1]
  /\ Receive(r, posted[r] + 1, "progress")
  /\ UNCHANGED <<resilientVars, shared, worker, delivered, sync>>

ExecuteOutcome(r) ==
  /\ sync[r] = "executing"
  /\ posted' = [posted EXCEPT ![r] = @ + 1]
  /\ \E type \in {"complete", "error"} : Receive(r, posted[r] + 1, type)
  /\ fallbackRuns' = fallbackRuns \ {r}
  /\ sync' = [sync EXCEPT ![r] = "over"]
  /\ UNCHANGED <<pending, primaryFailed, shared, worker, delivered>>

Next ==
  \/ Cancel \/ Dispose
  \/ \E r \in Runs :
       \/ Run(r)
       \/ Load(r) \/ PostProgress(r) \/ PostOutcome(r) \/ Break(r)
       \/ Deliver(r) \/ DeliverFailure(r)
       \/ Execute(r) \/ ExecuteProgress(r) \/ ExecuteOutcome(r)

Safety == Init /\ [][Next]_vars

\* Scripts load or fail, the search has a budget, the page handles its events.
Fairness ==
  \A r \in Runs :
    /\ WF_vars(Load(r))
    /\ WF_vars(PostOutcome(r) \/ Break(r))
    /\ WF_vars(Deliver(r) \/ DeliverFailure(r))
    /\ WF_vars(Execute(r))
    /\ WF_vars(ExecuteOutcome(r))

Spec == Safety /\ Fairness

-----------------------------------------------------------------------------

\* "The restart is only safe while the run is still pending" (solverTransport.ts):
\* whatever the active run's worker or fallback has still to say comes after the
\* last accepted sequence number, so the client drops nothing of it.
NothingOfActiveRunDropped ==
  active # NoRun =>
    lastSequence <= IF active \in fallbackRuns
                    THEN posted[active] ELSE delivered[active]

\* A run that was restarted on the page has no worker any more.
OneSolverPerRun ==
  \A r \in Runs : sync[r] \in {"queued", "executing"} => ~Alive(r)

\* The transports remember no run but the active one.
NothingKeptOfOtherRuns ==
  pending \subseteq {active} /\ fallbackRuns \subseteq {active}

\* Runs overlap in the transports while the caller sees one at a time: no
\* message of the active run is dropped, no run is searched twice, and nothing
\* is remembered of the others.
RunsKeptApart ==
  NothingOfActiveRunDropped /\ OneSolverPerRun /\ NothingKeptOfOtherRuns

\* A caller waiting for a run is answered, whatever happens to workers.
RunSettles ==
  \A r \in Runs : outcome[r] = "pending" ~> outcome[r] # "pending"

\* The worker of a run that is over does not stay.
WorkersEnd ==
  \A r \in Runs : Alive(r) /\ outcome[r] # "pending" ~> ~Alive(r)

\* Every caller of the solver is answered and every worker ends.
RunsEnd == RunSettles /\ WorkersEnd

Promise == INSTANCE ExclusiveRuns

\* The caller sees exclusive runs.
KeepsPromise == Promise!Spec
=============================================================================
