----------------------------- MODULE DocAligner -----------------------------
(***************************************************************************)
(* Finding the sheet in a camera picture: the page's client and the camera *)
(* that uses it (docAlignerClient.ts, DocumentCamera.tsx), and the worker  *)
(* that runs the model on WebGPU or, once that fails, on WebAssembly       *)
(* (docAligner.worker.ts).                                                 *)
(*                                                                         *)
(* The frames, the quads and the timings are left out; so is what the two  *)
(* files the model is made of have in the cache.  A client that failed is  *)
(* replaced by a new one, which is this specification over again.          *)
(***************************************************************************)
EXTENDS Naturals, Sequences, FiniteSets

CONSTANTS
  Loops,      \* bound: live previews with work in flight; a new one starts
              \* when the camera opens again or its picture changes size
  Shutters    \* bound: openings of the camera with a capture in flight

Requesters == Loops \cup Shutters

RequestersAssumption ==
  Loops \cap Shutters = {} /\ Loops # {} /\ Shutters # {}

VARIABLES
  \* DocAlignerClient and DocumentCamera
  status, prefetching, pending,
  shown,      \* backend
  loop,       \* the live preview that is not stopped
  shutter,    \* of the camera that is open
  want,       \* what each requester is waiting for
  \* the channels
  inbox, outbox,
  \* the worker
  worker, gpu, prefetch,
  stage,      \* of load()
  session, backend,
  sessions,   \* ghost: sessions created and not released
  queue,      \* the chain of detections
  run         \* where in its turn each detection is

pageVars == <<status, prefetching, pending, shown, loop, shutter, want>>
loadVars == <<gpu, prefetch, stage>>
sessionVars == <<session, backend, sessions>>
detectVars == <<queue, run>>
vars == <<status, prefetching, pending, shown, loop, shutter, want, inbox,
          outbox, worker, gpu, prefetch, stage, session, backend, sessions,
          queue, run>>

Backends == {"webgpu", "wasm"}

Message(type, of) == [type |-> type, of |-> of]

ToWorker == {Message("prefetch", "all"), Message("load", "all")}
            \cup {Message("detect", r) : r \in Requesters}

ToPage == {Message("loaded", b) : b \in Backends}
          \cup {Message("loadFailed", "all")}
          \cup {Message(type, r) : type \in {"detected", "detectFailed"},
                                   r \in Requesters}

TypeOK ==
  /\ status \in {"idle", "loading", "ready", "failed"}
  /\ prefetching \in BOOLEAN
  /\ pending \subseteq Requesters
  /\ shown \in Backends \cup {"none"}
  /\ loop \in Loops /\ shutter \in Shutters
  /\ want \in [Requesters -> {"nothing", "frame", "answer"}]
  /\ inbox \in Seq(ToWorker) /\ outbox \in Seq(ToPage)
  /\ worker \in {"running", "crashed", "terminated"}
  /\ gpu \in BOOLEAN
  /\ prefetch \in {"none", "running", "over"}
  /\ stage \in {"none", "download", "webgpu", "wasm", "over"}
  /\ session \in Backends \cup {"none"}
  /\ backend \in Backends \cup {"none"}
  /\ sessions \in 0 .. Cardinality(Backends)
  /\ queue \in Seq(Requesters)
  /\ run \in [Requesters -> {"none", "running", "releasing", "warming"}]

Init ==
  /\ status = "idle"
  /\ prefetching = FALSE
  /\ pending = {}
  /\ shown = "none"
  /\ loop \in Loops /\ shutter \in Shutters
  /\ want = [r \in Requesters |-> "nothing"]
  /\ inbox = <<>> /\ outbox = <<>>
  /\ worker = "running"
  /\ gpu \in BOOLEAN
  /\ prefetch = "none"
  /\ stage = "none"
  /\ session = "none" /\ backend = "none" /\ sessions = 0
  /\ queue = <<>>
  /\ run = [r \in Requesters |-> "none"]

-----------------------------------------------------------------------------
(* The page *)

Prefetch ==
  /\ ~prefetching /\ status = "idle"
  /\ prefetching' = TRUE
  /\ inbox' = Append(inbox, Message("prefetch", "all"))
  /\ UNCHANGED <<status, pending, shown, loop, shutter, want, outbox, worker,
                 loadVars, sessionVars, detectVars>>

\* The camera opens.
Load ==
  /\ status = "idle"
  /\ status' = "loading"
  /\ inbox' = Append(inbox, Message("load", "all"))
  /\ UNCHANGED <<prefetching, pending, shown, loop, shutter, want, outbox,
                 worker, loadVars, sessionVars, detectVars>>

\* The live preview starts over, in the same camera or in one that is opened
\* again; what the old one waits for still comes.
NewLoop ==
  /\ \E l \in Loops \ {loop} : want[l] = "nothing" /\ loop' = l
  /\ \/ UNCHANGED shutter
     \/ \E s \in Shutters \ {shutter} : want[s] = "nothing" /\ shutter' = s
  /\ UNCHANGED <<status, prefetching, pending, shown, want, inbox, outbox,
                 worker, loadVars, sessionVars, detectVars>>

\* A tick of the live preview skips its frame while a detection is under way;
\* the shutter does not.
Grab(r) ==
  /\ r \in {loop, shutter}
  /\ status = "ready"
  /\ want[r] = "nothing"
  /\ r = loop => pending = {}
  /\ want' = [want EXCEPT ![r] = "frame"]
  /\ UNCHANGED <<status, prefetching, pending, shown, loop, shutter, inbox,
                 outbox, worker, loadVars, sessionVars, detectVars>>

\* createImageBitmap fails, or it is done and detect() is called: the client
\* may have failed meanwhile.
Detect(r) ==
  /\ want[r] = "frame"
  /\ \/ /\ status = "ready"
        /\ want' = [want EXCEPT ![r] = "answer"]
        /\ pending' = pending \cup {r}
        /\ inbox' = Append(inbox, Message("detect", r))
     \/ /\ want' = [want EXCEPT ![r] = "nothing"]
        /\ UNCHANGED <<pending, inbox>>
  /\ UNCHANGED <<status, prefetching, shown, loop, shutter, outbox, worker,
                 loadVars, sessionVars, detectVars>>

\* fail() terminates the worker.
WorkerAfterFail == "terminated"

\* The promises of the detections R are settled.
Settled(R) == [r \in Requesters |-> IF r \in R THEN "nothing" ELSE want[r]]

\* fail()
Fail ==
  /\ status' = "failed"
  /\ worker' = WorkerAfterFail
  /\ want' = Settled(pending)
  /\ pending' = {}
  /\ UNCHANGED <<prefetching, shown, loop, shutter>>

\* receive()
Receive ==
  /\ worker # "terminated"
  /\ outbox # <<>>
  /\ outbox' = Tail(outbox)
  /\ LET message == Head(outbox)
     IN  \/ /\ message.type = "loaded"
            /\ status' = "ready"
            /\ shown' = message.of
            /\ UNCHANGED <<prefetching, pending, loop, shutter, want, worker>>
         \/ /\ message.type = "loadFailed"
            /\ Fail
         \/ /\ message.type \in {"detected", "detectFailed"}
            /\ pending' = pending \ {message.of}
            /\ want' = Settled(pending \cap {message.of})
            /\ UNCHANGED <<status, prefetching, shown, loop, shutter, worker>>
  /\ UNCHANGED <<inbox, loadVars, sessionVars, detectVars>>

\* The worker's error event.
ReceiveError ==
  /\ worker = "crashed"
  /\ Fail
  /\ UNCHANGED <<inbox, outbox, loadVars, sessionVars, detectVars>>

-----------------------------------------------------------------------------
(* The worker *)

\* Its script does not load, or it dies at any time.
Crash ==
  /\ worker = "running"
  /\ worker' = "crashed"
  /\ UNCHANGED <<pageVars, inbox, outbox, loadVars, sessionVars, detectVars>>

\* onmessage
Handle ==
  /\ worker = "running"
  /\ inbox # <<>>
  /\ inbox' = Tail(inbox)
  /\ LET message == Head(inbox)
     IN  \/ /\ message.type = "prefetch"
            /\ prefetch' = "running"
            /\ UNCHANGED <<stage, queue>>
         \/ /\ message.type = "load"
            /\ stage' = IF stage = "none" THEN "download" ELSE stage
            /\ UNCHANGED <<prefetch, queue>>
         \/ /\ message.type = "detect"
            /\ queue' = Append(queue, message.of)
            /\ UNCHANGED <<prefetch, stage>>
  /\ UNCHANGED <<pageVars, outbox, worker, gpu, sessionVars, run>>

\* The prefetch ends, well or not.
PrefetchOver ==
  /\ worker = "running"
  /\ prefetch = "running"
  /\ prefetch' = "over"
  /\ UNCHANGED <<pageVars, inbox, outbox, worker, gpu, stage, sessionVars,
                 detectVars>>

\* Mutant: nobody hears of the failure.
FailsSilently ==
  /\ stage' = "none"
  /\ UNCHANGED <<outbox, sessionVars>>

\* load() fails and may be tried again.
LoadFails ==
  /\ stage' = "none"
  /\ outbox' = Append(outbox, Message("loadFailed", "all"))
  /\ UNCHANGED sessionVars

\* assets.get(): it waits for a prefetch in flight and downloads what is missing.
Download ==
  /\ worker = "running"
  /\ stage = "download"
  /\ prefetch # "running"
  /\ \/ /\ stage' = IF gpu THEN "webgpu" ELSE "wasm"
        /\ UNCHANGED <<outbox, sessionVars>>
     \/ LoadFails
  /\ UNCHANGED <<pageVars, inbox, worker, gpu, prefetch, detectVars>>

\* A session that has run once is the session.
Warmed(b) ==
  /\ session' = b /\ backend' = b
  /\ sessions' = sessions + 1

\* startSession()
StartSession ==
  /\ worker = "running"
  /\ stage \in Backends
  /\ \/ /\ Warmed(stage)
        /\ stage' = "over"
        /\ outbox' = Append(outbox, Message("loaded", stage))
     \/ /\ stage = "webgpu"
        /\ stage' = "wasm"
        /\ UNCHANGED <<outbox, sessionVars>>
     \/ stage = "wasm" /\ LoadFails
  /\ UNCHANGED <<pageVars, inbox, worker, gpu, prefetch, detectVars>>

\* Mutant: detections do not wait for each other.
Arrived(r) == \E i \in DOMAIN queue : queue[i] = r

\* Detections run one after another.
Turn(r) ==
  /\ queue # <<>> /\ Head(queue) = r
  /\ \A s \in Requesters : run[s] = "none"

\* The turn of r is over and the page is told.
Answer(r, messages) ==
  /\ run' = [run EXCEPT ![r] = "none"]
  /\ queue' = Tail(queue)
  /\ outbox' = outbox \o messages

\* detect() throws: on WebGPU the worker changes over before it says so.
DetectFails(r) ==
  IF backend = "webgpu"
  THEN /\ run' = [run EXCEPT ![r] = "releasing"]
       /\ session' = "none"
       /\ UNCHANGED <<queue, outbox>>
  ELSE /\ Answer(r, <<Message("detectFailed", r)>>)
       /\ UNCHANGED session

\* A detection starts on the session there is.
StartDetect(r) ==
  /\ worker = "running"
  /\ run[r] = "none"
  /\ Turn(r)
  /\ IF session = "none"
     THEN DetectFails(r)
     ELSE /\ run' = [run EXCEPT ![r] = "running"]
          /\ UNCHANGED <<session, queue, outbox>>
  /\ UNCHANGED <<pageVars, inbox, worker, loadVars, backend, sessions>>

EndDetect(r) ==
  /\ worker = "running"
  /\ run[r] = "running"
  /\ \/ /\ Answer(r, <<Message("detected", r)>>)
        /\ UNCHANGED session
     \/ DetectFails(r)
  /\ UNCHANGED <<pageVars, inbox, worker, loadVars, backend, sessions>>

\* switchToWasm() releases the session that failed.
Released == IF sessions > 0 THEN sessions - 1 ELSE 0

Release(r) ==
  /\ worker = "running"
  /\ run[r] = "releasing"
  /\ run' = [run EXCEPT ![r] = "warming"]
  /\ sessions' = Released
  /\ UNCHANGED <<pageVars, inbox, outbox, worker, loadVars, session, backend,
                 queue>>

\* The detection has failed in any case.
Announced(r) == <<Message("loaded", "wasm"), Message("detectFailed", r)>>

\* The rest of switchToWasm().
Switch(r) ==
  /\ worker = "running"
  /\ run[r] = "warming"
  /\ \/ /\ Warmed("wasm")
        /\ Answer(r, Announced(r))
     \/ /\ Answer(r, <<Message("loadFailed", "all"),
                       Message("detectFailed", r)>>)
        /\ UNCHANGED sessionVars
  /\ UNCHANGED <<pageVars, inbox, worker, loadVars>>

Next ==
  \/ Prefetch \/ Load \/ NewLoop \/ Receive \/ ReceiveError
  \/ Crash \/ Handle \/ PrefetchOver \/ Download \/ StartSession
  \/ \E r \in Requesters :
       \/ Grab(r) \/ Detect(r)
       \/ StartDetect(r) \/ EndDetect(r) \/ Release(r) \/ Switch(r)

\* Both threads handle their events; downloads, session starts, model runs and
\* createImageBitmap end one way or the other.
Fairness ==
  /\ WF_vars(Receive \/ ReceiveError)
  /\ WF_vars(Handle)
  /\ WF_vars(PrefetchOver)
  /\ WF_vars(Download)
  /\ WF_vars(StartSession)
  /\ \A r \in Requesters :
       /\ WF_vars(Detect(r))
       /\ WF_vars(StartDetect(r) \/ EndDetect(r) \/ Release(r) \/ Switch(r))

Spec == Init /\ [][Next]_vars /\ Fairness

-----------------------------------------------------------------------------

Carriers(r) ==
  Cardinality({i \in DOMAIN inbox : inbox[i] = Message("detect", r)})
  + Cardinality({i \in DOMAIN queue : queue[i] = r})
  + Cardinality({i \in DOMAIN outbox :
      outbox[i] \in {Message("detected", r), Message("detectFailed", r)}})

\* As long as the worker lives, a detection the page waits for is in exactly one
\* place on its way, and nothing else is: no answer is lost or comes twice.
EveryDetectionCarried ==
  worker = "running" =>
    \A r \in Requesters : Carriers(r) = IF r \in pending THEN 1 ELSE 0

\* "A session must not run twice at once" (docAligner.worker.ts), and none is
\* taken away from a detection that runs on it.
SessionForOne ==
  worker = "running" =>
    LET running == {r \in Requesters : run[r] = "running"}
    IN  Cardinality(running) <= 1 /\ (running # {} => session # "none")

\* A change of backend does not leave the old session's memory behind.
OneSession == sessions <= 1

\* Once its messages have arrived and no change is under way, the page shows the
\* backend that the worker's session runs on, and there is one.
BackendShown ==
  (/\ worker = "running" /\ status = "ready" /\ outbox = <<>>
   /\ \A r \in Requesters : run[r] \in {"none", "running"})
  => shown = session

\* Opening the camera ends with a model or with the classic detector, and the
\* camera gets an answer or an error for every frame, whatever happens to the
\* worker or the session: neither preview nor shutter hangs.
PromisesSettle ==
  /\ status = "loading" ~> status \in {"ready", "failed"}
  /\ \A r \in Requesters : want[r] = "answer" ~> want[r] = "nothing"
=============================================================================
