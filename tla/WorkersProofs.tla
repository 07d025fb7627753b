----------------------------- MODULE WorkersProofs -----------------------------
(***************************************************************************)
(* For any number of runs, messages, previews, captures and files: the     *)
(* runs of the solver are kept apart and its client implements exclusive   *)
(* runs; each detection the page waits for is in one place on its way, one *)
(* session at a time runs one detection and is the one the page shows; and *)
(* no file is downloaded twice without need.                               *)
(***************************************************************************)
EXTENDS Workers, TLAPS, SequenceTheorems, FiniteSetTheorems

-----------------------------------------------------------------------------
(* The pattern solver.                                                     *)

USE BoundsAssumption DEF Runs, NoRun, ErrorSequence

\* A run that has not started has left no trace.
NewInv ==
  \A r \in Runs : outcome[r] = "new" =>
    /\ worker[r] = "none" /\ sync[r] = "none"
    /\ posted[r] = 0 /\ delivered[r] = 0

ActiveInv == active # NoRun => outcome[active] = "pending" /\ ~disposed

\* Nothing of a run that may restart has been accepted.
PendingInv == active \in pending => lastSequence = -1

\* A primary that failed or was disposed of has no workers.
FailedInv == primaryFailed \/ disposed => \A r \in Runs : ~Alive(r)

OnPage(r) == sync[r] \in {"queued", "executing"}

\* The fallback's runs are under way on the page and wait for no worker, and the
\* active run is among them if it is on the page.
FallbackInv ==
  /\ \A r \in fallbackRuns : OnPage(r) /\ r \notin pending
  /\ active # NoRun /\ OnPage(active) => active \in fallbackRuns

\* An execution that is not over has its last message still to post.
PostedInv ==
  \A r \in Runs :
    worker[r] \in {"loading", "solving"} \/ OnPage(r) => posted[r] <= MaxProgress

IInv ==
  /\ TypeOK
  /\ NewInv
  /\ ActiveInv
  /\ PendingInv
  /\ FailedInv
  /\ FallbackInv
  /\ PostedInv
  /\ OneSolverPerRun
  /\ NothingKeptOfOtherRuns
  /\ NothingOfActiveRunDropped

-----------------------------------------------------------------------------

\* The client's variables and the others, apart.
ClientTypes ==
  /\ active \in Runs \cup {NoRun}
  /\ lastSequence \in -1 .. ErrorSequence
  /\ disposed \in BOOLEAN
  /\ outcome \in [Runs -> Outcomes]
  /\ result \in [Runs -> Runs \cup {NoRun}]

WorkerTypes ==
  /\ shared \in BOOLEAN
  /\ worker \in [Runs -> {"none", "loading", "solving", "complete", "error",
                          "broken", "released"}]

CountTypes ==
  /\ posted \in [Runs -> 0 .. MaxProgress + 1]
  /\ delivered \in [Runs -> 0 .. MaxProgress + 1]

TransportTypes ==
  /\ pending \subseteq Runs
  /\ fallbackRuns \subseteq Runs
  /\ primaryFailed \in BOOLEAN
  /\ sync \in [Runs -> {"none", "queued", "executing", "over"}]

LEMMA TypesApart ==
  TypeOK <=> ClientTypes /\ WorkerTypes /\ CountTypes /\ TransportTypes
BY DEF TypeOK, ClientTypes, WorkerTypes, CountTypes, TransportTypes

LEMMA TypesApartNext ==
  (ClientTypes /\ WorkerTypes /\ CountTypes /\ TransportTypes)' => TypeOK'
BY DEF TypeOK, ClientTypes, WorkerTypes, CountTypes, TransportTypes

LEMMA CountUp ==
  ASSUME CountTypes, NEW r \in Runs, posted[r] <= MaxProgress,
         posted' = [posted EXCEPT ![r] = @ + 1], UNCHANGED delivered
  PROVE  CountTypes'
<1>1. posted[r] + 1 \in 0 .. MaxProgress + 1
  BY DEF CountTypes
<1> QED
  BY <1>1 DEF CountTypes

LEMMA ReceiveTypes ==
  ASSUME ClientTypes, NEW r \in Runs, NEW sequence \in -1 .. ErrorSequence,
         NEW type \in {"progress", "complete", "error"},
         Receive(r, sequence, type)
  PROVE  ClientTypes'
BY DEF ClientTypes, Outcomes, Receive, clientVars

LEMMA InitIInv == Init => IInv
<1> SUFFICES ASSUME Init PROVE IInv
  OBVIOUS
<1> USE DEF Init
<1>1. TypeOK
  <2>1. ClientTypes
    <3>1. lastSequence \in -1 .. ErrorSequence
      OBVIOUS
    <3>2. outcome \in [Runs -> Outcomes] /\ result \in [Runs -> Runs \cup {NoRun}]
      BY DEF Outcomes
    <3> QED
      BY <3>1, <3>2 DEF ClientTypes
  <2>2. WorkerTypes
    BY DEF WorkerTypes
  <2>3. CountTypes
    BY DEF CountTypes
  <2>4. TransportTypes
    BY DEF TransportTypes
  <2> QED
    BY <2>1, <2>2, <2>3, <2>4, TypesApart
<1>2. NewInv /\ ActiveInv /\ PendingInv
  BY DEF NewInv, ActiveInv, PendingInv
<1>3. FailedInv /\ FallbackInv
  BY DEF FailedInv, FallbackInv
<1>4. PostedInv /\ OneSolverPerRun
  BY DEF PostedInv, OnPage, OneSolverPerRun
<1>5. NothingKeptOfOtherRuns /\ NothingOfActiveRunDropped
  BY DEF NothingKeptOfOtherRuns, NothingOfActiveRunDropped
<1> QED
  BY <1>1, <1>2, <1>3, <1>4, <1>5 DEF IInv

LEMMA RunStep ==
  ASSUME IInv, NEW r \in Runs, Run(r)
  PROVE  IInv'
<1> USE DEF IInv
<1> DEFINE States == {"none", "loading", "solving", "complete", "error",
                      "broken", "released"}
<1>1. /\ ~disposed /\ outcome[r] = "new" /\ active' = r /\ lastSequence' = -1
      /\ outcome' = Replaced(r)
      /\ UNCHANGED <<disposed, result, shared, posted, delivered>>
  BY DEF Run
<1>2. /\ worker[r] = "none" /\ sync[r] = "none"
      /\ posted[r] = 0 /\ delivered[r] = 0 /\ active # r
  BY <1>1 DEF NewInv, ActiveInv
<1>3. /\ outcome'[r] = "pending"
      /\ \A s \in Runs : outcome'[s] = "new" => outcome[s] = "new" /\ s # r
      /\ outcome' \in [Runs -> Outcomes]
  <2>1. \A s \in Runs : Replaced(r)[s] = IF s = r THEN "pending"
                                        ELSE IF s = active THEN "replaced"
                                        ELSE outcome[s]
    BY DEF Replaced
  <2>2. \A s \in Runs : Replaced(r)[s] \in Outcomes
    BY <2>1 DEF TypeOK, Outcomes
  <2>3. Replaced(r) = [s \in Runs |-> Replaced(r)[s]]
    BY DEF Replaced
  <2> QED
    BY <1>1, <2>1, <2>2, <2>3
<1>4. ASSUME NEW w \in WorkersAfterCancel(active)
      PROVE  /\ w \in [Runs -> States]
             /\ w[r] = "none"
             /\ \A s \in Runs : w[s] = worker[s]
                             \/ (w[s] = "released" /\ worker[s] # "none")
  BY <1>2 DEF WorkersAfterCancel, Release, Alive, TypeOK
\* The two ways a run starts.
<1> DEFINE OnWorker ==
      /\ ~primaryFailed /\ ~primaryFailed'
      /\ worker' \in [Runs -> States]
      /\ worker'[r] = "loading"
      /\ \A s \in Runs \ {r} : worker'[s] = worker[s]
                          \/ (worker'[s] = "released" /\ worker[s] # "none")
      /\ sync' = sync
      /\ pending' = (pending \ {active}) \cup {r}
      /\ fallbackRuns' = fallbackRuns \ {active}
    OnFallback ==
      /\ primaryFailed'
      /\ worker' \in [Runs -> States]
      /\ worker'[r] \in {"none", "released"}
      /\ \A s \in Runs : /\ worker'[s] \in {"none", "released"}
                         /\ worker[s] = "none" => worker'[s] = "none"
      /\ sync' = [sync EXCEPT ![r] = "queued"]
      /\ pending' = pending \ {active}
      /\ fallbackRuns' = (fallbackRuns \ {active}) \cup {r}
<1>5. OnWorker \/ OnFallback
  <2>1. PICK w \in WorkersAfterCancel(active) :
          \/ /\ ~primaryFailed
             /\ worker' = [w EXCEPT ![r] = "loading"]
             /\ pending' = WithoutCancelled(pending) \cup {r}
             /\ fallbackRuns' = WithoutCancelled(fallbackRuns)
             /\ UNCHANGED <<primaryFailed, sync>>
          \/ /\ ~primaryFailed
             /\ primaryFailed' = TRUE
             /\ worker' = ReleaseAll(w)
             /\ pending' = WithoutCancelled(pending)
             /\ StartOnFallback(r)
          \/ /\ primaryFailed
             /\ worker' = w
             /\ pending' = WithoutCancelled(pending)
             /\ StartOnFallback(r)
             /\ UNCHANGED primaryFailed
    BY DEF Run
  <2>2. /\ w \in [Runs -> States] /\ w[r] = "none"
        /\ \A s \in Runs : w[s] = worker[s]
                        \/ (w[s] = "released" /\ worker[s] # "none")
    BY <1>4
  <2>3. CASE /\ ~primaryFailed
             /\ worker' = [w EXCEPT ![r] = "loading"]
             /\ pending' = WithoutCancelled(pending) \cup {r}
             /\ fallbackRuns' = WithoutCancelled(fallbackRuns)
             /\ UNCHANGED <<primaryFailed, sync>>
    BY <2>2, <2>3 DEF WithoutCancelled
  <2>4. CASE /\ ~primaryFailed
             /\ primaryFailed' = TRUE
             /\ worker' = ReleaseAll(w)
             /\ pending' = WithoutCancelled(pending)
             /\ StartOnFallback(r)
    BY <2>2, <2>4 DEF WithoutCancelled, ReleaseAll, StartOnFallback
  <2>5. CASE /\ primaryFailed
             /\ worker' = w
             /\ pending' = WithoutCancelled(pending)
             /\ StartOnFallback(r)
             /\ UNCHANGED primaryFailed
    BY <2>2, <2>5 DEF WithoutCancelled, StartOnFallback, FailedInv, Alive
  <2> QED
    BY <2>1, <2>3, <2>4, <2>5
<1>6. TypeOK'
  <2>1. ClientTypes'
    BY <1>1, <1>3 DEF TypeOK, ClientTypes
  <2>2. WorkerTypes'
    BY <1>1, <1>5 DEF TypeOK, WorkerTypes
  <2>3. CountTypes'
    BY <1>1 DEF TypeOK, CountTypes
  <2>4. TransportTypes'
    <3>1. sync' \in [Runs -> {"none", "queued", "executing", "over"}]
      BY <1>5 DEF TypeOK
    <3>2. primaryFailed' \in BOOLEAN
      BY DEF Run, TypeOK
    <3> QED
      BY <1>5, <3>1, <3>2 DEF TypeOK, TransportTypes
  <2> QED
    BY <2>1, <2>2, <2>3, <2>4, TypesApartNext
<1>7. NewInv'
  <2> SUFFICES ASSUME NEW s \in Runs, outcome'[s] = "new"
               PROVE  /\ worker'[s] = "none" /\ sync'[s] = "none"
                      /\ posted'[s] = 0 /\ delivered'[s] = 0
    BY DEF NewInv
  <2>1. /\ s # r /\ worker[s] = "none" /\ sync[s] = "none"
        /\ posted[s] = 0 /\ delivered[s] = 0
    BY <1>3 DEF NewInv
  <2> QED
    BY <1>1, <1>5, <2>1 DEF TypeOK
<1>8. ActiveInv'
  BY <1>1, <1>3 DEF ActiveInv
<1>9. PendingInv'
  BY <1>1 DEF PendingInv
<1>10. FailedInv'
  BY <1>1, <1>5 DEF FailedInv, Alive
<1>11. FallbackInv'
  <2>1. fallbackRuns \subseteq {active} /\ pending \subseteq {active}
    BY DEF NothingKeptOfOtherRuns
  <2>2. CASE OnWorker
    BY <1>1, <1>2, <2>1, <2>2 DEF FallbackInv, OnPage
  <2>3. CASE OnFallback
    BY <1>1, <1>2, <2>1, <2>3 DEF FallbackInv, OnPage, TypeOK
  <2> QED
    BY <1>5, <2>2, <2>3
<1>12. PostedInv'
  <2> SUFFICES ASSUME NEW s \in Runs,
                      worker'[s] \in {"loading", "solving"} \/ OnPage(s)'
               PROVE  posted'[s] <= MaxProgress
    BY DEF PostedInv
  <2>1. CASE s = r
    BY <1>1, <1>2, <2>1
  <2>2. CASE s # r
    <3>1. worker[s] \in {"loading", "solving"} \/ OnPage(s)
      BY <1>5, <2>2 DEF OnPage, TypeOK
    <3> QED
      BY <1>1, <3>1 DEF PostedInv
  <2> QED
    BY <2>1, <2>2
<1>13. OneSolverPerRun'
  <2>1. CASE OnWorker
    BY <1>2, <2>1 DEF OneSolverPerRun, Alive
  <2>2. CASE OnFallback
    BY <2>2 DEF OneSolverPerRun, Alive
  <2> QED
    BY <1>5, <2>1, <2>2
<1>14. NothingKeptOfOtherRuns'
  BY <1>1, <1>5 DEF NothingKeptOfOtherRuns
<1>15. NothingOfActiveRunDropped'
  BY <1>1, <1>2 DEF NothingOfActiveRunDropped
<1> QED
  BY <1>6, <1>7, <1>8, <1>9, <1>10, <1>11, <1>12, <1>13, <1>14, <1>15

LEMMA CancelStep ==
  ASSUME IInv, Cancel
  PROVE  IInv'
<1> USE DEF IInv
<1>1. TypeOK'
  <2>1. ClientTypes'
    BY DEF Cancel, WithoutCancelled, WorkersAfterCancel, Release, Alive,
       TypeOK, ClientTypes, Outcomes
  <2>2. WorkerTypes'
    BY DEF Cancel, WithoutCancelled, WorkersAfterCancel, Release, Alive,
       TypeOK, WorkerTypes
  <2>3. CountTypes'
    BY DEF Cancel, WithoutCancelled, WorkersAfterCancel, Release, Alive,
       TypeOK, CountTypes, PostedInv, OnPage
  <2>4. TransportTypes'
    BY DEF Cancel, WithoutCancelled, WorkersAfterCancel, Release, Alive,
       TypeOK, TransportTypes
  <2> QED
    BY <2>1, <2>2, <2>3, <2>4, TypesApartNext
<1>2. NewInv'
  BY DEF Cancel, WithoutCancelled, WorkersAfterCancel, Release, Alive,
     NewInv, TypeOK
<1>3. ActiveInv'
  BY DEF Cancel, WithoutCancelled, WorkersAfterCancel, Release, Alive,
     ActiveInv, TypeOK
<1>4. PendingInv'
  BY DEF Cancel, WithoutCancelled, WorkersAfterCancel, Release, Alive,
     PendingInv, NothingKeptOfOtherRuns, TypeOK
<1>5. FailedInv'
  BY DEF Cancel, WithoutCancelled, WorkersAfterCancel, Release, Alive,
     FailedInv, TypeOK
<1>6. FallbackInv'
  BY DEF Cancel, WithoutCancelled, WorkersAfterCancel, Release, Alive,
     FallbackInv, NewInv, NothingKeptOfOtherRuns, OnPage, TypeOK
<1>7. PostedInv'
  BY DEF Cancel, WithoutCancelled, WorkersAfterCancel, Release, Alive,
     PostedInv, NewInv, OnPage, TypeOK
<1>8. OneSolverPerRun'
  BY DEF Cancel, WithoutCancelled, WorkersAfterCancel, Release, Alive,
     OneSolverPerRun, NewInv, FailedInv, TypeOK
<1>9. NothingKeptOfOtherRuns'
  BY DEF Cancel, WithoutCancelled, WorkersAfterCancel, Release, Alive,
     NothingKeptOfOtherRuns, TypeOK
<1>10. NothingOfActiveRunDropped'
  BY DEF Cancel, WithoutCancelled, WorkersAfterCancel, Release, Alive,
     NothingOfActiveRunDropped, PendingInv, FallbackInv, NewInv, TypeOK
<1> QED
  BY <1>1, <1>2, <1>3, <1>4, <1>5, <1>6, <1>7, <1>8, <1>9,
     <1>10

LEMMA DisposeStep ==
  ASSUME IInv, Dispose
  PROVE  IInv'
<1> USE DEF IInv
<1>1. TypeOK'
  <2>1. ClientTypes'
    BY DEF Dispose, ReleaseAll, Alive, TypeOK, ClientTypes, Outcomes
  <2>2. WorkerTypes'
    BY DEF Dispose, ReleaseAll, Alive, TypeOK, WorkerTypes
  <2>3. CountTypes'
    BY DEF Dispose, ReleaseAll, Alive, TypeOK, CountTypes, PostedInv, OnPage
  <2>4. TransportTypes'
    BY DEF Dispose, ReleaseAll, Alive, TypeOK, TransportTypes
  <2> QED
    BY <2>1, <2>2, <2>3, <2>4, TypesApartNext
<1>2. NewInv'
  BY DEF Dispose, ReleaseAll, Alive, NewInv, TypeOK
<1>3. ActiveInv'
  BY DEF Dispose, ReleaseAll, Alive, ActiveInv, TypeOK
<1>4. PendingInv'
  BY DEF Dispose, ReleaseAll, Alive, PendingInv, NothingKeptOfOtherRuns,
     TypeOK
<1>5. FailedInv'
  BY DEF Dispose, ReleaseAll, Alive, FailedInv, TypeOK
<1>6. FallbackInv'
  BY DEF Dispose, ReleaseAll, Alive, FallbackInv, NewInv,
     NothingKeptOfOtherRuns, OnPage, TypeOK
<1>7. PostedInv'
  BY DEF Dispose, ReleaseAll, Alive, PostedInv, NewInv, OnPage, TypeOK
<1>8. OneSolverPerRun'
  BY DEF Dispose, ReleaseAll, Alive, OneSolverPerRun, NewInv, FailedInv,
     TypeOK
<1>9. NothingKeptOfOtherRuns'
  BY DEF Dispose, ReleaseAll, Alive, NothingKeptOfOtherRuns, TypeOK
<1>10. NothingOfActiveRunDropped'
  BY DEF Dispose, ReleaseAll, Alive, NothingOfActiveRunDropped, PendingInv,
     FallbackInv, NewInv, TypeOK
<1> QED
  BY <1>1, <1>2, <1>3, <1>4, <1>5, <1>6, <1>7, <1>8, <1>9,
     <1>10

LEMMA LoadStep ==
  ASSUME IInv, NEW r \in Runs, Load(r)
  PROVE  IInv'
<1> USE DEF IInv
<1>1. TypeOK'
  <2>1. ClientTypes'
    BY DEF Load, clientVars, resilientVars, Alive, TypeOK, ClientTypes,
       Outcomes
  <2>2. WorkerTypes'
    BY DEF Load, clientVars, resilientVars, Alive, TypeOK, WorkerTypes
  <2>3. CountTypes'
    BY DEF Load, clientVars, resilientVars, Alive, TypeOK, CountTypes,
       PostedInv, OnPage
  <2>4. TransportTypes'
    BY DEF Load, clientVars, resilientVars, Alive, TypeOK, TransportTypes
  <2> QED
    BY <2>1, <2>2, <2>3, <2>4, TypesApartNext
<1>2. NewInv'
  BY DEF Load, clientVars, resilientVars, Alive, NewInv, TypeOK
<1>3. ActiveInv'
  BY DEF Load, clientVars, resilientVars, Alive, ActiveInv, TypeOK
<1>4. PendingInv'
  BY DEF Load, clientVars, resilientVars, Alive, PendingInv,
     NothingKeptOfOtherRuns, TypeOK
<1>5. FailedInv'
  BY DEF Load, clientVars, resilientVars, Alive, FailedInv, TypeOK
<1>6. FallbackInv'
  BY DEF Load, clientVars, resilientVars, Alive, FallbackInv, NewInv,
     NothingKeptOfOtherRuns, OnPage, TypeOK
<1>7. PostedInv'
  BY DEF Load, clientVars, resilientVars, Alive, PostedInv, NewInv, OnPage,
     TypeOK
<1>8. OneSolverPerRun'
  BY DEF Load, clientVars, resilientVars, Alive, OneSolverPerRun, NewInv,
     FailedInv, TypeOK
<1>9. NothingKeptOfOtherRuns'
  BY DEF Load, clientVars, resilientVars, Alive, NothingKeptOfOtherRuns,
     TypeOK
<1>10. NothingOfActiveRunDropped'
  BY DEF Load, clientVars, resilientVars, Alive, NothingOfActiveRunDropped,
     PendingInv, FallbackInv, NewInv, TypeOK
<1> QED
  BY <1>1, <1>2, <1>3, <1>4, <1>5, <1>6, <1>7, <1>8, <1>9,
     <1>10

LEMMA PostProgressStep ==
  ASSUME IInv, NEW r \in Runs, PostProgress(r)
  PROVE  IInv'
<1> USE DEF IInv
<1>1. TypeOK'
  <2>1. ClientTypes'
    BY DEF PostProgress, clientVars, resilientVars, Alive, TypeOK,
       ClientTypes, Outcomes
  <2>2. WorkerTypes'
    BY DEF PostProgress, clientVars, resilientVars, Alive, TypeOK, WorkerTypes
  <2>3. CountTypes'
    <3>1. posted[r] <= MaxProgress
      BY DEF PostProgress, PostedInv, OnPage
    <3>2. posted' = [posted EXCEPT ![r] = @ + 1] /\ UNCHANGED delivered
      BY DEF PostProgress
    <3> QED
      BY <3>1, <3>2, TypesApart, CountUp
  <2>4. TransportTypes'
    BY DEF PostProgress, clientVars, resilientVars, Alive, TypeOK,
       TransportTypes
  <2> QED
    BY <2>1, <2>2, <2>3, <2>4, TypesApartNext
<1>2. NewInv'
  BY DEF PostProgress, clientVars, resilientVars, Alive, NewInv, TypeOK
<1>3. ActiveInv'
  BY DEF PostProgress, clientVars, resilientVars, Alive, ActiveInv, TypeOK
<1>4. PendingInv'
  BY DEF PostProgress, clientVars, resilientVars, Alive, PendingInv,
     NothingKeptOfOtherRuns, TypeOK
<1>5. FailedInv'
  BY DEF PostProgress, clientVars, resilientVars, Alive, FailedInv, TypeOK
<1>6. FallbackInv'
  BY DEF PostProgress, clientVars, resilientVars, Alive, FallbackInv,
     NewInv, NothingKeptOfOtherRuns, OnPage, TypeOK
<1>7. PostedInv'
  BY DEF PostProgress, clientVars, resilientVars, Alive, PostedInv, NewInv,
     OnPage, TypeOK, OneSolverPerRun
<1>8. OneSolverPerRun'
  BY DEF PostProgress, clientVars, resilientVars, Alive, OneSolverPerRun,
     NewInv, FailedInv, TypeOK
<1>9. NothingKeptOfOtherRuns'
  BY DEF PostProgress, clientVars, resilientVars, Alive,
     NothingKeptOfOtherRuns, TypeOK
<1>10. NothingOfActiveRunDropped'
  BY DEF PostProgress, clientVars, resilientVars, Alive,
     NothingOfActiveRunDropped, PendingInv, FallbackInv, NewInv, TypeOK
<1> QED
  BY <1>1, <1>2, <1>3, <1>4, <1>5, <1>6, <1>7, <1>8, <1>9,
     <1>10

LEMMA PostOutcomeStep ==
  ASSUME IInv, NEW r \in Runs, PostOutcome(r)
  PROVE  IInv'
<1> USE DEF IInv
<1>1. TypeOK'
  <2>1. ClientTypes'
    BY DEF PostOutcome, clientVars, resilientVars, Alive, TypeOK, ClientTypes,
       Outcomes
  <2>2. WorkerTypes'
    BY DEF PostOutcome, clientVars, resilientVars, Alive, TypeOK, WorkerTypes
  <2>3. CountTypes'
    <3>1. posted[r] <= MaxProgress
      BY DEF PostOutcome, PostedInv, OnPage
    <3>2. posted' = [posted EXCEPT ![r] = @ + 1] /\ UNCHANGED delivered
      BY DEF PostOutcome
    <3> QED
      BY <3>1, <3>2, TypesApart, CountUp
  <2>4. TransportTypes'
    BY DEF PostOutcome, clientVars, resilientVars, Alive, TypeOK,
       TransportTypes
  <2> QED
    BY <2>1, <2>2, <2>3, <2>4, TypesApartNext
<1>2. NewInv'
  BY DEF PostOutcome, clientVars, resilientVars, Alive, NewInv, TypeOK
<1>3. ActiveInv'
  BY DEF PostOutcome, clientVars, resilientVars, Alive, ActiveInv, TypeOK
<1>4. PendingInv'
  BY DEF PostOutcome, clientVars, resilientVars, Alive, PendingInv,
     NothingKeptOfOtherRuns, TypeOK
<1>5. FailedInv'
  BY DEF PostOutcome, clientVars, resilientVars, Alive, FailedInv, TypeOK
<1>6. FallbackInv'
  BY DEF PostOutcome, clientVars, resilientVars, Alive, FallbackInv, NewInv,
     NothingKeptOfOtherRuns, OnPage, TypeOK
<1>7. PostedInv'
  BY DEF PostOutcome, clientVars, resilientVars, Alive, PostedInv, NewInv,
     OnPage, TypeOK, OneSolverPerRun
<1>8. OneSolverPerRun'
  BY DEF PostOutcome, clientVars, resilientVars, Alive, OneSolverPerRun,
     NewInv, FailedInv, TypeOK
<1>9. NothingKeptOfOtherRuns'
  BY DEF PostOutcome, clientVars, resilientVars, Alive,
     NothingKeptOfOtherRuns, TypeOK
<1>10. NothingOfActiveRunDropped'
  BY DEF PostOutcome, clientVars, resilientVars, Alive,
     NothingOfActiveRunDropped, PendingInv, FallbackInv, NewInv, TypeOK
<1> QED
  BY <1>1, <1>2, <1>3, <1>4, <1>5, <1>6, <1>7, <1>8, <1>9,
     <1>10

LEMMA BreakStep ==
  ASSUME IInv, NEW r \in Runs, Break(r)
  PROVE  IInv'
<1> USE DEF IInv
<1>1. TypeOK'
  <2>1. ClientTypes'
    BY DEF Break, clientVars, resilientVars, Alive, TypeOK, ClientTypes,
       Outcomes
  <2>2. WorkerTypes'
    BY DEF Break, clientVars, resilientVars, Alive, TypeOK, WorkerTypes
  <2>3. CountTypes'
    BY DEF Break, clientVars, resilientVars, Alive, TypeOK, CountTypes,
       PostedInv, OnPage
  <2>4. TransportTypes'
    BY DEF Break, clientVars, resilientVars, Alive, TypeOK, TransportTypes
  <2> QED
    BY <2>1, <2>2, <2>3, <2>4, TypesApartNext
<1>2. NewInv'
  BY DEF Break, clientVars, resilientVars, Alive, NewInv, TypeOK
<1>3. ActiveInv'
  BY DEF Break, clientVars, resilientVars, Alive, ActiveInv, TypeOK
<1>4. PendingInv'
  BY DEF Break, clientVars, resilientVars, Alive, PendingInv,
     NothingKeptOfOtherRuns, TypeOK
<1>5. FailedInv'
  BY DEF Break, clientVars, resilientVars, Alive, FailedInv, TypeOK
<1>6. FallbackInv'
  BY DEF Break, clientVars, resilientVars, Alive, FallbackInv, NewInv,
     NothingKeptOfOtherRuns, OnPage, TypeOK
<1>7. PostedInv'
  BY DEF Break, clientVars, resilientVars, Alive, PostedInv, NewInv, OnPage,
     TypeOK
<1>8. OneSolverPerRun'
  BY DEF Break, clientVars, resilientVars, Alive, OneSolverPerRun, NewInv,
     FailedInv, TypeOK
<1>9. NothingKeptOfOtherRuns'
  BY DEF Break, clientVars, resilientVars, Alive, NothingKeptOfOtherRuns,
     TypeOK
<1>10. NothingOfActiveRunDropped'
  BY DEF Break, clientVars, resilientVars, Alive, NothingOfActiveRunDropped,
     PendingInv, FallbackInv, NewInv, TypeOK
<1> QED
  BY <1>1, <1>2, <1>3, <1>4, <1>5, <1>6, <1>7, <1>8, <1>9,
     <1>10

LEMMA DeliverStep ==
  ASSUME IInv, NEW r \in Runs, Deliver(r)
  PROVE  IInv'
<1> USE DEF IInv
<1>1. TypeOK'
  <2>1. ClientTypes'
    <3>1. /\ delivered[r] + 1 \in -1 .. ErrorSequence
          /\ \A type \in {worker[r], "progress"} :
               (type = worker[r] => type \in {"complete", "error"})
                 => type \in {"progress", "complete", "error"}
      BY DEF TypeOK
    <3>2. \E type \in {"progress", "complete", "error"} :
            Receive(r, delivered[r] + 1, type)
      BY DEF Deliver
    <3> QED
      BY <3>1, <3>2, TypesApart, ReceiveTypes
  <2>2. WorkerTypes'
    BY DEF Deliver, ReleaseAfter, Release, clientVars, Alive, TypeOK,
       WorkerTypes
  <2>3. CountTypes'
    BY DEF Deliver, ReleaseAfter, Release, clientVars, Alive, TypeOK,
       CountTypes, PostedInv, OnPage
  <2>4. TransportTypes'
    BY DEF Deliver, ReleaseAfter, Release, clientVars, Alive, TypeOK,
       TransportTypes
  <2> QED
    BY <2>1, <2>2, <2>3, <2>4, TypesApartNext
<1>2. NewInv'
  BY DEF Deliver, Receive, IsFor, ReleaseAfter, Release, clientVars, Alive,
     NewInv, TypeOK
<1>3. ActiveInv'
  BY DEF Deliver, Receive, IsFor, ReleaseAfter, Release, clientVars, Alive,
     ActiveInv, TypeOK
<1>4. PendingInv'
  BY DEF Deliver, Receive, IsFor, ReleaseAfter, Release, clientVars, Alive,
     PendingInv, NothingKeptOfOtherRuns, TypeOK
<1>5. FailedInv'
  BY DEF Deliver, Receive, IsFor, ReleaseAfter, Release, clientVars, Alive,
     FailedInv, TypeOK
<1>6. FallbackInv'
  BY DEF Deliver, Receive, IsFor, ReleaseAfter, Release, clientVars, Alive,
     FallbackInv, NewInv, NothingKeptOfOtherRuns, OnPage, TypeOK
<1>7. PostedInv'
  BY DEF Deliver, Receive, IsFor, ReleaseAfter, Release, clientVars, Alive,
     PostedInv, NewInv, OnPage, TypeOK
<1>8. OneSolverPerRun'
  BY DEF Deliver, Receive, IsFor, ReleaseAfter, Release, clientVars, Alive,
     OneSolverPerRun, NewInv, FailedInv, TypeOK
<1>9. NothingKeptOfOtherRuns'
  BY DEF Deliver, Receive, IsFor, ReleaseAfter, Release, clientVars, Alive,
     NothingKeptOfOtherRuns, TypeOK, FallbackInv, OneSolverPerRun, OnPage,
     ActiveInv, NothingOfActiveRunDropped
<1>10. NothingOfActiveRunDropped'
  <2>1. r \notin fallbackRuns
    BY DEF Deliver, FallbackInv, OneSolverPerRun, OnPage
  <2>2. /\ delivered' = [delivered EXCEPT ![r] = @ + 1]
        /\ fallbackRuns' = fallbackRuns /\ posted' = posted
    BY DEF Deliver
  <2>3. \/ active' = NoRun
        \/ active' = active /\ lastSequence' = lastSequence
        \/ active' = active /\ active = r /\ lastSequence' = delivered[r] + 1
    BY DEF Deliver, Receive, IsFor, clientVars
  <2>4. /\ active \in Runs \cup {NoRun} /\ delivered \in [Runs -> Int]
        /\ lastSequence \in Int
    BY DEF TypeOK
  <2> QED
    BY <2>1, <2>2, <2>3, <2>4 DEF NothingOfActiveRunDropped
<1> QED
  BY <1>1, <1>2, <1>3, <1>4, <1>5, <1>6, <1>7, <1>8, <1>9,
     <1>10

LEMMA DeliverFailureStep ==
  ASSUME IInv, NEW r \in Runs, DeliverFailure(r)
  PROVE  IInv'
<1> USE DEF IInv
<1>1. /\ worker[r] = "broken" /\ pending' = pending \ {r}
      /\ UNCHANGED <<shared, delivered>>
  BY DEF DeliverFailure
<1>2. ~OnPage(r) /\ r \notin fallbackRuns /\ outcome[r] # "new"
  BY <1>1 DEF OneSolverPerRun, Alive, OnPage, FallbackInv, NewInv
<1>3. CASE r \in pending
  <2>1. /\ active = r /\ lastSequence = -1 /\ pending' = {}
        /\ UNCHANGED clientVars
        /\ primaryFailed' = TRUE
        /\ worker' = ReleaseAll(worker)
        /\ fallbackRuns' = fallbackRuns \cup {r}
        /\ sync' = [sync EXCEPT ![r] = "queued"]
        /\ posted' = [posted EXCEPT ![r] = 0]
    BY <1>1, <1>3
    DEF DeliverFailure, MayRestart, NothingKeptOfOtherRuns, PendingInv
  <2>2. \A s \in Runs : ~Alive(s)' /\ (worker[s] = "none" => worker'[s] = "none")
                        /\ worker'[s] \in {"none", "released"}
    BY <2>1 DEF ReleaseAll, Alive
  <2>3. TypeOK'
    <3>1. ClientTypes'
      BY <2>1 DEF TypeOK, ClientTypes, clientVars
    <3>2. WorkerTypes'
      BY <1>1, <2>1 DEF TypeOK, WorkerTypes, ReleaseAll
    <3>3. CountTypes'
      BY <1>1, <2>1 DEF TypeOK, CountTypes
    <3>4. TransportTypes'
      BY <2>1 DEF TypeOK, TransportTypes
    <3> QED
      BY <3>1, <3>2, <3>3, <3>4, TypesApartNext
  <2>4. NewInv'
    BY <1>1, <1>2, <2>1, <2>2 DEF NewInv, TypeOK, clientVars
  <2>5. ActiveInv' /\ PendingInv'
    BY <2>1 DEF ActiveInv, PendingInv, clientVars
  <2>6. FailedInv' /\ OneSolverPerRun'
    BY <2>2 DEF FailedInv, OneSolverPerRun
  <2>7. FallbackInv'
    BY <2>1 DEF FallbackInv, OnPage, TypeOK, clientVars
  <2>8. PostedInv'
    <3> SUFFICES ASSUME NEW s \in Runs,
                        worker'[s] \in {"loading", "solving"} \/ OnPage(s)'
                 PROVE  posted'[s] <= MaxProgress
      BY DEF PostedInv
    <3>1. CASE s = r
      BY <2>1, <3>1 DEF TypeOK
    <3>2. CASE s # r
      <4>1. OnPage(s)
        BY <2>1, <2>2, <3>2 DEF OnPage, TypeOK
      <4> QED
        BY <2>1, <3>2, <4>1 DEF PostedInv, TypeOK
    <3> QED
      BY <3>1, <3>2
  <2>9. NothingKeptOfOtherRuns'
    BY <2>1 DEF NothingKeptOfOtherRuns, clientVars
  <2>10. NothingOfActiveRunDropped'
    BY <2>1 DEF NothingOfActiveRunDropped, TypeOK, clientVars
  <2> QED
    BY <2>3, <2>4, <2>5, <2>6, <2>7, <2>8, <2>9, <2>10
<1>4. CASE r \notin pending
  <2>1. /\ Receive(r, ErrorSequence, "error")
        /\ worker' = Release(worker, r)
        /\ UNCHANGED <<pending, fallbackRuns, primaryFailed, posted, sync>>
    BY <1>1, <1>4 DEF DeliverFailure, MayRestart
  <2>2. /\ worker'[r] = "released"
        /\ \A s \in Runs : s # r => worker'[s] = worker[s]
    BY <2>1 DEF Release, TypeOK
  <2>3. \/ /\ active # r /\ UNCHANGED clientVars
        \/ /\ active' = NoRun /\ lastSequence' = -1 /\ UNCHANGED disposed
           /\ outcome' = [outcome EXCEPT ![r] = "error"]
           /\ pending = {} /\ fallbackRuns = {}
    <3>1. CASE active # r
      BY <2>1, <3>1 DEF Receive, IsFor
    <3>2. CASE active = r
      <4>1. lastSequence <= delivered[r]
        BY <1>2, <3>2 DEF NothingOfActiveRunDropped
      <4>2. ~disposed /\ ErrorSequence > lastSequence
        BY <3>2, <4>1 DEF ActiveInv, TypeOK
      <4>3. pending = {} /\ fallbackRuns = {}
        BY <1>2, <1>4, <3>2 DEF NothingKeptOfOtherRuns
      <4> QED
        BY <2>1, <3>2, <4>2, <4>3 DEF Receive, IsFor
    <3> QED
      BY <3>1, <3>2
  <2>4. outcome' \in [Runs -> Outcomes] /\
        \A s \in Runs : outcome'[s] = "new" => outcome[s] = "new" /\ s # r
    BY <1>2, <2>3 DEF TypeOK, Outcomes, clientVars
  <2>5. TypeOK'
    <3>1. ErrorSequence \in -1 .. ErrorSequence
      OBVIOUS
    <3>2. ClientTypes'
      BY <2>1, <3>1, TypesApart, ReceiveTypes
    <3>3. WorkerTypes'
      BY <1>1, <2>1 DEF TypeOK, WorkerTypes, Release
    <3>4. CountTypes' /\ TransportTypes'
      BY <1>1, <2>1 DEF TypeOK, CountTypes, TransportTypes
    <3> QED
      BY <3>2, <3>3, <3>4, TypesApartNext
  <2>6. NewInv'
    BY <1>1, <2>1, <2>2, <2>4 DEF NewInv
  <2>7. ActiveInv' /\ PendingInv'
    BY <2>1, <2>3 DEF ActiveInv, PendingInv, TypeOK, clientVars
  <2>8. FailedInv'
    BY <2>1, <2>2, <2>3 DEF FailedInv, Alive, clientVars
  <2>9. OneSolverPerRun'
    BY <2>1, <2>2 DEF OneSolverPerRun, Alive
  <2>10. FallbackInv'
    BY <2>1, <2>3 DEF FallbackInv, OnPage, clientVars
  <2>11. PostedInv'
    BY <2>1, <2>2 DEF PostedInv, OnPage
  <2>12. NothingKeptOfOtherRuns'
    BY <2>1, <2>3 DEF NothingKeptOfOtherRuns, clientVars
  <2>13. NothingOfActiveRunDropped'
    BY <1>1, <2>1, <2>3 DEF NothingOfActiveRunDropped, clientVars
  <2> QED
    BY <2>5, <2>6, <2>7, <2>8, <2>9, <2>10, <2>11, <2>12, <2>13
<1> QED
  BY <1>3, <1>4

LEMMA ExecuteStep ==
  ASSUME IInv, NEW r \in Runs, Execute(r)
  PROVE  IInv'
<1> USE DEF IInv
<1>1. TypeOK'
  <2>1. ClientTypes'
    BY DEF Execute, clientVars, resilientVars, workerVars, Alive, TypeOK,
       ClientTypes, Outcomes
  <2>2. WorkerTypes'
    BY DEF Execute, clientVars, resilientVars, workerVars, Alive, TypeOK,
       WorkerTypes
  <2>3. CountTypes'
    BY DEF Execute, clientVars, resilientVars, workerVars, Alive, TypeOK,
       CountTypes, PostedInv, OnPage
  <2>4. TransportTypes'
    BY DEF Execute, clientVars, resilientVars, workerVars, Alive, TypeOK,
       TransportTypes
  <2> QED
    BY <2>1, <2>2, <2>3, <2>4, TypesApartNext
<1>2. NewInv'
  BY DEF Execute, clientVars, resilientVars, workerVars, Alive, NewInv,
     TypeOK
<1>3. ActiveInv'
  BY DEF Execute, clientVars, resilientVars, workerVars, Alive, ActiveInv,
     TypeOK
<1>4. PendingInv'
  BY DEF Execute, clientVars, resilientVars, workerVars, Alive, PendingInv,
     NothingKeptOfOtherRuns, TypeOK
<1>5. FailedInv'
  BY DEF Execute, clientVars, resilientVars, workerVars, Alive, FailedInv,
     TypeOK
<1>6. FallbackInv'
  BY DEF Execute, clientVars, resilientVars, workerVars, Alive, FallbackInv,
     NewInv, NothingKeptOfOtherRuns, OnPage, TypeOK
<1>7. PostedInv'
  BY DEF Execute, clientVars, resilientVars, workerVars, Alive, PostedInv,
     NewInv, OnPage, TypeOK
<1>8. OneSolverPerRun'
  BY DEF Execute, clientVars, resilientVars, workerVars, Alive,
     OneSolverPerRun, NewInv, FailedInv, TypeOK
<1>9. NothingKeptOfOtherRuns'
  BY DEF Execute, clientVars, resilientVars, workerVars, Alive,
     NothingKeptOfOtherRuns, TypeOK
<1>10. NothingOfActiveRunDropped'
  BY DEF Execute, clientVars, resilientVars, workerVars, Alive,
     NothingOfActiveRunDropped, PendingInv, FallbackInv, NewInv, TypeOK
<1> QED
  BY <1>1, <1>2, <1>3, <1>4, <1>5, <1>6, <1>7, <1>8, <1>9,
     <1>10

LEMMA ExecuteProgressStep ==
  ASSUME IInv, NEW r \in Runs, ExecuteProgress(r)
  PROVE  IInv'
<1> USE DEF IInv
<1>1. TypeOK'
  <2>1. ClientTypes'
    <3>1. posted[r] + 1 \in -1 .. ErrorSequence
      BY DEF TypeOK
    <3>2. \E type \in {"progress", "complete", "error"} :
            Receive(r, posted[r] + 1, type)
      BY DEF ExecuteProgress
    <3> QED
      BY <3>1, <3>2, TypesApart, ReceiveTypes
  <2>2. WorkerTypes'
    BY DEF ExecuteProgress, resilientVars, clientVars, Alive, TypeOK,
       WorkerTypes
  <2>3. CountTypes'
    <3>1. posted[r] <= MaxProgress
      BY DEF ExecuteProgress, PostedInv, OnPage
    <3>2. posted' = [posted EXCEPT ![r] = @ + 1] /\ UNCHANGED delivered
      BY DEF ExecuteProgress
    <3> QED
      BY <3>1, <3>2, TypesApart, CountUp
  <2>4. TransportTypes'
    BY DEF ExecuteProgress, resilientVars, clientVars, Alive, TypeOK,
       TransportTypes
  <2> QED
    BY <2>1, <2>2, <2>3, <2>4, TypesApartNext
<1>2. NewInv'
  BY DEF ExecuteProgress, Receive, IsFor, resilientVars, clientVars, Alive,
     NewInv, TypeOK
<1>3. ActiveInv'
  BY DEF ExecuteProgress, Receive, IsFor, resilientVars, clientVars, Alive,
     ActiveInv, TypeOK
<1>4. PendingInv'
  BY DEF ExecuteProgress, Receive, IsFor, resilientVars, clientVars, Alive,
     PendingInv, NothingKeptOfOtherRuns, TypeOK, FallbackInv, OnPage
<1>5. FailedInv'
  BY DEF ExecuteProgress, Receive, IsFor, resilientVars, clientVars, Alive,
     FailedInv, TypeOK
<1>6. FallbackInv'
  BY DEF ExecuteProgress, Receive, IsFor, resilientVars, clientVars, Alive,
     FallbackInv, NewInv, NothingKeptOfOtherRuns, OnPage, TypeOK
<1>7. PostedInv'
  BY DEF ExecuteProgress, Receive, IsFor, resilientVars, clientVars, Alive,
     PostedInv, NewInv, OnPage, TypeOK
<1>8. OneSolverPerRun'
  BY DEF ExecuteProgress, Receive, IsFor, resilientVars, clientVars, Alive,
     OneSolverPerRun, NewInv, FailedInv, TypeOK
<1>9. NothingKeptOfOtherRuns'
  BY DEF ExecuteProgress, Receive, IsFor, resilientVars, clientVars, Alive,
     NothingKeptOfOtherRuns, TypeOK
<1>10. NothingOfActiveRunDropped'
  <2>1. UNCHANGED <<active, fallbackRuns, delivered>>
    BY DEF ExecuteProgress, Receive, resilientVars, clientVars
  <2>2. CASE active = r
    <3>1. r \in fallbackRuns
      BY <2>2 DEF ExecuteProgress, FallbackInv, OnPage
    <3>2. lastSequence <= posted[r] /\ posted[r] \in Int /\ lastSequence \in Int
      BY <2>2, <3>1 DEF NothingOfActiveRunDropped, TypeOK
    <3>3. posted'[r] = posted[r] + 1
      BY DEF ExecuteProgress, TypeOK
    <3>4. lastSequence' \in {lastSequence, posted[r] + 1}
      BY DEF ExecuteProgress, Receive, clientVars
    <3> QED
      BY <2>1, <2>2, <3>1, <3>2, <3>3, <3>4 DEF NothingOfActiveRunDropped
  <2>3. CASE active # r
    <3>1. UNCHANGED lastSequence
      BY <2>3 DEF ExecuteProgress, Receive, IsFor, clientVars
    <3>2. active # NoRun => posted'[active] = posted[active]
      BY <2>3 DEF ExecuteProgress, TypeOK
    <3> QED
      BY <2>1, <3>1, <3>2 DEF NothingOfActiveRunDropped
  <2> QED
    BY <2>2, <2>3
<1> QED
  BY <1>1, <1>2, <1>3, <1>4, <1>5, <1>6, <1>7, <1>8, <1>9,
     <1>10

LEMMA ExecuteOutcomeStep ==
  ASSUME IInv, NEW r \in Runs, ExecuteOutcome(r)
  PROVE  IInv'
<1> USE DEF IInv
<1>1. TypeOK'
  <2>1. ClientTypes'
    <3>1. posted[r] + 1 \in -1 .. ErrorSequence
      BY DEF TypeOK
    <3>2. \E type \in {"progress", "complete", "error"} :
            Receive(r, posted[r] + 1, type)
      BY DEF ExecuteOutcome
    <3> QED
      BY <3>1, <3>2, TypesApart, ReceiveTypes
  <2>2. WorkerTypes'
    BY DEF ExecuteOutcome, clientVars, Alive, TypeOK, WorkerTypes
  <2>3. CountTypes'
    <3>1. posted[r] <= MaxProgress
      BY DEF ExecuteOutcome, PostedInv, OnPage
    <3>2. posted' = [posted EXCEPT ![r] = @ + 1] /\ UNCHANGED delivered
      BY DEF ExecuteOutcome
    <3> QED
      BY <3>1, <3>2, TypesApart, CountUp
  <2>4. TransportTypes'
    BY DEF ExecuteOutcome, clientVars, Alive, TypeOK, TransportTypes
  <2> QED
    BY <2>1, <2>2, <2>3, <2>4, TypesApartNext
<1>2. NewInv'
  BY DEF ExecuteOutcome, Receive, IsFor, clientVars, Alive, NewInv, TypeOK
<1>3. ActiveInv'
  BY DEF ExecuteOutcome, Receive, IsFor, clientVars, Alive, ActiveInv,
     TypeOK
<1>4. PendingInv'
  BY DEF ExecuteOutcome, Receive, IsFor, clientVars, Alive, PendingInv,
     NothingKeptOfOtherRuns, TypeOK
<1>5. FailedInv'
  BY DEF ExecuteOutcome, Receive, IsFor, clientVars, Alive, FailedInv,
     TypeOK
<1>6. FallbackInv'
  BY DEF ExecuteOutcome, Receive, IsFor, clientVars, Alive, FallbackInv,
     NewInv, NothingKeptOfOtherRuns, OnPage, TypeOK, ActiveInv,
     NothingOfActiveRunDropped
<1>7. PostedInv'
  <2> SUFFICES ASSUME NEW s \in Runs,
                      worker'[s] \in {"loading", "solving"} \/ OnPage(s)'
               PROVE  posted'[s] <= MaxProgress
    BY DEF PostedInv
  <2>1. s # r
    BY DEF ExecuteOutcome, OnPage, OneSolverPerRun, Alive, TypeOK
  <2>2. posted'[s] = posted[s] /\ worker' = worker /\ sync'[s] = sync[s]
    BY <2>1 DEF ExecuteOutcome, TypeOK
  <2> QED
    BY <2>2 DEF PostedInv, OnPage
<1>8. OneSolverPerRun'
  BY DEF ExecuteOutcome, Receive, IsFor, clientVars, Alive, OneSolverPerRun,
     NewInv, FailedInv, TypeOK
<1>9. NothingKeptOfOtherRuns'
  BY DEF ExecuteOutcome, Receive, IsFor, clientVars, Alive,
     NothingKeptOfOtherRuns, TypeOK, FallbackInv, OnPage, ActiveInv,
     NothingOfActiveRunDropped
<1>10. NothingOfActiveRunDropped'
  BY DEF ExecuteOutcome, Receive, IsFor, clientVars, Alive,
     NothingOfActiveRunDropped, PendingInv, FallbackInv, NewInv, TypeOK,
     OnPage, ActiveInv
<1> QED
  BY <1>1, <1>2, <1>3, <1>4, <1>5, <1>6, <1>7, <1>8, <1>9,
     <1>10

LEMMA StutterStep ==
  ASSUME IInv, UNCHANGED vars
  PROVE  IInv'
<1> USE DEF IInv, vars
<1>1. TypeOK'
  BY DEF TypeOK
<1>2. NewInv' /\ ActiveInv' /\ PendingInv'
  BY DEF NewInv, ActiveInv, PendingInv
<1>3. FailedInv' /\ OneSolverPerRun'
  BY DEF FailedInv, OneSolverPerRun, Alive
<1>4. FallbackInv' /\ PostedInv'
  BY DEF FallbackInv, PostedInv, OnPage
<1>5. NothingKeptOfOtherRuns' /\ NothingOfActiveRunDropped'
  BY DEF NothingKeptOfOtherRuns, NothingOfActiveRunDropped
<1> QED
  BY <1>1, <1>2, <1>3, <1>4, <1>5

LEMMA IInvStep == IInv /\ [Next]_vars => IInv'
<1> SUFFICES ASSUME IInv, [Next]_vars PROVE IInv'
  OBVIOUS
<1>1. CASE Cancel
  BY <1>1, CancelStep
<1>2. CASE Dispose
  BY <1>2, DisposeStep
<1>3. ASSUME NEW r \in Runs, Run(r) PROVE IInv'
  BY <1>3, RunStep
<1>4. ASSUME NEW r \in Runs, Load(r) PROVE IInv'
  BY <1>4, LoadStep
<1>5. ASSUME NEW r \in Runs, PostProgress(r) PROVE IInv'
  BY <1>5, PostProgressStep
<1>6. ASSUME NEW r \in Runs, PostOutcome(r) PROVE IInv'
  BY <1>6, PostOutcomeStep
<1>7. ASSUME NEW r \in Runs, Break(r) PROVE IInv'
  BY <1>7, BreakStep
<1>8. ASSUME NEW r \in Runs, Deliver(r) PROVE IInv'
  BY <1>8, DeliverStep
<1>9. ASSUME NEW r \in Runs, DeliverFailure(r) PROVE IInv'
  BY <1>9, DeliverFailureStep
<1>10. ASSUME NEW r \in Runs, Execute(r) PROVE IInv'
  BY <1>10, ExecuteStep
<1>11. ASSUME NEW r \in Runs, ExecuteProgress(r) PROVE IInv'
  BY <1>11, ExecuteProgressStep
<1>12. ASSUME NEW r \in Runs, ExecuteOutcome(r) PROVE IInv'
  BY <1>12, ExecuteOutcomeStep
<1>13. CASE UNCHANGED vars
  BY <1>13, StutterStep
<1> QED
  BY <1>1, <1>2, <1>3, <1>4, <1>5, <1>6, <1>7, <1>8, <1>9, <1>10, <1>11,
     <1>12, <1>13 DEF Next

THEOREM Inductive == Spec => []IInv
<1>1. Spec => Init /\ [][Next]_vars
  BY DEF Spec, Safety
<1> QED
  BY <1>1, InitIInv, IInvStep, PTL

-----------------------------------------------------------------------------

\* Every variable keeps its type: no sequence number above the error's, no
\* message counted that an execution did not post.
THEOREM SolverTypeOK == Spec => []TypeOK
<1>1. IInv => TypeOK
  BY DEF IInv
<1> QED
  BY <1>1, Inductive, PTL

\* The client drops no message of the run its caller waits for, also after a
\* restart on the page; no run is searched by a worker and by the page at once;
\* the transports forget every run but the active one.
THEOREM SolverKeepsRunsApart == Spec => []RunsKeptApart
<1>1. IInv => RunsKeptApart
  BY DEF IInv, RunsKeptApart
<1> QED
  BY <1>1, Inductive, PTL

-----------------------------------------------------------------------------

\* A message maps to the settling of the active run, or to nothing.
LEMMA ReceiveMaps ==
  ASSUME IInv, NEW r \in Runs, NEW sequence,
         NEW type \in {"progress", "complete", "error"},
         Receive(r, sequence, type)
  PROVE  Promise!Next \/ UNCHANGED Promise!vars
<1>1. CASE type # "progress" /\ active' = NoRun /\ active = r
           /\ outcome' = [outcome EXCEPT ![active] = type]
           /\ result' = [result EXCEPT ![active] = r]
  BY <1>1 DEF Promise!Next, Promise!Settle, Promise!NoRun
<1>2. CASE UNCHANGED <<active, outcome, result>>
  BY <1>2 DEF Promise!vars
<1> QED
  BY <1>1, <1>2 DEF Receive, IsFor, clientVars

LEMMA StepMaps ==
  ASSUME IInv, [Next]_vars
  PROVE  [Promise!Next]_(Promise!vars)
<1> DEFINE Mapped == Promise!Next \/ UNCHANGED Promise!vars
<1>1. ASSUME NEW r \in Runs, Run(r) PROVE Mapped
  <2>1. Promise!Start(r)
    BY <1>1 DEF Run, Replaced, Promise!Start
  <2> QED
    BY <2>1 DEF Promise!Next
<1>2. CASE Cancel
  <2>1. active \in Runs
    BY <1>2 DEF IInv, TypeOK, Cancel
  <2>2. Promise!Withdraw(active)
    BY <1>2 DEF Cancel, Promise!Withdraw, Promise!NoRun
  <2> QED
    BY <2>1, <2>2 DEF Promise!Next
<1>3. CASE Dispose
  <2>1. CASE active = NoRun
    <3>1. outcome' = outcome
      BY <1>3, <2>1 DEF Dispose, IInv, TypeOK
    <3> QED
      BY <1>3, <2>1, <3>1 DEF Dispose, Promise!vars
  <2>2. CASE active # NoRun
    <3>1. active \in Runs
      BY <2>2 DEF IInv, TypeOK
    <3>2. outcome' = [outcome EXCEPT ![active] = "disposed"]
      BY <1>3, <3>1 DEF Dispose, IInv, TypeOK
    <3>3. Promise!Withdraw(active)
      BY <1>3, <3>2 DEF Dispose, Promise!Withdraw, Promise!NoRun
    <3> QED
      BY <3>1, <3>3 DEF Promise!Next
  <2> QED
    BY <2>1, <2>2
<1>4. ASSUME NEW r \in Runs,
             Load(r) \/ PostProgress(r) \/ PostOutcome(r) \/ Break(r) \/ Execute(r)
      PROVE  Mapped
  BY <1>4 DEF Load, PostProgress, PostOutcome, Break, Execute, clientVars,
     Promise!vars
<1>5. ASSUME NEW r \in Runs, Deliver(r) PROVE Mapped
  <2> DEFINE type == IF worker[r] \in {"complete", "error"} /\ delivered[r] + 1 = posted[r]
                     THEN worker[r] ELSE "progress"
  <2>1. Receive(r, delivered[r] + 1, type)
    BY <1>5 DEF Deliver
  <2>2. type \in {"progress", "complete", "error"}
    OBVIOUS
  <2> HIDE DEF type
  <2> QED
    BY <2>1, <2>2, ReceiveMaps
<1>6. ASSUME NEW r \in Runs, DeliverFailure(r) PROVE Mapped
  <2>1. CASE UNCHANGED clientVars
    BY <2>1 DEF clientVars, Promise!vars
  <2>2. CASE Receive(r, ErrorSequence, "error")
    BY <2>2, ReceiveMaps
  <2> QED
    BY <1>6, <2>1, <2>2 DEF DeliverFailure
<1>7. ASSUME NEW r \in Runs, ExecuteProgress(r) \/ ExecuteOutcome(r)
      PROVE  Mapped
  <2>1. \E type \in {"progress", "complete", "error"} :
          Receive(r, posted[r] + 1, type)
    BY <1>7 DEF ExecuteProgress, ExecuteOutcome
  <2> QED
    BY <2>1, ReceiveMaps
<1>8. CASE UNCHANGED vars
  BY <1>8 DEF vars, Promise!vars
<1> QED
  BY <1>1, <1>2, <1>3, <1>4, <1>5, <1>6, <1>7, <1>8 DEF Next

\* The client on its transports implements exclusive runs: a run starts once, is
\* over once, and only its own message settles it.
THEOREM SolverKeepsPromise == Spec => KeepsPromise
<1>1. Init => Promise!Init
  BY DEF Init, Promise!Init, Promise!NoRun
<1>2. IInv /\ [Next]_vars => [Promise!Next]_(Promise!vars)
  BY StepMaps
<1>3. Spec => Init /\ [][Next]_vars
  BY DEF Spec, Safety
<1> QED
  BY <1>1, <1>2, <1>3, Inductive, PTL DEF KeepsPromise, Promise!Spec

HIDE BoundsAssumption DEF Runs, NoRun, ErrorSequence

-----------------------------------------------------------------------------
(* The detection of the sheet.                                             *)

\* The instances have copies of the operators of FiniteSets.
LEMMA DetectionsCounted ==
  ASSUME NEW S
  PROVE  /\ Doc!Cardinality(S) = Cardinality(S)
         /\ Assets!Cardinality(S) = Cardinality(S)
  BY DEF Cardinality, Doc!Cardinality, Assets!Cardinality

-----------------------------------------------------------------------------
(* The places of a sequence whose elements are in a set.                   *)

Places(s, M) == {i \in DOMAIN s : s[i] \in M}

Count(s, M) == Cardinality(Places(s, M))

LEMMA CountType ==
  ASSUME NEW S, NEW s \in Seq(S), NEW M
  PROVE  /\ IsFiniteSet(Places(s, M)) /\ Count(s, M) \in Nat
         /\ Count(s, M) = 0 <=> \A i \in DOMAIN s : s[i] \notin M
<1>1. IsFiniteSet(DOMAIN s)
  BY FS_Interval, LenProperties
<1>2. Places(s, M) \in SUBSET DOMAIN s
  BY DEF Places
<1>3. IsFiniteSet(Places(s, M))
  BY <1>1, <1>2, FS_Subset
<1>4. Count(s, M) = 0 <=> Places(s, M) = {}
  BY <1>3, FS_EmptySet DEF Count
<1> QED
  BY <1>3, <1>4, FS_CardinalityType DEF Count, Places

LEMMA CountAppend ==
  ASSUME NEW S, NEW s \in Seq(S), NEW e \in S, NEW M
  PROVE  Count(Append(s, e), M) = Count(s, M) + (IF e \in M THEN 1 ELSE 0)
<1> DEFINE n == Len(s) + 1
<1>1. /\ DOMAIN Append(s, e) = DOMAIN s \cup {n} /\ n \notin DOMAIN s
      /\ Append(s, e)[n] = e
      /\ \A i \in DOMAIN s : Append(s, e)[i] = s[i]
  BY AppendProperties, LenProperties
<1>2. IsFiniteSet(Places(s, M)) /\ Count(s, M) \in Nat
  BY CountType
<1> HIDE DEF n
<1>3. n \notin Places(s, M)
  BY <1>1 DEF Places
<1>4. CASE e \in M
  <2>1. Places(Append(s, e), M) = Places(s, M) \cup {n}
    BY <1>1, <1>4 DEF Places
  <2> QED
    BY <1>2, <1>3, <1>4, <2>1, FS_AddElement DEF Count
<1>5. CASE e \notin M
  <2>1. Places(Append(s, e), M) = Places(s, M)
    BY <1>1, <1>5 DEF Places
  <2> QED
    BY <1>2, <1>5, <2>1 DEF Count
<1> QED
  BY <1>4, <1>5

LEMMA CountTail ==
  ASSUME NEW S, NEW s \in Seq(S), s # <<>>, NEW M
  PROVE  Count(Tail(s), M) = Count(s, M) - (IF Head(s) \in M THEN 1 ELSE 0)
<1> DEFINE P == Places(s, M) \ {1}
           T == Places(Tail(s), M)
           f == [i \in P |-> i - 1]
<1>1. /\ Head(s) = s[1] /\ 1 \in DOMAIN s /\ Len(s) \in Nat
      /\ Tail(s) \in Seq(S) /\ DOMAIN Tail(s) = 1 .. Len(s) - 1
      /\ DOMAIN s = 1 .. Len(s)
      /\ \A i \in 1 .. Len(s) - 1 : Tail(s)[i] = s[i + 1]
  BY HeadTailProperties, LenProperties
<1>2. IsFiniteSet(Places(s, M)) /\ Count(s, M) \in Nat
  BY CountType
<1>3. IsFiniteSet(P)
      /\ Cardinality(P) = Count(s, M) - (IF Head(s) \in M THEN 1 ELSE 0)
  <2>1. 1 \in Places(s, M) <=> Head(s) \in M
    BY <1>1 DEF Places
  <2> QED
    BY <1>2, <2>1, FS_RemoveElement DEF Count
<1>4. \A i \in P : i \in 2 .. Len(s) /\ s[i] \in M /\ i - 1 \in T
  <2> TAKE i \in P
  <2>1. i \in 2 .. Len(s) /\ s[i] \in M
    BY <1>1 DEF Places
  <2>2. i - 1 \in 1 .. Len(s) - 1 /\ Tail(s)[i - 1] = s[i]
    BY <1>1, <2>1
  <2> QED
    BY <1>1, <2>1, <2>2 DEF Places
<1>5. \A j \in T : j + 1 \in P /\ j \in Int /\ (j + 1) - 1 = j
  <2> TAKE j \in T
  <2>1. j \in 1 .. Len(s) - 1 /\ s[j + 1] \in M
    BY <1>1 DEF Places
  <2> QED
    BY <1>1, <2>1 DEF Places
<1> HIDE DEF P, T
<1>6. f \in Bijection(P, T)
  <2>1. f \in [P -> T]
    BY <1>4
  <2>2. \A i, j \in P : f[i] = f[j] => i = j
    BY <1>4
  <2>3. \A j \in T : \E i \in P : f[i] = j
    BY <1>5
  <2> QED
    BY <2>1, <2>2, <2>3 DEF Bijection, Injection, Surjection, IsInjective
<1>7. Cardinality(T) = Cardinality(P)
  BY <1>3, <1>6, FS_Bijection DEF ExistsBijection
<1> QED
  BY <1>3, <1>7 DEF Count, T

LEMMA AppendTwo ==
  ASSUME NEW S, NEW s \in Seq(S), NEW e \in S, NEW f \in S
  PROVE  /\ s \o <<e>> = Append(s, e)
         /\ s \o <<e, f>> = Append(Append(s, e), f)
         /\ Append(s, e) \in Seq(S) /\ Append(Append(s, e), f) \in Seq(S)
<1> DEFINE A == Append(s, e)
           B == Append(A, f)
           C == s \o <<e, f>>
<1>1. s \o <<e>> = A /\ A \in Seq(S) /\ B \in Seq(S)
  BY AppendIsConcat, AppendProperties
<1>2. <<e, f>> \in Seq(S) /\ Len(<<e, f>>) = 2
      /\ <<e, f>>[1] = e /\ <<e, f>>[2] = f
  OBVIOUS
<1>3. Len(s) \in Nat /\ DOMAIN s = 1 .. Len(s)
  BY LenProperties
<1>4. /\ C \in Seq(S) /\ Len(C) = Len(s) + 2
      /\ \A i \in 1 .. Len(s) + 2 :
           C[i] = IF i <= Len(s) THEN s[i] ELSE <<e, f>>[i - Len(s)]
  BY <1>2, ConcatProperties
<1>5. /\ Len(B) = Len(s) + 2 /\ B[Len(s) + 1] = e /\ B[Len(s) + 2] = f
      /\ \A i \in 1 .. Len(s) : B[i] = s[i]
  BY <1>3, AppendProperties
<1> HIDE DEF B, C
<1>6. ASSUME NEW i \in 1 .. Len(B) PROVE B[i] = C[i]
  <2>1. CASE i \in 1 .. Len(s)
    BY <1>3, <1>4, <1>5, <2>1
  <2>2. CASE i = Len(s) + 1
    BY <1>2, <1>3, <1>4, <1>5, <2>2
  <2>3. CASE i = Len(s) + 2
    BY <1>2, <1>3, <1>4, <1>5, <2>3
  <2> QED
    BY <1>3, <1>5, <2>1, <2>2, <2>3
<1>7. B = C
  BY <1>1, <1>4, <1>5, <1>6, SeqEqual
<1> QED
  BY <1>1, <1>7 DEF B, C

-----------------------------------------------------------------------------
(* The messages between the page and the worker of the detection.          *)

DetectOf(r) == {Doc!Message("detect", r)}

AnswersTo(r) == {Doc!Message("detected", r), Doc!Message("detectFailed", r)}

LEMMA MessageFields ==
  \A t, o : Doc!Message(t, o).type = t /\ Doc!Message(t, o).of = o
BY DEF Doc!Message

LEMMA ToWorkerMessages ==
  /\ Doc!Message("prefetch", "all") \in Doc!ToWorker
  /\ Doc!Message("load", "all") \in Doc!ToWorker
  /\ \A r \in Doc!Requesters : Doc!Message("detect", r) \in Doc!ToWorker
  /\ \A m \in Doc!ToWorker :
       /\ m.type \in {"prefetch", "load", "detect"}
       /\ m.type = "detect" => m.of \in Doc!Requesters
       /\ \A r \in Doc!Requesters : m \in DetectOf(r) <=> m.type = "detect" /\ m.of = r
<1>1. ASSUME NEW m \in Doc!ToWorker
      PROVE  /\ m = Doc!Message(m.type, m.of)
             /\ m.type \in {"prefetch", "load", "detect"}
             /\ m.type = "detect" => m.of \in Doc!Requesters
  BY MessageFields DEF Doc!ToWorker
<1>2. ASSUME NEW m \in Doc!ToWorker, NEW r \in Doc!Requesters
      PROVE  m \in DetectOf(r) <=> m.type = "detect" /\ m.of = r
  BY <1>1, MessageFields DEF DetectOf
<1>3. /\ Doc!Message("prefetch", "all") \in Doc!ToWorker
      /\ Doc!Message("load", "all") \in Doc!ToWorker
      /\ \A r \in Doc!Requesters : Doc!Message("detect", r) \in Doc!ToWorker
  BY DEF Doc!ToWorker
<1> QED
  BY <1>1, <1>2, <1>3

LEMMA ToPageMessages ==
  /\ Doc!Message("loadFailed", "all") \in Doc!ToPage
  /\ \A b \in Doc!Backends : Doc!Message("loaded", b) \in Doc!ToPage
  /\ \A r \in Doc!Requesters : /\ Doc!Message("detected", r) \in Doc!ToPage
                               /\ Doc!Message("detectFailed", r) \in Doc!ToPage
  /\ \A m \in Doc!ToPage :
       /\ m.type \in {"loaded", "loadFailed", "detected", "detectFailed"}
       /\ m.type = "loaded" => m.of \in Doc!Backends
       /\ m.type \in {"detected", "detectFailed"} => m.of \in Doc!Requesters
       /\ \A r \in Doc!Requesters :
            m \in AnswersTo(r) <=> m.type \in {"detected", "detectFailed"} /\ m.of = r
<1>1. ASSUME NEW m \in Doc!ToPage
      PROVE  /\ m = Doc!Message(m.type, m.of)
             /\ m.type \in {"loaded", "loadFailed", "detected", "detectFailed"}
             /\ m.type = "loaded" => m.of \in Doc!Backends
             /\ m.type \in {"detected", "detectFailed"} => m.of \in Doc!Requesters
  BY MessageFields DEF Doc!ToPage
<1>2. ASSUME NEW m \in Doc!ToPage, NEW r \in Doc!Requesters
      PROVE  m \in AnswersTo(r) <=> m.type \in {"detected", "detectFailed"} /\ m.of = r
  <2>1. m \in AnswersTo(r) => m.type \in {"detected", "detectFailed"} /\ m.of = r
    BY MessageFields DEF AnswersTo
  <2>2. m.type \in {"detected", "detectFailed"} /\ m.of = r => m \in AnswersTo(r)
    BY <1>1 DEF AnswersTo
  <2> QED
    BY <2>1, <2>2
<1>3. /\ Doc!Message("loadFailed", "all") \in Doc!ToPage
      /\ \A b \in Doc!Backends : Doc!Message("loaded", b) \in Doc!ToPage
      /\ \A r \in Doc!Requesters : /\ Doc!Message("detected", r) \in Doc!ToPage
                                   /\ Doc!Message("detectFailed", r) \in Doc!ToPage
  BY DEF Doc!ToPage
<1> QED
  BY <1>1, <1>2, <1>3

\* What the page will show once it has read the messages of box: the session b,
\* or that there is none.
Tells(box, seen, b) ==
  \/ \E i \in DOMAIN box : box[i].type = "loadFailed"
  \/ \E k \in 0 .. Len(box) :
       /\ IF k = 0 THEN seen = b
                   ELSE box[k].type = "loaded" /\ box[k].of = b
       /\ \A i \in DOMAIN box : i > k => box[i].type # "loaded"

LEMMA TellsAppend ==
  ASSUME NEW box \in Seq(Doc!ToPage), NEW seen, NEW b, NEW m \in Doc!ToPage,
         \/ m.type = "loaded" /\ m.of = b
         \/ m.type = "loadFailed"
         \/ Tells(box, seen, b) /\ m.type # "loaded"
  PROVE  Tells(Append(box, m), seen, b)
<1> DEFINE n == Len(box) + 1
           A == Append(box, m)
<1>1. /\ Len(box) \in Nat /\ DOMAIN box = 1 .. Len(box)
      /\ Len(A) = n /\ DOMAIN A = 1 .. n /\ A[n] = m
      /\ \A i \in 1 .. Len(box) : A[i] = box[i]
  BY AppendProperties, LenProperties
<1> HIDE DEF A
<1>2. CASE m.type = "loaded" /\ m.of = b
  <2>1. n \in 0 .. Len(A) /\ n # 0 /\ \A i \in DOMAIN A : ~(i > n)
    BY <1>1
  <2> QED
    BY <1>1, <1>2, <2>1 DEF Tells
<1>3. CASE m.type = "loadFailed"
  BY <1>1, <1>3 DEF Tells
<1>4. CASE Tells(box, seen, b) /\ m.type # "loaded"
  <2>1. CASE \E i \in DOMAIN box : box[i].type = "loadFailed"
    BY <1>1, <2>1 DEF Tells
  <2>2. CASE \E k \in 0 .. Len(box) :
               /\ IF k = 0 THEN seen = b
                           ELSE box[k].type = "loaded" /\ box[k].of = b
               /\ \A i \in DOMAIN box : i > k => box[i].type # "loaded"
    <3>1. PICK k \in 0 .. Len(box) :
            /\ IF k = 0 THEN seen = b
                        ELSE box[k].type = "loaded" /\ box[k].of = b
            /\ \A i \in DOMAIN box : i > k => box[i].type # "loaded"
      BY <2>2
    <3>2. /\ k \in 0 .. Len(A)
          /\ k # 0 => A[k] = box[k]
      BY <1>1
    <3>3. \A i \in DOMAIN A : i > k => A[i].type # "loaded"
      <4> TAKE i \in DOMAIN A
      <4>1. CASE i = n
        BY <1>1, <1>4, <4>1
      <4>2. CASE i \in DOMAIN box
        BY <1>1, <3>1, <4>2
      <4> QED
        BY <1>1, <4>1, <4>2
    <3> QED
      BY <3>1, <3>2, <3>3 DEF Tells
  <2> QED
    BY <1>4, <2>1, <2>2 DEF Tells
<1> QED
  BY <1>2, <1>3, <1>4 DEF A

LEMMA TellsTail ==
  ASSUME NEW box \in Seq(Doc!ToPage), box # <<>>, NEW seen, NEW b,
         Head(box).type # "loadFailed", Tells(box, seen, b)
  PROVE  Tells(Tail(box), IF Head(box).type = "loaded" THEN Head(box).of ELSE seen, b)
<1> DEFINE T == Tail(box)
           now == IF Head(box).type = "loaded" THEN Head(box).of ELSE seen
<1>1. /\ Len(box) \in Nat /\ DOMAIN box = 1 .. Len(box) /\ 1 \in DOMAIN box
      /\ Head(box) = box[1]
      /\ Len(T) = Len(box) - 1 /\ DOMAIN T = 1 .. Len(box) - 1
      /\ \A i \in 1 .. Len(box) - 1 : T[i] = box[i + 1]
  BY HeadTailProperties, LenProperties
<1>2. CASE \E i \in DOMAIN box : box[i].type = "loadFailed"
  <2>1. PICK i \in DOMAIN box : box[i].type = "loadFailed"
    BY <1>2
  <2>2. i - 1 \in DOMAIN T /\ T[i - 1] = box[i]
    <3>1. i # 1
      BY <1>1, <2>1
    <3>2. i - 1 \in 1 .. Len(box) - 1 /\ (i - 1) + 1 = i
      BY <1>1, <3>1
    <3> QED
      BY <1>1, <3>2
  <2> QED
    BY <2>1, <2>2 DEF Tells
<1>3. CASE \E k \in 0 .. Len(box) :
             /\ IF k = 0 THEN seen = b
                         ELSE box[k].type = "loaded" /\ box[k].of = b
             /\ \A i \in DOMAIN box : i > k => box[i].type # "loaded"
  <2>1. PICK k \in 0 .. Len(box) :
          /\ IF k = 0 THEN seen = b
                      ELSE box[k].type = "loaded" /\ box[k].of = b
          /\ \A i \in DOMAIN box : i > k => box[i].type # "loaded"
    BY <1>3
  <2> DEFINE j == IF k = 0 THEN 0 ELSE k - 1
  <2>2. j \in 0 .. Len(T) /\ j \in Int
    BY <1>1
  <2>3. IF j = 0 THEN now = b ELSE T[j].type = "loaded" /\ T[j].of = b
    <3>1. CASE k = 0
      BY <1>1, <2>1, <3>1
    <3>2. CASE k = 1
      BY <1>1, <2>1, <3>2
    <3>3. CASE k > 1
      <4>1. j # 0 /\ j \in 1 .. Len(box) - 1 /\ j + 1 = k
        BY <1>1, <3>3
      <4>2. T[j] = box[k]
        BY <1>1, <4>1
      <4> QED
        BY <2>1, <3>3, <4>1, <4>2
    <3> QED
      BY <3>1, <3>2, <3>3
  <2>4. \A i \in DOMAIN T : i > j => T[i].type # "loaded"
    <3> TAKE i \in DOMAIN T
    <3>1. i + 1 \in DOMAIN box /\ T[i] = box[i + 1] /\ (i > j => i + 1 > k)
      BY <1>1
    <3> QED
      BY <2>1, <3>1
  <2> HIDE DEF j, T, now
  <2> QED
    BY <2>2, <2>3, <2>4 DEF Tells, T, now
<1> QED
  BY <1>2, <1>3 DEF Tells

-----------------------------------------------------------------------------
(* The detections.  All that happens in a turn happens to the detection at *)
(* the head of the queue, so one at a time uses or changes the session.    *)

Awaited == \A r \in Doc!Requesters : r \in requests <=> want[r] = "answer"

Turns ==
  \A r \in Doc!Requesters : run[r] # "none" => queue # <<>> /\ Head(queue) = r

Running == \A r \in Doc!Requesters : run[r] = "running" => session # "none"

\* Until the load is over there is no session and nobody has heard of one.
Early ==
  stage # "over" =>
    /\ status # "ready"
    /\ session = "none" /\ backend = "none" /\ sessions = 0
    /\ \A r \in Doc!Requesters : run[r] = "none"
    /\ \A i \in DOMAIN outbox : outbox[i].type # "loaded"

Sessions ==
  /\ sessions <= 1
  /\ \A r \in Doc!Requesters : run[r] = "warming" => sessions = 0

\* No change of backend is under way.
Quiet == \A r \in Doc!Requesters : run[r] \in {"none", "running"}

Told ==
  docWorker = "running" /\ stage = "over" /\ Quiet => Tells(outbox, shown, session)

Carried ==
  docWorker = "running" =>
    \A r \in Doc!Requesters :
      Count(inbox, DetectOf(r)) + Count(queue, {r}) + Count(outbox, AnswersTo(r))
        = IF r \in requests THEN 1 ELSE 0

DocInv ==
  /\ Doc!TypeOK
  /\ Awaited /\ Turns /\ Running /\ Early /\ Sessions /\ Told /\ Carried

\* The page's variables and the others, apart.
PageTypes ==
  /\ status \in {"idle", "loading", "ready", "failed"}
  /\ prefetching \in BOOLEAN
  /\ requests \subseteq Doc!Requesters
  /\ shown \in Doc!Backends \cup {"none"}
  /\ loop \in Loops /\ shutter \in Shutters
  /\ want \in [Doc!Requesters -> {"nothing", "frame", "answer"}]

ChannelTypes ==
  inbox \in Seq(Doc!ToWorker) /\ outbox \in Seq(Doc!ToPage)

LoadTypes ==
  /\ docWorker \in {"running", "crashed", "terminated"}
  /\ gpu \in BOOLEAN
  /\ prefetch \in {"none", "running", "over"}
  /\ stage \in {"none", "download", "webgpu", "wasm", "over"}

SessionTypes ==
  /\ session \in Doc!Backends \cup {"none"}
  /\ backend \in Doc!Backends \cup {"none"}
  /\ sessions \in 0 .. 2

TurnTypes ==
  /\ queue \in Seq(Doc!Requesters)
  /\ run \in [Doc!Requesters -> {"none", "running", "releasing", "warming"}]

LEMMA TwoBackends == Doc!Cardinality(Doc!Backends) = 2
<1>1. Cardinality({"webgpu"}) = 1 /\ IsFiniteSet({"webgpu"})
  BY FS_Singleton
<1>2. {"webgpu", "wasm"} = {"webgpu"} \cup {"wasm"}
  OBVIOUS
<1>3. Cardinality({"webgpu"} \cup {"wasm"}) = Cardinality({"webgpu"}) + 1
  BY <1>1, FS_AddElement
<1> QED
  BY <1>1, <1>2, <1>3, DetectionsCounted DEF Doc!Backends

LEMMA DocTypesApart ==
  /\ Doc!TypeOK <=>
       PageTypes /\ ChannelTypes /\ LoadTypes /\ SessionTypes /\ TurnTypes
  /\ Doc!TypeOK' <=>
       PageTypes' /\ ChannelTypes' /\ LoadTypes' /\ SessionTypes' /\ TurnTypes'
BY TwoBackends DEF Doc!TypeOK, PageTypes, ChannelTypes, LoadTypes, SessionTypes,
                   TurnTypes

LEMMA DocInit == Doc!Init => DocInv
<1> SUFFICES ASSUME Doc!Init PROVE DocInv
  OBVIOUS
<1>1. /\ want \in [Doc!Requesters -> {"nothing", "frame", "answer"}]
      /\ run \in [Doc!Requesters -> {"none", "running", "releasing", "warming"}]
      /\ \A r \in Doc!Requesters : want[r] = "nothing" /\ run[r] = "none"
  BY DEF Doc!Init
<1>2. /\ inbox = <<>> /\ outbox = <<>> /\ queue = <<>> /\ requests = {}
      /\ stage = "none" /\ session = "none" /\ backend = "none" /\ sessions = 0
      /\ status = "idle" /\ shown = "none" /\ docWorker = "running"
  BY DEF Doc!Init
<1>3. PageTypes /\ LoadTypes
  BY <1>1, <1>2 DEF Doc!Init, PageTypes, LoadTypes
<1>4. ChannelTypes /\ SessionTypes /\ TurnTypes
  BY <1>1, <1>2 DEF ChannelTypes, SessionTypes, TurnTypes
<1>5. Awaited /\ Turns /\ Running /\ Early /\ Sessions /\ Told
  BY <1>1, <1>2 DEF Awaited, Turns, Running, Early, Sessions, Told
<1>6. Carried
  <2> SUFFICES ASSUME NEW r \in Doc!Requesters
               PROVE  /\ Count(inbox, DetectOf(r)) = 0 /\ Count(queue, {r}) = 0
                      /\ Count(outbox, AnswersTo(r)) = 0
    BY <1>2 DEF Carried
  <2>1. \A S : <<>> \in Seq(S) /\ DOMAIN <<>> = {}
    OBVIOUS
  <2>2. \A M : Count(<<>>, M) = 0
    BY <2>1, CountType
  <2> QED
    BY <1>2, <2>2
<1> QED
  BY <1>3, <1>4, <1>5, <1>6, DocTypesApart DEF DocInv

\* What a turn of r may be: it starts, its detection fails and the backend is
\* changed, its detection ends, and the two steps of the change.
TurnKinds(r) ==
  \/ /\ run[r] = "none" /\ run'[r] = "running" /\ session # "none"
     /\ UNCHANGED <<session, backend, sessions, queue, outbox>>
  \/ /\ run[r] \in {"none", "running"} /\ run'[r] = "releasing"
     /\ backend = "webgpu" /\ session' = "none"
     /\ UNCHANGED <<backend, sessions, queue, outbox>>
  \/ /\ run[r] \in {"none", "running"} /\ run'[r] = "none"
     /\ queue' = Tail(queue)
     /\ \E t \in {"detected", "detectFailed"} :
          outbox' = Append(outbox, Doc!Message(t, r))
     /\ UNCHANGED <<session, backend, sessions>>
  \/ /\ run[r] = "releasing" /\ run'[r] = "warming" /\ sessions' = 0
     /\ UNCHANGED <<session, backend, queue, outbox>>
  \/ /\ run[r] = "warming" /\ run'[r] = "none"
     /\ queue' = Tail(queue)
     /\ session' = "wasm" /\ backend' = "wasm" /\ sessions' = sessions + 1
     /\ outbox' = Append(Append(outbox, Doc!Message("loaded", "wasm")),
                         Doc!Message("detectFailed", r))
  \/ /\ run[r] = "warming" /\ run'[r] = "none"
     /\ queue' = Tail(queue)
     /\ outbox' = Append(Append(outbox, Doc!Message("loadFailed", "all")),
                         Doc!Message("detectFailed", r))
     /\ UNCHANGED <<session, backend, sessions>>

LEMMA TurnSteps ==
  ASSUME DocInv, NEW r \in Doc!Requesters,
         \/ Doc!StartDetect(r) \/ Doc!EndDetect(r)
         \/ Doc!Release(r) \/ Doc!Switch(r)
  PROVE  /\ UNCHANGED <<status, prefetching, requests, shown, loop, shutter, want,
                        inbox, docWorker, gpu, prefetch, stage>>
         /\ docWorker = "running" /\ queue # <<>> /\ Head(queue) = r
         /\ run' = [run EXCEPT ![r] = run'[r]]
         /\ run'[r] \in {"none", "running", "releasing", "warming"}
         /\ \A s \in Doc!Requesters \ {r} : run[s] = "none" /\ run'[s] = "none"
         /\ TurnKinds(r)
<1> USE DEF Doc!pageVars, Doc!loadVars
<1>1. /\ run \in [Doc!Requesters -> {"none", "running", "releasing", "warming"}]
      /\ Turns /\ sessions \in 0 .. 2 /\ sessions <= 1 /\ outbox \in Seq(Doc!ToPage)
  BY DocTypesApart DEF DocInv, TurnTypes, SessionTypes, Sessions, ChannelTypes
<1>2. \A t \in {"detected", "detectFailed"} :
        outbox \o <<Doc!Message(t, r)>> = Append(outbox, Doc!Message(t, r))
  BY <1>1, ToPageMessages, AppendTwo
<1>3. /\ outbox \o <<Doc!Message("loaded", "wasm"), Doc!Message("detectFailed", r)>>
           = Append(Append(outbox, Doc!Message("loaded", "wasm")),
                    Doc!Message("detectFailed", r))
      /\ outbox \o <<Doc!Message("loadFailed", "all"), Doc!Message("detectFailed", r)>>
           = Append(Append(outbox, Doc!Message("loadFailed", "all")),
                    Doc!Message("detectFailed", r))
  <2>1. /\ Doc!Message("loaded", "wasm") \in Doc!ToPage
        /\ Doc!Message("loadFailed", "all") \in Doc!ToPage
        /\ Doc!Message("detectFailed", r) \in Doc!ToPage
    BY ToPageMessages DEF Doc!Backends
  <2> QED
    BY <1>1, <2>1, AppendTwo
<1>4. CASE Doc!StartDetect(r)
  BY <1>1, <1>2, <1>4 DEF Doc!StartDetect, Doc!Turn, Doc!DetectFails, Doc!Answer, TurnKinds
<1>5. CASE Doc!EndDetect(r)
  BY <1>1, <1>2, <1>5 DEF Doc!EndDetect, Doc!DetectFails, Doc!Answer, TurnKinds, Turns
<1>6. CASE Doc!Release(r)
  BY <1>1, <1>6 DEF Doc!Release, Doc!Released, TurnKinds, Turns
<1>7. CASE Doc!Switch(r)
  BY <1>1, <1>3, <1>7 DEF Doc!Switch, Doc!Warmed, Doc!Answer, Doc!Announced,
                          Doc!sessionVars, TurnKinds, Turns
<1> QED
  BY <1>4, <1>5, <1>6, <1>7

\* A sequence to which a message is added, or whose first is taken.
LEMMA ElementsAfter ==
  ASSUME NEW S, NEW s \in Seq(S)
  PROVE  /\ \A i \in DOMAIN s : s[i] \in S
         /\ \A e \in S :
              /\ Append(s, e) \in Seq(S) /\ Append(s, e) # <<>>
              /\ s # <<>> => Head(Append(s, e)) = Head(s)
              /\ \A i \in DOMAIN Append(s, e) :
                   Append(s, e)[i] = e \/ \E j \in DOMAIN s : Append(s, e)[i] = s[j]
         /\ s # <<>> =>
              /\ Head(s) \in S /\ Tail(s) \in Seq(S)
              /\ \E j \in DOMAIN s : Head(s) = s[j]
              /\ \A i \in DOMAIN Tail(s) : \E j \in DOMAIN s : Tail(s)[i] = s[j]
<1>1. /\ Len(s) \in Nat /\ DOMAIN s = 1 .. Len(s)
      /\ \A i \in DOMAIN s : s[i] \in S
  BY LenProperties, ElementOfSeq
<1>2. ASSUME NEW e \in S
      PROVE  /\ Append(s, e) \in Seq(S) /\ Append(s, e) # <<>>
             /\ s # <<>> => Head(Append(s, e)) = Head(s)
             /\ \A i \in DOMAIN Append(s, e) :
                  Append(s, e)[i] = e \/ \E j \in DOMAIN s : Append(s, e)[i] = s[j]
  <2>1. /\ Append(s, e) \in Seq(S) /\ Append(s, e) # <<>>
        /\ DOMAIN Append(s, e) = 1 .. Len(s) + 1
        /\ Append(s, e)[Len(s) + 1] = e
        /\ \A i \in 1 .. Len(s) : Append(s, e)[i] = s[i]
    BY AppendProperties
  <2>2. s # <<>> => Head(Append(s, e)) = Head(s)
    BY <1>1, <2>1
  <2> QED
    BY <1>1, <2>1, <2>2
<1>3. ASSUME s # <<>>
      PROVE  /\ Head(s) \in S /\ Tail(s) \in Seq(S)
             /\ \E j \in DOMAIN s : Head(s) = s[j]
             /\ \A i \in DOMAIN Tail(s) : \E j \in DOMAIN s : Tail(s)[i] = s[j]
  <2>1. /\ Head(s) \in S /\ Tail(s) \in Seq(S)
        /\ 1 \in DOMAIN s /\ Head(s) = s[1]
        /\ DOMAIN Tail(s) = 1 .. Len(s) - 1
        /\ \A i \in 1 .. Len(s) - 1 : Tail(s)[i] = s[i + 1] /\ i + 1 \in 1 .. Len(s)
    BY <1>1, <1>3, HeadTailProperties
  <2> QED
    BY <1>1, <2>1
<1> QED
  BY <1>1, <1>2, <1>3

LEMMA TurnTaken ==
  ASSUME DocInv, NEW r \in Doc!Requesters,
         \/ Doc!StartDetect(r) \/ Doc!EndDetect(r)
         \/ Doc!Release(r) \/ Doc!Switch(r)
  PROVE  DocInv'
<1>1. /\ UNCHANGED <<status, prefetching, requests, shown, loop, shutter, want,
                     inbox, docWorker, gpu, prefetch, stage>>
      /\ docWorker = "running" /\ queue # <<>> /\ Head(queue) = r
      /\ run' = [run EXCEPT ![r] = run'[r]]
      /\ run'[r] \in {"none", "running", "releasing", "warming"}
      /\ \A s \in Doc!Requesters \ {r} : run[s] = "none" /\ run'[s] = "none"
      /\ TurnKinds(r)
  BY TurnSteps
<1>2. /\ run \in [Doc!Requesters -> {"none", "running", "releasing", "warming"}]
      /\ queue \in Seq(Doc!Requesters)
      /\ inbox \in Seq(Doc!ToWorker) /\ outbox \in Seq(Doc!ToPage)
      /\ sessions \in 0 .. 1 /\ SessionTypes
      /\ PageTypes /\ LoadTypes
  BY DocTypesApart DEF DocInv, TurnTypes, SessionTypes, Sessions, ChannelTypes
<1>3. /\ \A t \in {"detected", "detectFailed"} :
           Doc!Message(t, r) \in Doc!ToPage /\ Doc!Message(t, r).type = t
           /\ Doc!Message(t, r).of = r
      /\ Doc!Message("loaded", "wasm") \in Doc!ToPage
      /\ Doc!Message("loaded", "wasm").type = "loaded"
      /\ Doc!Message("loaded", "wasm").of = "wasm"
      /\ Doc!Message("loadFailed", "all") \in Doc!ToPage
      /\ Doc!Message("loadFailed", "all").type = "loadFailed"
  BY ToPageMessages, MessageFields DEF Doc!Backends
<1>4. PageTypes' /\ LoadTypes' /\ Awaited'
  BY <1>1, <1>2 DEF PageTypes, LoadTypes, DocInv, Awaited
<1>5. SessionTypes' /\ Sessions'
  <2>1. \A s \in Doc!Requesters : run[s] = "warming" => sessions = 0
    BY DEF DocInv, Sessions
  <2>2. \/ UNCHANGED <<session, backend, sessions>> /\ run'[r] # "warming"
        \/ /\ session' \in {session, "none"} /\ UNCHANGED <<backend, sessions>>
           /\ run'[r] # "warming"
        \/ sessions' = 0 /\ UNCHANGED <<session, backend>>
        \/ /\ session' = "wasm" /\ backend' = "wasm" /\ sessions' = sessions + 1
           /\ run[r] = "warming" /\ run'[r] # "warming"
    BY <1>1 DEF TurnKinds
  <2>3. \A s \in Doc!Requesters : run'[s] = "warming" => s = r
    BY <1>1
  <2>4. sessions' \in 0 .. 1 /\ (run'[r] = "warming" => sessions' = 0)
    BY <1>2, <2>1, <2>2
  <2>5. SessionTypes'
    BY <1>2, <2>2, <2>4 DEF SessionTypes, Doc!Backends
  <2> QED
    BY <2>3, <2>4, <2>5 DEF Sessions
<1>6. TurnTypes' /\ ChannelTypes'
  <2>1. run' \in [Doc!Requesters -> {"none", "running", "releasing", "warming"}]
    BY <1>1, <1>2
  <2>2. Tail(queue) \in Seq(Doc!Requesters)
    BY <1>1, <1>2, ElementsAfter
  <2>3. \A e \in Doc!ToPage : Append(outbox, e) \in Seq(Doc!ToPage)
    BY <1>2, ElementsAfter
  <2>4. \A e, f \in Doc!ToPage : Append(Append(outbox, e), f) \in Seq(Doc!ToPage)
    BY <2>3, ElementsAfter
  <2>5. queue' \in {queue, Tail(queue)}
    BY <1>1 DEF TurnKinds
  <2>6. outbox' \in Seq(Doc!ToPage)
    <3>1. \/ outbox' = outbox
          \/ \E e \in Doc!ToPage : outbox' = Append(outbox, e)
          \/ \E e, f \in Doc!ToPage : outbox' = Append(Append(outbox, e), f)
      <4> HIDE DEF Doc!Message
      <4> QED
        BY <1>1, <1>3 DEF TurnKinds
    <3> QED
      BY <1>2, <2>3, <2>4, <3>1
  <2> QED
    BY <1>1, <1>2, <2>1, <2>2, <2>5, <2>6 DEF TurnTypes, ChannelTypes
<1>7. Turns' /\ Running'
  BY <1>1 DEF TurnKinds, Turns, Running
<1>8. Early'
  <2> SUFFICES ASSUME stage # "over" PROVE Early'
    BY <1>1 DEF Early
  <2>1. /\ status # "ready" /\ session = "none" /\ backend = "none"
        /\ sessions = 0 /\ run[r] = "none"
        /\ \A i \in DOMAIN outbox : outbox[i].type # "loaded"
    BY DEF DocInv, Early
  <2>2. /\ UNCHANGED <<session, backend, sessions>> /\ run'[r] = "none"
        /\ \E t \in {"detected", "detectFailed"} :
             outbox' = Append(outbox, Doc!Message(t, r))
    BY <1>1, <2>1 DEF TurnKinds
  <2>3. \A i \in DOMAIN outbox' : outbox'[i].type # "loaded"
    BY <1>2, <1>3, <2>1, <2>2, ElementsAfter
  <2> QED
    BY <1>1, <2>1, <2>2, <2>3 DEF Early
<1>9. Told'
  <2> SUFFICES ASSUME stage = "over", Quiet' PROVE Tells(outbox, shown, session)'
    BY <1>1 DEF Told
  <2>1. run[r] \in {"none", "running"} => Tells(outbox, shown, session)
    BY <1>1 DEF DocInv, Told, Quiet
  <2>2. run'[r] \in {"none", "running"}
    BY DEF Quiet
  <2>3. CASE run'[r] = "running"
    BY <1>1, <2>1, <2>3 DEF TurnKinds
  <2>4. CASE /\ run[r] \in {"none", "running"}
             /\ \E t \in {"detected", "detectFailed"} :
                  outbox' = Append(outbox, Doc!Message(t, r))
             /\ UNCHANGED <<session, backend, sessions>>
    <3>1. \A t \in {"detected", "detectFailed"} :
            Tells(Append(outbox, Doc!Message(t, r)), shown, session)
      BY <1>2, <1>3, <2>1, <2>4, TellsAppend
    <3> QED
      BY <1>1, <2>4, <3>1
  <2>5. CASE /\ session' = "wasm"
             /\ outbox' = Append(Append(outbox, Doc!Message("loaded", "wasm")),
                                 Doc!Message("detectFailed", r))
    <3>1. /\ Append(outbox, Doc!Message("loaded", "wasm")) \in Seq(Doc!ToPage)
          /\ Tells(Append(outbox, Doc!Message("loaded", "wasm")), shown, "wasm")
      BY <1>2, <1>3, TellsAppend, ElementsAfter
    <3>2. Tells(outbox', shown, "wasm")
      BY <1>3, <2>5, <3>1, TellsAppend
    <3> QED
      BY <1>1, <2>5, <3>2
  <2>6. CASE outbox' = Append(Append(outbox, Doc!Message("loadFailed", "all")),
                              Doc!Message("detectFailed", r))
    <3>1. /\ Append(outbox, Doc!Message("loadFailed", "all")) \in Seq(Doc!ToPage)
          /\ Tells(Append(outbox, Doc!Message("loadFailed", "all")), shown, session')
      BY <1>2, <1>3, TellsAppend, ElementsAfter
    <3>2. Tells(outbox', shown, session')
      BY <1>3, <2>6, <3>1, TellsAppend
    <3> QED
      BY <1>1, <3>2
  <2> QED
    BY <1>1, <2>2, <2>3, <2>4, <2>5, <2>6 DEF TurnKinds
<1>10. Carried'
  <2> SUFFICES ASSUME NEW q \in Doc!Requesters
               PROVE  Count(inbox', DetectOf(q)) + Count(queue', {q})
                      + Count(outbox', AnswersTo(q)) = IF q \in requests' THEN 1 ELSE 0
    BY DEF Carried
  <2> DEFINE a == Count(inbox, DetectOf(q))
             b == Count(queue, {q})
             c == Count(outbox, AnswersTo(q))
             d == IF q = r THEN 1 ELSE 0
  <2>1. a \in Nat /\ b \in Nat /\ c \in Nat /\ d \in Nat
    BY <1>2, CountType
  <2>2. a + b + c = IF q \in requests THEN 1 ELSE 0
    BY <1>1 DEF DocInv, Carried
  <2>3. Count(Tail(queue), {q}) = b - d
    BY <1>1, <1>2, CountTail
  <2>4. ASSUME NEW e \in Doc!ToPage, e.type \in {"detected", "detectFailed"}, e.of = r
        PROVE  Count(Append(outbox, e), AnswersTo(q)) = c + d
    <3>1. e \in AnswersTo(q) <=> q = r
      BY <2>4, ToPageMessages
    <3> QED
      BY <1>2, <3>1, CountAppend
  <2>5. ASSUME NEW e \in Doc!ToPage, NEW f \in Doc!ToPage,
               e.type \notin {"detected", "detectFailed"},
               f.type \in {"detected", "detectFailed"}, f.of = r
        PROVE  Count(Append(Append(outbox, e), f), AnswersTo(q)) = c + d
    <3>1. e \notin AnswersTo(q) /\ (f \in AnswersTo(q) <=> q = r)
      BY <2>5, ToPageMessages
    <3>2. Append(outbox, e) \in Seq(Doc!ToPage)
      BY <1>2, ElementsAfter
    <3>3. Count(Append(outbox, e), AnswersTo(q)) = c + 0
      BY <1>2, <3>1, CountAppend
    <3>4. Count(Append(Append(outbox, e), f), AnswersTo(q))
            = Count(Append(outbox, e), AnswersTo(q)) + (IF f \in AnswersTo(q) THEN 1 ELSE 0)
      BY <3>2, CountAppend
    <3> HIDE DEF c
    <3> QED
      BY <2>1, <3>1, <3>3, <3>4
  <2>6. \/ UNCHANGED <<queue, outbox>>
        \/ queue' = Tail(queue) /\ Count(outbox', AnswersTo(q)) = c + d
    <3>1. \/ UNCHANGED <<queue, outbox>>
          \/ /\ queue' = Tail(queue)
             /\ \/ \E e \in Doc!ToPage :
                     /\ e.type \in {"detected", "detectFailed"} /\ e.of = r
                     /\ outbox' = Append(outbox, e)
                \/ \E e, f \in Doc!ToPage :
                     /\ e.type \notin {"detected", "detectFailed"}
                     /\ f.type \in {"detected", "detectFailed"} /\ f.of = r
                     /\ outbox' = Append(Append(outbox, e), f)
      BY <1>1, <1>3 DEF TurnKinds
    <3> HIDE DEF c, d
    <3> QED
      BY <2>4, <2>5, <3>1
  <2>7. CASE UNCHANGED <<queue, outbox>>
    BY <1>1, <2>2, <2>7
  <2>8. CASE queue' = Tail(queue) /\ Count(outbox', AnswersTo(q)) = c + d
    <3>1. /\ Count(queue', {q}) = b - d /\ Count(outbox', AnswersTo(q)) = c + d
          /\ inbox' = inbox /\ requests' = requests
      BY <1>1, <2>3, <2>8
    <3> HIDE DEF a, b, c, d
    <3>2. a + (b - d) + (c + d) = a + b + c
      BY <2>1
    <3> QED
      BY <2>2, <3>1, <3>2 DEF a
  <2> QED
    BY <2>6, <2>7, <2>8
<1> QED
  BY <1>4, <1>5, <1>6, <1>7, <1>8, <1>9, <1>10, DocTypesApart DEF DocInv

\* The page asks: only the request it adds is new in its inbox.
LEMMA PageAsks ==
  ASSUME DocInv,
         \/ Doc!Prefetch \/ Doc!Load \/ Doc!NewLoop
         \/ \E r \in Doc!Requesters : Doc!Grab(r) \/ Doc!Detect(r)
  PROVE  DocInv'
<1> USE DEF Doc!loadVars, Doc!sessionVars, Doc!detectVars
<1>1. /\ UNCHANGED <<shown, outbox, docWorker, gpu, prefetch, stage, session,
                     backend, sessions, queue, run>>
      /\ status' = status \/ status' = "loading"
  BY DEF Doc!Prefetch, Doc!Load, Doc!NewLoop, Doc!Grab, Doc!Detect
<1>2. /\ inbox \in Seq(Doc!ToWorker) /\ outbox \in Seq(Doc!ToPage)
      /\ queue \in Seq(Doc!Requesters) /\ PageTypes
      /\ LoadTypes /\ SessionTypes /\ TurnTypes
  BY DocTypesApart DEF DocInv, TurnTypes, ChannelTypes
<1>3. PageTypes' /\ Awaited'
  <2> USE DEF PageTypes, Awaited
  <2>1. Awaited
    BY DEF DocInv
  <2>2. CASE Doc!Prefetch \/ Doc!Load
    BY <1>2, <2>1, <2>2 DEF Doc!Prefetch, Doc!Load
  <2>3. CASE Doc!NewLoop
    BY <1>2, <2>1, <2>3 DEF Doc!NewLoop
  <2>4. ASSUME NEW r \in Doc!Requesters, Doc!Grab(r) PROVE PageTypes' /\ Awaited'
    BY <1>2, <2>1, <2>4 DEF Doc!Grab
  <2>5. ASSUME NEW r \in Doc!Requesters, Doc!Detect(r) PROVE PageTypes' /\ Awaited'
    BY <1>2, <2>1, <2>5 DEF Doc!Detect
  <2> QED
    BY <2>2, <2>3, <2>4, <2>5
<1>4. LoadTypes' /\ SessionTypes' /\ TurnTypes' /\ Turns' /\ Running' /\ Sessions'
  BY <1>1, <1>2 DEF LoadTypes, SessionTypes, TurnTypes, DocInv, Turns, Running, Sessions
<1>5. Early' /\ Told'
  <2>1. Early /\ Told
    BY DEF DocInv
  <2>2. Early'
    BY <1>1, <2>1 DEF Early
  <2>3. Quiet' = Quiet
    BY <1>1 DEF Quiet
  <2> QED
    BY <1>1, <2>1, <2>2, <2>3 DEF Told
<1>6. \/ UNCHANGED <<inbox, requests>>
      \/ \E m \in Doc!ToWorker : /\ inbox' = Append(inbox, m) /\ m.type # "detect"
                                 /\ UNCHANGED requests
      \/ \E r \in Doc!Requesters, m \in Doc!ToWorker :
           /\ inbox' = Append(inbox, m) /\ m.type = "detect" /\ m.of = r
           /\ r \notin requests /\ requests' = requests \cup {r}
  <2>1. /\ \A r \in Doc!Requesters :
             /\ Doc!Message("detect", r) \in Doc!ToWorker
             /\ Doc!Message("detect", r).type = "detect"
             /\ Doc!Message("detect", r).of = r
        /\ Doc!Message("prefetch", "all") \in Doc!ToWorker
        /\ Doc!Message("prefetch", "all").type # "detect"
        /\ Doc!Message("load", "all") \in Doc!ToWorker
        /\ Doc!Message("load", "all").type # "detect"
    BY ToWorkerMessages, MessageFields
  <2>2. CASE Doc!Prefetch \/ Doc!Load
    BY <2>1, <2>2 DEF Doc!Prefetch, Doc!Load
  <2>3. CASE Doc!NewLoop
    BY <2>3 DEF Doc!NewLoop
  <2>4. ASSUME NEW r \in Doc!Requesters, Doc!Grab(r) PROVE UNCHANGED <<inbox, requests>>
    BY <2>4 DEF Doc!Grab
  <2>5. ASSUME NEW r \in Doc!Requesters, Doc!Detect(r)
        PROVE  \/ UNCHANGED <<inbox, requests>>
               \/ /\ inbox' = Append(inbox, Doc!Message("detect", r))
                  /\ r \notin requests /\ requests' = requests \cup {r}
    BY <2>5 DEF Doc!Detect, DocInv, Awaited
  <2> QED
    BY <2>1, <2>2, <2>3, <2>4, <2>5
<1>7. ChannelTypes'
  <2>1. \A m \in Doc!ToWorker : Append(inbox, m) \in Seq(Doc!ToWorker)
    BY <1>2, ElementsAfter
  <2> QED
    BY <1>1, <1>2, <1>6, <2>1 DEF ChannelTypes
<1>8. Carried'
  <2> SUFFICES ASSUME docWorker = "running", NEW q \in Doc!Requesters
               PROVE  Count(inbox', DetectOf(q)) + Count(queue', {q})
                      + Count(outbox', AnswersTo(q)) = IF q \in requests' THEN 1 ELSE 0
    BY <1>1 DEF Carried
  <2> DEFINE a == Count(inbox, DetectOf(q))
             b == Count(queue, {q})
             c == Count(outbox, AnswersTo(q))
  <2>1. a \in Nat /\ b \in Nat /\ c \in Nat
    BY <1>2, CountType
  <2>2. a + b + c = IF q \in requests THEN 1 ELSE 0
    BY DEF DocInv, Carried
  <2>3. ASSUME NEW m \in Doc!ToWorker
        PROVE  Count(Append(inbox, m), DetectOf(q))
                 = a + (IF m.type = "detect" /\ m.of = q THEN 1 ELSE 0)
    <3>1. m \in DetectOf(q) <=> m.type = "detect" /\ m.of = q
      BY ToWorkerMessages
    <3> QED
      BY <1>2, <3>1, CountAppend
  <2>4. Count(queue', {q}) = b /\ Count(outbox', AnswersTo(q)) = c
    BY <1>1
  <2> HIDE DEF a, b, c
  <2>5. CASE UNCHANGED <<inbox, requests>>
    BY <2>2, <2>4, <2>5 DEF a
  <2>6. ASSUME NEW m \in Doc!ToWorker, inbox' = Append(inbox, m), m.type # "detect",
               UNCHANGED requests
        PROVE  Count(inbox', DetectOf(q)) + b + c = IF q \in requests' THEN 1 ELSE 0
    <3>1. Count(inbox', DetectOf(q)) = a
      BY <2>1, <2>3, <2>6
    <3> QED
      BY <2>2, <2>6, <3>1
  <2>7. ASSUME NEW r \in Doc!Requesters, NEW m \in Doc!ToWorker,
               inbox' = Append(inbox, m), m.type = "detect", m.of = r,
               r \notin requests, requests' = requests \cup {r}
        PROVE  Count(inbox', DetectOf(q)) + b + c = IF q \in requests' THEN 1 ELSE 0
    <3>1. CASE q = r
      <4>1. Count(inbox', DetectOf(q)) = a + 1
        BY <2>3, <2>7, <3>1
      <4>2. a + b + c = 0 /\ q \in requests'
        BY <2>2, <2>7, <3>1
      <4> QED
        BY <2>1, <4>1, <4>2
    <3>2. CASE q # r
      <4>1. Count(inbox', DetectOf(q)) = a
        BY <2>1, <2>3, <2>7, <3>2
      <4>2. q \in requests' <=> q \in requests
        BY <2>7, <3>2
      <4> QED
        BY <2>2, <4>1, <4>2
    <3> QED
      BY <3>1, <3>2
  <2> QED
    BY <1>6, <2>4, <2>5, <2>6, <2>7
<1> QED
  BY <1>3, <1>4, <1>5, <1>7, <1>8, DocTypesApart DEF DocInv

\* The page reads a message, or hears that the worker has died.
LEMMA PageReads ==
  ASSUME DocInv, Doc!Receive \/ Doc!ReceiveError
  PROVE  DocInv'
<1> USE DEF Doc!loadVars, Doc!sessionVars, Doc!detectVars
<1>1. /\ UNCHANGED <<inbox, gpu, prefetch, stage, session, backend, sessions,
                     queue, run>>
      /\ Doc!ReceiveError => outbox' = outbox
      /\ Doc!Receive => outbox # <<>> /\ outbox' = Tail(outbox)
  BY DEF Doc!Receive, Doc!ReceiveError
<1>2. /\ inbox \in Seq(Doc!ToWorker) /\ outbox \in Seq(Doc!ToPage)
      /\ queue \in Seq(Doc!Requesters) /\ PageTypes
      /\ LoadTypes /\ SessionTypes /\ TurnTypes
  BY DocTypesApart DEF DocInv, TurnTypes, ChannelTypes
<1>3. Doc!Receive =>
        /\ Head(outbox) \in Doc!ToPage
        /\ Head(outbox).type \in {"loaded", "loadFailed", "detected", "detectFailed"}
        /\ Head(outbox).type = "loaded" => Head(outbox).of \in Doc!Backends
        /\ Head(outbox).type \in {"detected", "detectFailed"} =>
             Head(outbox).of \in Doc!Requesters
  <2>1. Doc!Receive => Head(outbox) \in Doc!ToPage
    BY <1>1, <1>2, ElementsAfter
  <2> QED
    BY <2>1, ToPageMessages
<1>4. \/ /\ docWorker' = "terminated" /\ status' = "failed" /\ requests' = {}
         /\ want' = Doc!Settled(requests)
         /\ UNCHANGED <<prefetching, shown, loop, shutter>>
      \/ /\ Doc!Receive /\ docWorker' = docWorker /\ Head(outbox).type = "loaded"
         /\ status' = "ready" /\ shown' = Head(outbox).of
         /\ UNCHANGED <<prefetching, requests, loop, shutter, want>>
      \/ /\ Doc!Receive /\ docWorker' = docWorker
         /\ Head(outbox).type \in {"detected", "detectFailed"}
         /\ requests' = requests \ {Head(outbox).of}
         /\ want' = Doc!Settled(requests \cap {Head(outbox).of})
         /\ UNCHANGED <<status, prefetching, shown, loop, shutter>>
  BY DEF Doc!Receive, Doc!ReceiveError, Doc!Fail, Doc!WorkerAfterFail
<1>5. /\ outbox' \in Seq(Doc!ToPage)
      /\ \A i \in DOMAIN outbox' : \E j \in DOMAIN outbox : outbox'[i] = outbox[j]
  <2>1. CASE outbox' = outbox
    BY <1>2, <2>1
  <2>2. CASE outbox # <<>> /\ outbox' = Tail(outbox)
    BY <1>2, <2>2, ElementsAfter
  <2> QED
    BY <1>1, <2>1, <2>2
<1>6. PageTypes' /\ LoadTypes' /\ Awaited'
  <2>1. /\ Awaited /\ requests \subseteq Doc!Requesters
        /\ want \in [Doc!Requesters -> {"nothing", "frame", "answer"}]
    BY <1>2 DEF DocInv, PageTypes
  <2>2. ASSUME NEW R, want' = Doc!Settled(R),
               requests' \subseteq requests,
               \A q \in Doc!Requesters : q \in requests' <=> q \in requests /\ q \notin R
        PROVE  /\ want' \in [Doc!Requesters -> {"nothing", "frame", "answer"}]
               /\ Awaited'
    <3>1. \A q \in Doc!Requesters : want'[q] = IF q \in R THEN "nothing" ELSE want[q]
      BY <2>2 DEF Doc!Settled
    <3> QED
      BY <2>1, <2>2, <3>1 DEF Doc!Settled, Awaited
  <2>3. requests' \subseteq requests
    BY <1>4
  <2>4. /\ want' \in [Doc!Requesters -> {"nothing", "frame", "answer"}]
        /\ Awaited'
    <3>1. CASE requests' = {} /\ want' = Doc!Settled(requests)
      BY <2>2, <2>3, <3>1
    <3>2. CASE requests' = requests /\ want' = want
      BY <2>1, <3>2 DEF Awaited
    <3>3. CASE /\ requests' = requests \ {Head(outbox).of}
               /\ want' = Doc!Settled(requests \cap {Head(outbox).of})
      <4>1. \A q \in Doc!Requesters :
              q \in requests' <=> q \in requests /\ q \notin requests \cap {Head(outbox).of}
        BY <3>3
      <4> QED
        BY <2>2, <2>3, <3>3, <4>1
    <3> QED
      BY <1>4, <3>1, <3>2, <3>3
  <2>5. LoadTypes' /\ shown' \in Doc!Backends \cup {"none"}
    BY <1>1, <1>2, <1>3, <1>4 DEF LoadTypes, PageTypes
  <2>6. /\ status' \in {"idle", "loading", "ready", "failed"} /\ prefetching' \in BOOLEAN
        /\ loop' \in Loops /\ shutter' \in Shutters
    BY <1>2, <1>4 DEF PageTypes
  <2> QED
    BY <2>1, <2>3, <2>4, <2>5, <2>6 DEF PageTypes
<1>7. SessionTypes' /\ TurnTypes' /\ Turns' /\ Running' /\ Sessions' /\ ChannelTypes'
  BY <1>1, <1>2, <1>5
     DEF SessionTypes, TurnTypes, DocInv, Turns, Running, Sessions, ChannelTypes
<1>8. Early'
  <2> SUFFICES ASSUME stage # "over" PROVE Early'
    BY <1>1 DEF Early
  <2>1. /\ status # "ready" /\ session = "none" /\ backend = "none" /\ sessions = 0
        /\ \A r \in Doc!Requesters : run[r] = "none"
        /\ \A i \in DOMAIN outbox : outbox[i].type # "loaded"
    BY DEF DocInv, Early
  <2>2. Doc!Receive => Head(outbox).type # "loaded"
    BY <1>1, <1>2, <2>1, ElementsAfter
  <2>3. \A i \in DOMAIN outbox' : outbox'[i].type # "loaded"
    BY <1>5, <2>1
  <2>4. status' # "ready"
    BY <1>4, <2>1, <2>2
  <2> QED
    BY <1>1, <2>1, <2>3, <2>4 DEF Early
<1>9. Told'
  <2> SUFFICES ASSUME docWorker' = "running", stage = "over", Quiet
               PROVE Tells(outbox', shown', session)
    BY <1>1 DEF Told, Quiet
  <2>1. Doc!Receive /\ docWorker = "running" /\ Head(outbox).type # "loadFailed"
        /\ shown' = IF Head(outbox).type = "loaded" THEN Head(outbox).of ELSE shown
    BY <1>4
  <2>2. Tells(outbox, shown, session)
    BY <2>1 DEF DocInv, Told
  <2> QED
    BY <1>1, <1>2, <2>1, <2>2, TellsTail
<1>10. Carried'
  <2> SUFFICES ASSUME docWorker' = "running", NEW q \in Doc!Requesters
               PROVE  Count(inbox', DetectOf(q)) + Count(queue', {q})
                      + Count(outbox', AnswersTo(q)) = IF q \in requests' THEN 1 ELSE 0
    BY DEF Carried
  <2> DEFINE a == Count(inbox, DetectOf(q))
             b == Count(queue, {q})
             c == Count(outbox, AnswersTo(q))
             m == Head(outbox)
  <2>1. a \in Nat /\ b \in Nat /\ c \in Nat
    BY <1>2, CountType
  <2>2. Doc!Receive /\ docWorker = "running"
    BY <1>4
  <2>3. a + b + c = IF q \in requests THEN 1 ELSE 0
    BY <2>2 DEF DocInv, Carried
  <2>4. m \in AnswersTo(q) <=> m.type \in {"detected", "detectFailed"} /\ m.of = q
    BY <1>3, <2>2, ToPageMessages
  <2>5. Count(outbox', AnswersTo(q)) = c - (IF m \in AnswersTo(q) THEN 1 ELSE 0)
    BY <1>1, <1>2, <2>2, CountTail
  <2>6. Count(outbox', AnswersTo(q)) \in Nat
    BY <1>5, CountType
  <2>7. Count(inbox', DetectOf(q)) = a /\ Count(queue', {q}) = b
    BY <1>1
  <2>8. CASE m \in AnswersTo(q)
    <3>1. q \notin requests'
      BY <1>4, <2>4, <2>8
    <3> HIDE DEF a, b, c, m
    <3>2. Count(outbox', AnswersTo(q)) = c - 1
      BY <2>5, <2>8
    <3>3. a + b + c = 1
      BY <2>1, <2>3, <2>6, <3>2
    <3> QED
      BY <2>1, <2>7, <3>1, <3>2, <3>3
  <2>9. CASE m \notin AnswersTo(q)
    <3>1. q \in requests' <=> q \in requests
      BY <1>4, <2>4, <2>9
    <3> HIDE DEF a, b, c, m
    <3>2. Count(outbox', AnswersTo(q)) = c
      BY <2>1, <2>5, <2>9
    <3> QED
      BY <2>3, <2>7, <3>1, <3>2
  <2> QED
    BY <2>8, <2>9
<1> QED
  BY <1>6, <1>7, <1>8, <1>9, <1>10, DocTypesApart DEF DocInv

\* The worker loads, takes a message from its inbox, or dies.
LEMMA WorkerLoads ==
  ASSUME DocInv,
         \/ Doc!Crash \/ Doc!Handle \/ Doc!PrefetchOver
         \/ Doc!Download \/ Doc!StartSession
  PROVE  DocInv'
<1> USE DEF Doc!pageVars, Doc!loadVars, Doc!sessionVars, Doc!detectVars
<1>1. /\ UNCHANGED <<status, prefetching, requests, shown, loop, shutter, want, gpu, run>>
      /\ docWorker = "running"
      /\ docWorker' = docWorker \/ docWorker' = "crashed"
  BY DEF Doc!Crash, Doc!Handle, Doc!PrefetchOver, Doc!Download, Doc!StartSession
<1>2. /\ inbox \in Seq(Doc!ToWorker) /\ outbox \in Seq(Doc!ToPage)
      /\ queue \in Seq(Doc!Requesters) /\ PageTypes
      /\ LoadTypes /\ SessionTypes /\ TurnTypes
  BY DocTypesApart DEF DocInv, TurnTypes, ChannelTypes
<1>3. /\ Doc!Message("loadFailed", "all") \in Doc!ToPage
      /\ Doc!Message("loadFailed", "all").type = "loadFailed"
      /\ \A b \in Doc!Backends : /\ Doc!Message("loaded", b) \in Doc!ToPage
                                 /\ Doc!Message("loaded", b).type = "loaded"
                                 /\ Doc!Message("loaded", b).of = b
  BY ToPageMessages, MessageFields
\* What becomes of the load.
<1>4. \/ stage' = stage /\ UNCHANGED <<outbox, session, backend, sessions>>
      \/ /\ stage # "over" /\ stage' \in {"download", "webgpu", "wasm"}
         /\ UNCHANGED <<outbox, session, backend, sessions>>
      \/ /\ stage # "over" /\ stage' = "none"
         /\ outbox' = Append(outbox, Doc!Message("loadFailed", "all"))
         /\ UNCHANGED <<session, backend, sessions>>
      \/ /\ stage \in Doc!Backends /\ stage' = "over"
         /\ session' = stage /\ backend' = stage /\ sessions' = sessions + 1
         /\ outbox' = Append(outbox, Doc!Message("loaded", stage))
  <2>1. CASE Doc!Crash \/ Doc!PrefetchOver
    BY <2>1 DEF Doc!Crash, Doc!PrefetchOver
  <2>2. CASE Doc!Handle
    BY <2>2 DEF Doc!Handle
  <2>3. CASE Doc!Download
    BY <2>3 DEF Doc!Download, Doc!LoadFails
  <2>4. CASE Doc!StartSession
    BY <2>4 DEF Doc!StartSession, Doc!LoadFails, Doc!Warmed, Doc!Backends
  <2> QED
    BY <2>1, <2>2, <2>3, <2>4
\* What becomes of the inbox.
<1>5. \/ UNCHANGED <<inbox, queue>>
      \/ /\ inbox # <<>> /\ inbox' = Tail(inbox)
         /\ IF Head(inbox).type = "detect" THEN queue' = Append(queue, Head(inbox).of)
                                           ELSE queue' = queue
  BY DEF Doc!Crash, Doc!Handle, Doc!PrefetchOver, Doc!Download, Doc!StartSession
<1>6. inbox # <<>> => /\ Head(inbox) \in Doc!ToWorker
                      /\ Tail(inbox) \in Seq(Doc!ToWorker)
                      /\ Head(inbox).type = "detect" =>
                           /\ Head(inbox).of \in Doc!Requesters
                           /\ Append(queue, Head(inbox).of) \in Seq(Doc!Requesters)
  <2>1. inbox # <<>> => Head(inbox) \in Doc!ToWorker /\ Tail(inbox) \in Seq(Doc!ToWorker)
    BY <1>2, ElementsAfter
  <2>2. inbox # <<>> /\ Head(inbox).type = "detect" => Head(inbox).of \in Doc!Requesters
    BY <2>1, ToWorkerMessages
  <2>3. \A r \in Doc!Requesters : Append(queue, r) \in Seq(Doc!Requesters)
    BY <1>2, ElementsAfter
  <2> QED
    BY <2>1, <2>2, <2>3
<1>7. PageTypes' /\ Awaited'
  BY <1>1, <1>2 DEF PageTypes, DocInv, Awaited
<1>8. LoadTypes'
  <2>1. prefetch' \in {"none", "running", "over"}
    BY <1>2 DEF Doc!Crash, Doc!Handle, Doc!PrefetchOver, Doc!Download,
                Doc!StartSession, LoadTypes, Doc!LoadFails
  <2> QED
    BY <1>1, <1>2, <1>4, <2>1 DEF LoadTypes
<1>9. /\ stage # "over" => /\ session = "none" /\ backend = "none" /\ sessions = 0
                           /\ status # "ready"
                           /\ \A r \in Doc!Requesters : run[r] = "none"
                           /\ \A i \in DOMAIN outbox : outbox[i].type # "loaded"
      /\ sessions <= 1 /\ \A r \in Doc!Requesters : run[r] = "warming" => sessions = 0
  BY DEF DocInv, Early, Sessions
<1>10. SessionTypes' /\ Sessions' /\ Running'
  <2>1. Running /\ (stage \in Doc!Backends => stage # "over")
    BY DEF DocInv, Doc!Backends
  <2> QED
    BY <1>1, <1>2, <1>4, <1>9, <2>1 DEF SessionTypes, Sessions, Running
<1>11. ChannelTypes' /\ TurnTypes'
  <2>1. \A e \in Doc!ToPage : Append(outbox, e) \in Seq(Doc!ToPage)
    BY <1>2, ElementsAfter
  <2>2. outbox' \in Seq(Doc!ToPage)
    BY <1>2, <1>3, <1>4, <2>1
  <2>3. inbox' \in Seq(Doc!ToWorker) /\ queue' \in Seq(Doc!Requesters)
    BY <1>2, <1>5, <1>6
  <2> QED
    BY <1>1, <1>2, <2>2, <2>3 DEF ChannelTypes, TurnTypes
<1>12. Turns'
  <2>1. Turns
    BY DEF DocInv
  <2>2. \A r \in Doc!Requesters :
          queue # <<>> => Append(queue, r) # <<>> /\ Head(Append(queue, r)) = Head(queue)
    BY <1>2, ElementsAfter
  <2>3. queue # <<>> => queue' # <<>> /\ Head(queue') = Head(queue)
    BY <1>5, <1>6, <2>2
  <2> QED
    BY <1>1, <2>1, <2>3 DEF Turns
<1>13. Early'
  <2> SUFFICES ASSUME stage' # "over" PROVE Early'
    BY DEF Early
  <2>1. stage # "over" /\ UNCHANGED <<session, backend, sessions>>
    BY <1>4
  <2>2. \A i \in DOMAIN outbox' : outbox'[i].type # "loaded"
    <3>1. CASE outbox' = outbox
      BY <1>9, <2>1, <3>1
    <3>2. CASE outbox' = Append(outbox, Doc!Message("loadFailed", "all"))
      BY <1>2, <1>3, <1>9, <2>1, <3>2, ElementsAfter
    <3> QED
      BY <1>4, <3>1, <3>2
  <2> QED
    BY <1>1, <1>9, <2>1, <2>2 DEF Early
<1>14. Told'
  <2> SUFFICES ASSUME docWorker' = "running", stage' = "over", Quiet
               PROVE Tells(outbox', shown, session')
    BY <1>1 DEF Told, Quiet
  <2>1. CASE stage = "over" /\ UNCHANGED <<outbox, session>>
    BY <1>1, <2>1 DEF DocInv, Told
  <2>2. CASE /\ stage \in Doc!Backends /\ session' = stage
             /\ outbox' = Append(outbox, Doc!Message("loaded", stage))
    BY <1>2, <1>3, <2>2, TellsAppend
  <2> QED
    BY <1>4, <2>1, <2>2
<1>15. Carried'
  <2> SUFFICES ASSUME NEW q \in Doc!Requesters
               PROVE  Count(inbox', DetectOf(q)) + Count(queue', {q})
                      + Count(outbox', AnswersTo(q)) = IF q \in requests' THEN 1 ELSE 0
    BY DEF Carried
  <2> DEFINE a == Count(inbox, DetectOf(q))
             b == Count(queue, {q})
             c == Count(outbox, AnswersTo(q))
             m == Head(inbox)
  <2>1. a \in Nat /\ b \in Nat /\ c \in Nat
    BY <1>2, CountType
  <2>2. a + b + c = IF q \in requests' THEN 1 ELSE 0
    BY <1>1 DEF DocInv, Carried
  <2>3. Count(outbox', AnswersTo(q)) = c
    <3>1. ASSUME NEW e \in Doc!ToPage, e.type \in {"loaded", "loadFailed"},
                 outbox' = Append(outbox, e)
          PROVE  Count(outbox', AnswersTo(q)) = c
      <4>1. e \notin AnswersTo(q)
        BY <3>1, ToPageMessages
      <4>2. Count(Append(outbox, e), AnswersTo(q)) = c + 0
        BY <1>2, <4>1, CountAppend
      <4> HIDE DEF c
      <4> QED
        BY <2>1, <3>1, <4>2
    <3>2. CASE outbox' = outbox
      BY <3>2
    <3> QED
      BY <1>3, <1>4, <3>1, <3>2
  <2>4. CASE UNCHANGED <<inbox, queue>>
    BY <2>2, <2>3, <2>4
  <2>5. CASE inbox # <<>> /\ inbox' = Tail(inbox) /\ m.type = "detect"
             /\ queue' = Append(queue, m.of)
    <3> DEFINE d == IF q = m.of THEN 1 ELSE 0
    <3>1. Count(inbox', DetectOf(q)) = a - d
      <4>1. m \in DetectOf(q) <=> q = m.of
        BY <1>6, <2>5, ToWorkerMessages
      <4> QED
        BY <1>2, <2>5, <4>1, CountTail
    <3>2. Count(queue', {q}) = b + d
      BY <1>2, <1>6, <2>5, CountAppend
    <3>3. d \in Nat
      OBVIOUS
    <3> HIDE DEF a, b, c, d
    <3>4. (a - d) + (b + d) + c = a + b + c
      BY <2>1, <3>3
    <3> QED
      BY <2>2, <2>3, <3>1, <3>2, <3>4
  <2>6. CASE inbox # <<>> /\ inbox' = Tail(inbox) /\ m.type # "detect"
             /\ queue' = queue
    <3>1. m \notin DetectOf(q)
      BY <1>6, <2>6, ToWorkerMessages
    <3>2. Count(inbox', DetectOf(q)) = a - 0
      BY <1>2, <2>6, <3>1, CountTail
    <3>3. Count(queue', {q}) = b
      BY <2>6
    <3> HIDE DEF a, b, c
    <3> QED
      BY <2>1, <2>2, <2>3, <3>2, <3>3
  <2> QED
    BY <1>5, <2>4, <2>5, <2>6
<1> QED
  BY <1>7, <1>8, <1>10, <1>11, <1>12, <1>13, <1>14, <1>15, DocTypesApart DEF DocInv

LEMMA DocStep == DocInv /\ Doc!Next => DocInv'
BY TurnTaken, PageAsks, PageReads, WorkerLoads DEF Doc!Next

LEMMA DocStands == DocInv /\ UNCHANGED docVars => DocInv'
BY DEF docVars, DocInv, Doc!TypeOK, Awaited, Turns, Running, Early, Sessions,
       Told, Quiet, Carried

LEMMA DetectionsServedInv == DocInv => DetectionsServed
<1> SUFFICES ASSUME DocInv PROVE DetectionsServed
  OBVIOUS
<1>1. /\ inbox \in Seq(Doc!ToWorker) /\ outbox \in Seq(Doc!ToPage)
      /\ queue \in Seq(Doc!Requesters) /\ LoadTypes
      /\ run \in [Doc!Requesters -> {"none", "running", "releasing", "warming"}]
  BY DocTypesApart DEF DocInv, TurnTypes, ChannelTypes
<1>2. Doc!EveryDetectionCarried
  <2>1. ASSUME NEW r \in Doc!Requesters
        PROVE  Doc!Carriers(r) = Count(inbox, DetectOf(r)) + Count(queue, {r})
                                 + Count(outbox, AnswersTo(r))
    <3>1. /\ {i \in DOMAIN inbox : inbox[i] = Doc!Message("detect", r)}
               = Places(inbox, DetectOf(r))
          /\ {i \in DOMAIN queue : queue[i] = r} = Places(queue, {r})
          /\ {i \in DOMAIN outbox :
                outbox[i] \in {Doc!Message("detected", r), Doc!Message("detectFailed", r)}}
               = Places(outbox, AnswersTo(r))
      BY DEF Places, DetectOf, AnswersTo
    <3> QED
      BY <3>1, DetectionsCounted DEF Doc!Carriers, Count
  <2> QED
    BY <2>1 DEF DocInv, Carried, Doc!EveryDetectionCarried
<1>3. Doc!SessionForOne
  <2> DEFINE R == {r \in Doc!Requesters : run[r] = "running"}
  <2>1. \A r, s \in R : r = s
    BY DEF DocInv, Turns
  <2>2. R = {} \/ \E r \in R : R = {r}
    BY <2>1
  <2>3. Cardinality(R) \in {0, 1}
    BY <2>2, FS_EmptySet, FS_Singleton
  <2>4. R # {} => session # "none"
    BY DEF DocInv, Running
  <2> QED
    BY <2>3, <2>4, DetectionsCounted DEF Doc!SessionForOne
<1>4. Doc!OneSession
  BY DEF DocInv, Sessions, Doc!OneSession
<1>5. Doc!BackendShown
  <2> SUFFICES ASSUME docWorker = "running", status = "ready", outbox = <<>>, Quiet
               PROVE  shown = session
    BY DEF Doc!BackendShown, Quiet
  <2>1. Tells(outbox, shown, session)
    BY DEF DocInv, Told, Early
  <2> QED
    BY <2>1 DEF Tells
<1> QED
  BY <1>2, <1>3, <1>4, <1>5 DEF DetectionsServed

\* For any previews and captures: no answer is lost or comes twice while the
\* worker lives, "a session must not run twice at once" nor is one taken away
\* from a detection, a change of backend leaves one session, and the page shows
\* the one there is (docAligner.worker.ts).
THEOREM WorkersServeDetections == WorkersSpec => []DetectionsServed
<1>1. WorkersInit => DocInv
  BY DocInit DEF WorkersInit
<1>2. DocInv /\ [WorkersNext]_<<part, vars, docVars, assetVars>> => DocInv'
  BY DocStands, DocStep DEF WorkersNext
<1> QED
  BY <1>1, <1>2, DetectionsServedInv, PTL DEF WorkersSpec

-----------------------------------------------------------------------------
(* The files of the model.  The camera looks for a file only when its      *)
(* prefetch is over, and one that is over without bytes has left the file  *)
(* in the Cache, or what became of it excuses a second download.           *)

InFlight == {"look", "fetch", "look2", "fetch2"}

\* Of one file: its prefetch, the camera's load, the downloads so far, whether
\* it is in the Cache and whether it is excused.
FileInv(pre, get, n, cached, excuse) ==
  /\ get \in {"look", "fetch", "bytes", "failed"} => pre \notin InFlight
  /\ get \in {"look", "fetch", "failed"} => pre # "bytes"
  /\ pre = "null" => cached \/ excuse
  /\ pre \in {"forgotten", "rejected"} => excuse
  /\ get \in {"none", "wait", "look"} =>
       /\ n <= 1
       /\ pre \in {"none", "look", "look2"} => n = 0
  /\ n <= 1 \/ excuse

AssetsInv ==
  /\ Assets!TypeOK
  /\ \A f \in Files : prefetches[f] = "fetch" => caches
  /\ ~loading => \A f \in Files : prefetches[f] = "none"
  /\ loader = "idle" => \A f \in Files : gets[f] = "none"
  /\ \A f \in Files :
       FileInv(prefetches[f], gets[f], started[f], f \in stored, f \in excused)

LEMMA AssetsInit == Assets!Init => AssetsInv
<1> SUFFICES ASSUME Assets!Init PROVE AssetsInv
  OBVIOUS
<1>1. /\ prefetches \in [Files -> Assets!PrefetchStages]
      /\ gets \in [Files -> Assets!GetStages]
      /\ started \in [Files -> 0 .. 2]
      /\ \A f \in Files : /\ prefetches[f] = "none" /\ gets[f] = "none"
                          /\ started[f] = 0
  BY DEF Assets!Init, Assets!None, Assets!PrefetchStages, Assets!GetStages
<1>2. /\ caches \in BOOLEAN /\ stored \subseteq Files /\ (stored # {} => caches)
      /\ loading \in BOOLEAN /\ loader \in {"idle", "loading", "loaded", "failed"}
      /\ excused \subseteq Files
  BY DEF Assets!Init
<1> QED
  BY <1>1, <1>2 DEF AssetsInv, Assets!TypeOK, FileInv, InFlight

\* What the work on one file changes: its prefetch or its load, to p and g, the
\* downloads it began, and whether it is stored and excused.
FileTo(f, p, g, n) ==
  /\ UNCHANGED <<caches, loading, loader>>
  /\ prefetches' = [prefetches EXCEPT ![f] = p]
  /\ gets' = [gets EXCEPT ![f] = g]
  /\ started' = [started EXCEPT ![f] = n]
  /\ stored' \in {stored, stored \cup {f}}
  /\ excused' \in {excused, excused \cup {f}}

\* One file's prefetch or load goes on.
LEMMA FileWorks ==
  ASSUME AssetsInv, NEW f \in Files, Assets!Work(f)
  PROVE  \E p \in Assets!PrefetchStages, g \in Assets!GetStages, n \in 0 .. 2 :
           /\ FileTo(f, p, g, n)
           /\ FileInv(p, g, n, f \in stored', f \in excused')
           /\ p = "fetch" \/ stored' # stored => caches
           /\ p = prefetches[f] \/ prefetches[f] # "none"
           /\ g = gets[f] \/ gets[f] # "none"
<1> USE DEF Assets!PrefetchAt, Assets!GetAt, Assets!Begins, Assets!MayStore
<1> DEFINE pre == prefetches[f]
           get == gets[f]
           n == started[f]
<1>1. /\ pre \in Assets!PrefetchStages /\ get \in Assets!GetStages
      /\ n \in 0 .. 2 /\ caches \in BOOLEAN
      /\ FileInv(pre, get, n, f \in stored, f \in excused)
      /\ f \in stored => caches
      /\ pre = "fetch" => caches
  BY DEF AssetsInv, Assets!TypeOK
<1>2. /\ prefetches = [prefetches EXCEPT ![f] = pre]
      /\ gets = [gets EXCEPT ![f] = get]
      /\ started = [started EXCEPT ![f] = n]
  BY DEF AssetsInv, Assets!TypeOK
<1>3. CASE Assets!EnsureCached(f)
  <2>1. PICK p \in Assets!PrefetchStages, m \in Nat :
          /\ FileTo(f, p, get, m)
          /\ \/ pre = "look" /\ p = "null" /\ f \in stored /\ m = n
             \/ pre = "look" /\ p = "fetch" /\ caches /\ m = n + 1
             \/ pre = "look" /\ p = "look2" /\ m = n
             \/ pre = "fetch" /\ p = "forgotten" /\ f \in excused' /\ m = n
             \/ pre = "fetch" /\ p = "null" /\ f \in stored' /\ m = n
             \/ pre = "fetch" /\ p = "bytes" /\ m = n
          /\ stored' # stored => caches
    BY <1>1, <1>2, <1>3 DEF Assets!EnsureCached, FileTo, Assets!PrefetchStages
  <2>2. /\ f \in stored => f \in stored'
        /\ f \in excused => f \in excused'
    BY <2>1 DEF FileTo
  <2>3. FileInv(p, get, m, f \in stored', f \in excused') /\ m \in 0 .. 2
    BY <1>1, <2>1, <2>2 DEF FileInv, InFlight, Assets!GetStages
  <2> QED
    BY <1>1, <2>1, <2>3
<1>4. CASE Assets!PrefetchBytes(f)
  <2>1. PICK p \in Assets!PrefetchStages, m \in Nat :
          /\ FileTo(f, p, get, m)
          /\ \/ pre = "look2" /\ p = "bytes" /\ f \in stored /\ m = n
             \/ pre = "look2" /\ p = "fetch2" /\ m = n + 1
             \/ pre = "fetch2" /\ p = "rejected" /\ f \in excused' /\ m = n
             \/ pre = "fetch2" /\ p = "bytes" /\ m = n
          /\ stored' # stored => caches
    BY <1>1, <1>2, <1>4 DEF Assets!PrefetchBytes, FileTo, Assets!PrefetchStages
  <2>2. /\ f \in stored => f \in stored'
        /\ f \in excused => f \in excused'
    BY <2>1 DEF FileTo
  <2>3. FileInv(p, get, m, f \in stored', f \in excused') /\ m \in 0 .. 2
    BY <1>1, <2>1, <2>2 DEF FileInv, InFlight, Assets!GetStages
  <2> QED
    BY <1>1, <2>1, <2>3
<1>5. CASE Assets!Waited(f)
  <2>1. PICK g \in Assets!GetStages :
          /\ FileTo(f, pre, g, n)
          /\ get = "wait" /\ pre \notin InFlight
          /\ g = IF pre = "bytes" THEN "bytes" ELSE "look"
          /\ UNCHANGED <<stored, excused>>
    BY <1>1, <1>2, <1>5 DEF Assets!Waited, FileTo, Assets!GetStages, InFlight
  <2>2. FileInv(pre, g, n, f \in stored', f \in excused')
    BY <1>1, <2>1 DEF FileInv, InFlight
  <2> QED
    BY <1>1, <2>1, <2>2
<1>6. CASE Assets!LoadAssetBytes(f)
  <2>0. PICK g \in Assets!GetStages, m \in Nat :
          /\ UNCHANGED <<caches, loading, loader, prefetches>>
          /\ gets' = [gets EXCEPT ![f] = g]
          /\ started' = [started EXCEPT ![f] = m]
          /\ \/ /\ get = "look" /\ g = "bytes" /\ m = n
                /\ UNCHANGED <<stored, excused>>
             \/ /\ get = "look" /\ g = "fetch" /\ m = n + 1
                /\ excused' = excused \cup ({f} \cap stored)
                /\ UNCHANGED stored
             \/ /\ get = "fetch" /\ g = "failed" /\ m = n
                /\ excused' = excused \cup {f} /\ UNCHANGED stored
             \/ /\ get = "fetch" /\ g = "bytes" /\ m = n /\ Assets!MayStore(f)
                /\ UNCHANGED excused
    BY <1>1, <1>2, <1>6 DEF Assets!LoadAssetBytes, Assets!GetStages
  <2>1. /\ FileTo(f, pre, g, m)
        /\ \/ get = "look" /\ g = "bytes" /\ m = n
           \/ /\ get = "look" /\ g = "fetch" /\ m = n + 1
              /\ f \in stored => f \in excused'
           \/ get = "fetch" /\ g = "failed" /\ f \in excused' /\ m = n
           \/ get = "fetch" /\ g = "bytes" /\ m = n
        /\ stored' # stored => caches
    <3>1. excused \cup ({f} \cap stored) \in {excused, excused \cup {f}}
      OBVIOUS
    <3> QED
      BY <1>2, <2>0, <3>1 DEF FileTo
  <2>2. /\ f \in stored => f \in stored'
        /\ f \in excused => f \in excused'
    BY <2>1 DEF FileTo
  <2>3. FileInv(pre, g, m, f \in stored', f \in excused') /\ m \in 0 .. 2
    BY <1>1, <2>1, <2>2 DEF FileInv, InFlight, Assets!PrefetchStages
  <2> QED
    BY <1>1, <2>1, <2>3
<1> QED
  BY <1>3, <1>4, <1>5, <1>6 DEF Assets!Work

LEMMA FileWorksInv ==
  ASSUME AssetsInv, NEW f \in Files, Assets!Work(f)
  PROVE  AssetsInv'
<1>1. PICK p \in Assets!PrefetchStages, g \in Assets!GetStages, n \in 0 .. 2 :
        /\ FileTo(f, p, g, n)
        /\ FileInv(p, g, n, f \in stored', f \in excused')
        /\ p = "fetch" \/ stored' # stored => caches
        /\ p = prefetches[f] \/ prefetches[f] # "none"
        /\ g = gets[f] \/ gets[f] # "none"
  BY FileWorks
<1>2. Assets!TypeOK'
  BY <1>1 DEF FileTo, AssetsInv, Assets!TypeOK
<1>3. /\ prefetches'[f] = p /\ gets'[f] = g /\ started'[f] = n
      /\ \A x \in Files \ {f} :
           /\ prefetches'[x] = prefetches[x] /\ gets'[x] = gets[x]
           /\ started'[x] = started[x]
           /\ x \in stored' <=> x \in stored
           /\ x \in excused' <=> x \in excused
  BY <1>1 DEF FileTo, AssetsInv, Assets!TypeOK
<1>4. \A x \in Files : FileInv(prefetches'[x], gets'[x], started'[x],
                               x \in stored', x \in excused')
  <2> TAKE x \in Files
  <2>1. CASE x = f
    BY <1>1, <1>3, <2>1
  <2>2. CASE x # f
    <3>1. FileInv(prefetches[x], gets[x], started[x], x \in stored, x \in excused)
      BY DEF AssetsInv
    <3> QED
      BY <1>3, <2>2, <3>1 DEF FileInv
  <2> QED
    BY <2>1, <2>2
<1>5. /\ \A x \in Files : prefetches'[x] = "fetch" => caches'
      /\ ~loading' => \A x \in Files : prefetches'[x] = "none"
      /\ loader' = "idle" => \A x \in Files : gets'[x] = "none"
  BY <1>1, <1>3 DEF AssetsInv, FileTo
<1> QED
  BY <1>2, <1>4, <1>5 DEF AssetsInv

LEMMA AssetsStep == AssetsInv /\ Assets!Next => AssetsInv'
<1> SUFFICES ASSUME AssetsInv, Assets!Next PROVE AssetsInv'
  OBVIOUS
<1> USE DEF Assets!TypeOK, Assets!PrefetchStages, Assets!GetStages
<1>1. ASSUME NEW f \in Files, Assets!Work(f) PROVE AssetsInv'
  BY <1>1, FileWorksInv
<1>2. CASE Assets!Prefetch
  BY <1>2 DEF Assets!Prefetch, AssetsInv, FileInv, InFlight
<1>3. CASE Assets!Load
  BY <1>3 DEF Assets!Load, AssetsInv, FileInv, InFlight
<1>4. CASE Assets!Settle
  BY <1>4 DEF Assets!Settle, Assets!workVars, AssetsInv, FileInv, InFlight
<1>5. CASE Assets!Replaced
  <2>1. /\ prefetches' \in [Files -> Assets!PrefetchStages]
        /\ gets' \in [Files -> Assets!GetStages]
        /\ started' \in [Files -> 0 .. 2]
        /\ \A f \in Files : /\ prefetches'[f] = "none" /\ gets'[f] = "none"
                            /\ started'[f] = 0
    BY <1>5 DEF Assets!Replaced, Assets!None
  <2>2. /\ caches' \in BOOLEAN /\ stored' \subseteq Files
        /\ (stored' # {} => caches') /\ loading' \in BOOLEAN
        /\ loader' \in {"idle", "loading", "loaded", "failed"}
        /\ excused' \subseteq Files
    BY <1>5 DEF Assets!Replaced, AssetsInv
  <2> QED
    BY <2>1, <2>2 DEF AssetsInv, FileInv, InFlight
<1>6. ASSUME NEW f \in Files, Assets!Lost(f) \/ Assets!OtherTabStores(f)
      PROVE  AssetsInv'
  BY <1>6 DEF Assets!Lost, Assets!OtherTabStores, Assets!workVars, AssetsInv,
              FileInv, InFlight
<1> QED
  BY <1>1, <1>2, <1>3, <1>4, <1>5, <1>6 DEF Assets!Next

LEMMA AssetsStand == AssetsInv /\ UNCHANGED assetVars => AssetsInv'
BY DEF assetVars, AssetsInv, Assets!TypeOK

\* For any files: one that failed does not make the worker download another
\* again, nor does the Cache's refusal or a camera that opens early
\* (docAlignerAssets.ts:107).
THEOREM WorkersDownloadOnce == WorkersSpec => []DownloadedOnce
<1>1. WorkersInit => AssetsInv
  BY AssetsInit DEF WorkersInit
<1>2. AssetsInv /\ [WorkersNext]_<<part, vars, docVars, assetVars>> => AssetsInv'
  BY AssetsStand, AssetsStep DEF WorkersNext
<1>3. AssetsInv => DownloadedOnce
  BY DEF AssetsInv, FileInv, DownloadedOnce, Assets!DownloadedOnce
<1> QED
  BY <1>1, <1>2, <1>3, PTL DEF WorkersSpec

-----------------------------------------------------------------------------
(* The solver runs beside the other two as it does alone.                  *)

LEMMA WorkersAllowSolver == WorkersSpec => Init /\ [][Next]_vars
<1>1. WorkersInit => Init
  BY DEF WorkersInit
<1>2. [WorkersNext]_<<part, vars, docVars, assetVars>> => [Next]_vars
  BY DEF WorkersNext
<1> QED
  BY <1>1, <1>2, PTL DEF WorkersSpec

\* Clients, workers, messages and files hold what their types allow, for any
\* number of runs, messages, previews, captures and files.
THEOREM WorkersTyped == WorkersSpec => []WorkersTypeOK
<1>1. WorkersInit => DocInv /\ AssetsInv
  BY DocInit, AssetsInit DEF WorkersInit
<1>2. DocInv /\ AssetsInv /\ [WorkersNext]_<<part, vars, docVars, assetVars>>
        => DocInv' /\ AssetsInv'
  <2>1. DocInv /\ UNCHANGED docVars => DocInv'
    BY DocStands
  <2>2. AssetsInv /\ UNCHANGED assetVars => AssetsInv'
    BY AssetsStand
  <2> QED
    BY <2>1, <2>2, DocStep, AssetsStep DEF WorkersNext
<1>3. IInv /\ DocInv /\ AssetsInv => WorkersTypeOK
  BY DEF IInv, DocInv, AssetsInv, WorkersTypeOK
<1> QED
  BY <1>1, <1>2, <1>3, WorkersAllowSolver, InitIInv, IInvStep, PTL DEF WorkersSpec

=============================================================================
