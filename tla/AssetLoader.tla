----------------------------- MODULE AssetLoader -----------------------------
(***************************************************************************)
(* The files the DocAligner worker needs, its model and the WebAssembly    *)
(* runtime (docAlignerAssets.ts): the prefetch after the page has loaded,  *)
(* the load when the camera opens, and the Cache API behind both.  One     *)
(* worker asks for each at most once (docAlignerClient.ts); a worker that  *)
(* failed is terminated and replaced, and what is in the Cache outlives it.*)
(*                                                                         *)
(* The bytes are left out.  A look into the Cache and a store may throw at *)
(* any time; the Cache may lose a file (the browser evicts it, or a page   *)
(* of another version prunes it), and another tab may store one.           *)
(***************************************************************************)
EXTENDS Naturals, FiniteSets

CONSTANT Files

FilesAssumption == Files # {} /\ IsFiniteSet(Files)

VARIABLES
  caches,       \* the browser has the Cache API (a secure context)
  stored,       \* the files in the Cache
  prefetching, status,    \* DocAlignerClient
  prefetches,   \* of each file: where its prefetch is
  gets,         \* of each file: where the camera's load is
  started,      \* ghost: downloads this worker began
  excused       \* ghost: files of which a download failed, or which the
                \* Cache lost or did not give the camera, in this worker

workVars == <<prefetches, gets, started>>
vars == <<caches, stored, prefetching, status, prefetches, gets, started,
          excused>>

\* "look" and "fetch" are ensureCached, "look2" and "fetch2" loadAssetBytes
\* after it found no usable cache; "null" and "bytes" are what a prefetch
\* resolves to, "forgotten" one whose entry was deleted.
PrefetchStages == {"none", "look", "fetch", "look2", "fetch2", "null", "bytes",
                   "forgotten", "rejected"}

GetStages == {"none", "wait", "look", "fetch", "bytes", "failed"}

TypeOK ==
  /\ caches \in BOOLEAN
  /\ stored \subseteq Files /\ (stored # {} => caches)
  /\ prefetching \in BOOLEAN
  /\ status \in {"idle", "loading", "loaded", "failed"}
  /\ prefetches \in [Files -> PrefetchStages]
  /\ gets \in [Files -> GetStages]
  /\ started \in [Files -> 0 .. 2]
  /\ excused \subseteq Files

None == [f \in Files |-> "none"]

Init ==
  /\ caches \in BOOLEAN
  /\ stored \in SUBSET (IF caches THEN Files ELSE {})
  /\ prefetching = FALSE /\ status = "idle"
  /\ prefetches = None /\ gets = None
  /\ started = [f \in Files |-> 0]
  /\ excused = {}

Prefetch ==
  /\ ~prefetching /\ status = "idle"
  /\ prefetching' = TRUE
  /\ prefetches' = [f \in Files |-> "look"]
  /\ UNCHANGED <<caches, stored, status, gets, started, excused>>

Load ==
  /\ status = "idle"
  /\ status' = "loading"
  /\ gets' = [f \in Files |-> "wait"]
  /\ UNCHANGED <<caches, stored, prefetching, prefetches, started, excused>>

-----------------------------------------------------------------------------
(* Prefetching one file *)

PrefetchAt(f, stage, next) ==
  /\ prefetches[f] = stage
  /\ prefetches' = [prefetches EXCEPT ![f] = next]
  /\ UNCHANGED <<caches, prefetching, status, gets>>

Begins(f) == started' = [started EXCEPT ![f] = @ + 1]

\* The Cache keeps the file or refuses it.
MayStore(f) ==
  \/ UNCHANGED stored
  \/ caches /\ stored' = stored \cup {f}

\* What a prefetch of f does next.
EnsureCached(f) ==
  \/ /\ f \in stored
     /\ PrefetchAt(f, "look", "null")
     /\ UNCHANGED <<stored, started, excused>>
  \/ /\ caches /\ f \notin stored
     /\ PrefetchAt(f, "look", "fetch")
     /\ Begins(f)
     /\ UNCHANGED <<stored, excused>>
  \/ /\ PrefetchAt(f, "look", "look2")          \* no-cache
     /\ UNCHANGED <<stored, started, excused>>
  \/ /\ PrefetchAt(f, "fetch", "forgotten")     \* the download failed
     /\ excused' = excused \cup {f}
     /\ UNCHANGED <<stored, started>>
  \/ /\ PrefetchAt(f, "fetch", "null")
     /\ stored' = stored \cup {f}
     /\ UNCHANGED <<started, excused>>
  \/ /\ PrefetchAt(f, "fetch", "bytes")         \* the Cache refused them
     /\ UNCHANGED <<stored, started, excused>>

\* Without a usable cache the bytes are kept; a failure of this download
\* stays in the map of prefetches.
PrefetchBytes(f) ==
  \/ /\ f \in stored
     /\ PrefetchAt(f, "look2", "bytes")
     /\ UNCHANGED <<stored, started, excused>>
  \/ /\ PrefetchAt(f, "look2", "fetch2")
     /\ Begins(f)
     /\ UNCHANGED <<stored, excused>>
  \/ /\ PrefetchAt(f, "fetch2", "rejected")
     /\ excused' = excused \cup {f}
     /\ UNCHANGED <<stored, started>>
  \/ /\ PrefetchAt(f, "fetch2", "bytes")
     /\ MayStore(f)
     /\ UNCHANGED <<started, excused>>

-----------------------------------------------------------------------------
(* The camera *)

GetAt(f, stage, next) ==
  /\ gets[f] = stage
  /\ gets' = [gets EXCEPT ![f] = next]
  /\ UNCHANGED <<caches, prefetching, status, prefetches>>

\* Mutant: the camera does not wait for the prefetch under way.
TakenAtOnce(f) ==
  /\ GetAt(f, "wait", IF prefetches[f] = "bytes" THEN "bytes" ELSE "look")
  /\ UNCHANGED <<stored, started, excused>>

\* getOne waits for the prefetch of its file, whatever comes of it, and uses
\* the bytes it kept.
Waited(f) ==
  /\ prefetches[f] \notin {"look", "fetch", "look2", "fetch2"}
  /\ GetAt(f, "wait", IF prefetches[f] = "bytes" THEN "bytes" ELSE "look")
  /\ UNCHANGED <<stored, started, excused>>

LoadAssetBytes(f) ==
  \/ /\ f \in stored
     /\ GetAt(f, "look", "bytes")
     /\ UNCHANGED <<stored, started, excused>>
  \/ /\ GetAt(f, "look", "fetch")
     /\ Begins(f)
     /\ excused' = excused \cup ({f} \cap stored)   \* the look threw
     /\ UNCHANGED stored
  \/ /\ GetAt(f, "fetch", "failed")
     /\ excused' = excused \cup {f}
     /\ UNCHANGED <<stored, started>>
  \/ /\ GetAt(f, "fetch", "bytes")
     /\ MayStore(f)
     /\ UNCHANGED <<started, excused>>

\* Promise.all rejects with the first failure, resolves with the last file.
Settle ==
  /\ status = "loading"
  /\ \/ (\E f \in Files : gets[f] = "failed") /\ status' = "failed"
     \/ (\A f \in Files : gets[f] = "bytes") /\ status' = "loaded"
  /\ UNCHANGED <<caches, stored, prefetching, workVars, excused>>

\* A client that failed has terminated its worker; sharedDocAligner starts
\* another.
Replaced ==
  /\ status = "failed"
  /\ prefetching' = FALSE /\ status' = "idle"
  /\ prefetches' = None /\ gets' = None
  /\ started' = [f \in Files |-> 0]
  /\ excused' = {}
  /\ UNCHANGED <<caches, stored>>

-----------------------------------------------------------------------------
(* The Cache *)

Lost(f) ==
  /\ f \in stored
  /\ stored' = stored \ {f}
  /\ excused' = excused \cup {f}
  /\ UNCHANGED <<caches, prefetching, status, workVars>>

OtherTabStores(f) ==
  /\ caches /\ f \notin stored
  /\ stored' = stored \cup {f}
  /\ UNCHANGED <<caches, prefetching, status, workVars, excused>>

-----------------------------------------------------------------------------

Work(f) == EnsureCached(f) \/ PrefetchBytes(f) \/ Waited(f) \/ LoadAssetBytes(f)

Next ==
  \/ Prefetch
  \/ Load
  \/ \E f \in Files : Work(f)
  \/ Settle
  \/ Replaced
  \/ \E f \in Files : Lost(f)
  \/ \E f \in Files : OtherTabStores(f)

\* A request for a file ends: the browser's fetch and Cache settle.
Fairness == WF_vars(Settle) /\ \A f \in Files : WF_vars(Work(f))

Spec == Init /\ [][Next]_vars /\ Fairness

\* "so one failed file never restarts the other" (docAlignerAssets.ts:107): a
\* worker downloads a file a second time only if its own first download
\* failed or the Cache, once it had the file, no longer gave it; not because
\* the other file failed, because the Cache refused it, because there is no
\* Cache, or because the camera opened while the prefetch was under way.
DownloadedOnce == \A f \in Files : started[f] <= 1 \/ f \in excused

\* The camera's load ends, with both files or with an error, whatever became
\* of the prefetches it waits for.
LoadSettles == status = "loading" ~> status \in {"loaded", "failed"}
==============================================================================
