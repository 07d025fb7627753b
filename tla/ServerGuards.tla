----------------------------- MODULE ServerGuards -----------------------------
(***************************************************************************)
(* What the server keeps safe while requests come at once: its             *)
(* administrators (AccountDeletion), the number of guesses at a password   *)
(* (LoginRateLimiter) and the slots of the photo extraction (PhotoImport). *)
(* The three share no state, so each behaviour moves one of them only.     *)
(***************************************************************************)
EXTENDS AccountDeletion

CONSTANTS
  Names, Addresses, NameLimit, AddressLimit, Window, MaxEntries, Attempts,
  Windows, Photos, UploadSlots, ModelSlots, MaxRetries, MaxTyped, None

VARIABLES
  part,   \* the component that moves
  buckets, attempt, recent,
  form, reading, photo, owner, typedThen, gone, questions, answer, uploads,
  extractions

Limiter == INSTANCE LoginRateLimiter

Import == INSTANCE PhotoImport WITH stage <- photo

limiterVars == <<buckets, attempt, recent>>

photoVars ==
  <<form, reading, photo, owner, typedThen, gone, questions, answer, uploads,
    extractions>>

ASSUME LimitsAssumption == Limiter!LimiterAssumption
ASSUME SlotsAssumption == Import!PhotoAssumption

GuardsInit ==
  /\ part \in {"accounts", "logins", "photos"}
  /\ Init /\ Limiter!Init /\ Import!Init
  /\ part # "accounts" => users = Ids

GuardsNext ==
  \/ part = "accounts" /\ Next /\ UNCHANGED <<part, limiterVars, photoVars>>
  \/ part = "logins" /\ Limiter!Next /\ UNCHANGED <<part, vars, photoVars>>
  \/ part = "photos" /\ Import!Next /\ UNCHANGED <<part, vars, limiterVars>>

\* The fairness of the component that moves: Fairness, Limiter!Fairness and
\* Import!Fairness.
GuardsFairness ==
  /\ \A u \in Ids : WF_vars(part = "accounts" /\ Unlock(u))
  /\ \A d \in Deleters :
       /\ WF_vars(part = "accounts" /\ (Select(d) \/ Check(d)))
       /\ SF_vars(part = "accounts" /\ LockNext(d))
       /\ SF_vars(part = "accounts" /\ Delete(d))
  /\ WF_limiterVars(part = "logins" /\ Limiter!Tick)
  /\ \A t \in Attempts :
       WF_limiterVars(part = "logins" /\
         \E how \in {"success", "failure", "error"} : Limiter!Finish(t, how))
  /\ \A p \in Photos :
       /\ WF_photoVars(part = "photos" /\ Import!Prepare(p))
       /\ WF_photoVars(part = "photos" /\ Import!Deliver(p))
       /\ WF_photoVars(part = "photos" /\ (Import!NotSent(p) \/ Import!Arrive(p)))
       /\ WF_photoVars(part = "photos" /\ Import!InRoute(p))

GuardsSpec ==
  GuardsInit /\ [][GuardsNext]_<<part, vars, limiterVars, photoVars>> /\ GuardsFairness

-----------------------------------------------------------------------------

\* Accounts, counters and slots hold what their types allow.
GuardsTypeOK == TypeOK /\ Limiter!TypeOK /\ Import!TypeOK

\* Every attempt at a password is counted while it runs and, if it fails,
\* for a window; neither the counters nor the failures grow beyond limits.
AttemptsLimited ==
  Limiter!ReservationsCounted /\ Limiter!EntriesLimited /\ Limiter!FailuresLimited

\* Nobody is locked out for good: neither by failures and running attempts, even
\* if attempts go on, nor by a map full of the attempts of others, once these
\* are over. (While they go on they may keep the map full.)
LockoutEnds == Limiter!LimitsEnd /\ Limiter!RoomReturns

\* Each way a photo's request ends gives its slot back, and gives it back once.
SlotsCounted == Import!SlotsCounted

\* A full gate opens again, and no window reads a photo for ever.
PhotosSettle == Import!PhotosSettle
===============================================================================
