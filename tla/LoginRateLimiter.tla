-------------------------- MODULE LoginRateLimiter --------------------------
(***************************************************************************)
(* The limits on login attempts (loginRateLimit.ts) as the login handler   *)
(* uses them: an attempt reserves a place in the bucket of its user name   *)
(* and in that of its address before the password is hashed, and finishes  *)
(* when the hash is checked or the check throws.                           *)
(*                                                                         *)
(* Time is relative: a bucket has so many ticks left.                      *)
(***************************************************************************)
EXTENDS Integers, FiniteSets

CONSTANTS
  Names,         \* trimmed and in lower case
  Addresses,
  NameLimit,     \* failed and running attempts of a name in a window
  AddressLimit,
  Window,        \* ticks
  MaxEntries,    \* buckets
  Attempts       \* bound: attempts in flight at once

Keys == Names \cup Addresses

NoAttempt == {}

LimiterAssumption ==
  /\ NameLimit \in Nat \ {0} /\ AddressLimit \in Nat \ {0}
  /\ Window \in Nat \ {0}
  /\ MaxEntries \in Nat \ {0, 1}   \* room for the two keys of an attempt
  /\ Names \cap Addresses = {}
  /\ IsFiniteSet(Attempts)

VARIABLES
  buckets,   \* of some keys
  attempt,   \* the keys an attempt in flight has reserved
  recent     \* ghost: failures of each key in its last age + 1 ticks, for each
             \* age, since its last success

vars == <<buckets, attempt, recent>>

Limit(k) == IF k \in Names THEN NameLimit ELSE AddressLimit

Bucket ==
  [failures : 0 .. NameLimit + AddressLimit,
   pending  : 0 .. NameLimit + AddressLimit,
   left     : 0 .. Window]

TypeOK ==
  /\ DOMAIN buckets \subseteq Keys
  /\ buckets \in [DOMAIN buckets -> Bucket]
  /\ attempt \in [Attempts -> {{n, a} : n \in Names, a \in Addresses}
                              \cup {NoAttempt}]
  /\ recent \in [Keys -> [0 .. Window - 1 -> Nat]]

Init ==
  /\ buckets = [k \in {} |-> {}]
  /\ attempt = [t \in Attempts |-> NoAttempt]
  /\ recent = [k \in Keys |-> [age \in 0 .. Window - 1 |-> 0]]

-----------------------------------------------------------------------------

\* The window is over and no attempt needs the bucket.
Expired(b) == b.left = 0 /\ b.pending = 0

\* The buckets the sweep at the head of begin() leaves.
Live == {k \in DOMAIN buckets : ~Expired(buckets[k])}

\* Mutant: only failures count, not the attempts that may still fail.
FailuresReached(k) == k \in Live /\ buckets[k].failures >= Limit(k)

AtLimit(k) ==
  k \in Live /\ buckets[k].failures + buckets[k].pending >= Limit(k)

\* Active counters are not evicted to make room.
HasRoom(K) == Cardinality(Live \cup K) <= MaxEntries

\* begin(): a fresh window starts with the first attempt.
Reserved(K) ==
  [k \in Live \cup K |->
     IF k \notin Live THEN [failures |-> 0, pending |-> 1, left |-> Window]
     ELSE IF k \in K THEN [buckets[k] EXCEPT !.pending = @ + 1]
     ELSE buckets[k]]

\* begin() admits the attempt.
Begin(t, n, a) ==
  /\ attempt[t] = NoAttempt
  /\ ~AtLimit(n) /\ ~AtLimit(a)
  /\ HasRoom({n, a})
  /\ buckets' = Reserved({n, a})
  /\ attempt' = [attempt EXCEPT ![t] = {n, a}]
  /\ UNCHANGED recent

\* begin() answers that the attempt came too early; it has swept all the same.
Refuse(n, a) ==
  /\ AtLimit(n) \/ AtLimit(a) \/ ~HasRoom({n, a})
  /\ buckets' = [k \in Live |-> buckets[k]]
  /\ UNCHANGED <<attempt, recent>>

\* Mutant: the handler lets an exception pass without finishing the attempt.
KeptOnError(k, how) ==
  IF how = "error" THEN buckets[k]
  ELSE [buckets[k] EXCEPT !.pending = @ - 1]

\* finish(): a success clears the name, never the address.
Finished(k, how) ==
  [buckets[k] EXCEPT
     !.pending = @ - 1,
     !.failures = IF how = "failure" THEN @ + 1
                  ELSE IF how = "success" /\ k \in Names THEN 0 ELSE @]

Idle(b) == b.pending = 0 /\ b.failures = 0

\* What is left of the ghost of a key.
Recorded(k, how) ==
  IF how = "failure" THEN [age \in 0 .. Window - 1 |-> recent[k][age] + 1]
  ELSE IF how = "success" /\ k \in Names THEN [age \in 0 .. Window - 1 |-> 0]
  ELSE recent[k]

\* The handler's password check is right, wrong or throws.
Finish(t, how) ==
  /\ attempt[t] # NoAttempt
  /\ LET next == [k \in DOMAIN buckets |->
                    IF k \in attempt[t] THEN Finished(k, how) ELSE buckets[k]]
         kept == {k \in DOMAIN buckets : ~(k \in attempt[t] /\ Idle(next[k]))}
     IN  buckets' = [k \in kept |-> next[k]]
  /\ attempt' = [attempt EXCEPT ![t] = NoAttempt]
  /\ recent' = [k \in Keys |->
                  IF k \in attempt[t] THEN Recorded(k, how) ELSE recent[k]]

\* Time passes.
Tick ==
  /\ buckets' = [k \in DOMAIN buckets |->
       [buckets[k] EXCEPT !.left = IF @ > 0 THEN @ - 1 ELSE 0]]
  /\ recent' = [k \in Keys |->
       [age \in 0 .. Window - 1 |-> IF age = 0 THEN 0 ELSE recent[k][age - 1]]]
  /\ UNCHANGED attempt

Next ==
  \/ Tick
  \/ \E n \in Names, a \in Addresses :
       Refuse(n, a) \/ \E t \in Attempts : Begin(t, n, a)
  \/ \E t \in Attempts, how \in {"success", "failure", "error"} : Finish(t, how)

\* A password check ends and time goes on.
Fairness ==
  /\ WF_vars(Tick)
  /\ \A t \in Attempts :
       WF_vars(\E how \in {"success", "failure", "error"} : Finish(t, how))

Spec == Init /\ [][Next]_vars /\ Fairness

-----------------------------------------------------------------------------

InFlight(k) == {t \in Attempts : k \in attempt[t]}

\* The object an attempt holds is the one in the map: a bucket's pending count is
\* the number of attempts in flight that reserved it, however long ago.
ReservationsCounted ==
  \A k \in Keys :
    Cardinality(InFlight(k)) =
      IF k \in DOMAIN buckets THEN buckets[k].pending ELSE 0

\* The map does not grow with the names that are tried.
EntriesLimited == Cardinality(DOMAIN buckets) <= MaxEntries

\* In any interval of a window's length a name or an address fails at most twice
\* as often as its limit says (twice, because windows are fixed and two of them may
\* meet in the interval), a name counting from its last success.
FailuresLimited == \A k \in Keys : recent[k][Window - 1] <= 2 * Limit(k)

\* No name and no address stays at its limit, even if attempts go on.
LimitsEnd == \A k \in Keys : AtLimit(k) ~> ~AtLimit(k)

\* A map that was full has room again for a pair whose own attempts go on, once
\* those at other names and addresses are over.
RoomReturns ==
  \A n \in Names, a \in Addresses :
    (\A k \in Keys \ {n, a} : <>[](InFlight(k) = {})) => <>[]HasRoom({n, a})
=============================================================================
