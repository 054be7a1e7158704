----------------------------- MODULE TokenBucket -----------------------------
(***************************************************************************)
(* One TokenBucket object over time: callers acquire with the limits they  *)
(* know, the wall clock advances, and may be set back.                     *)
(***************************************************************************)
EXTENDS BucketHandlers

CONSTANTS
  Requests,    \* the [capacity, refillRate] pairs callers pass
  MaxCapacity, \* no request exceeds it
  MaxRate,     \* no request exceeds it
  MaxClock     \* bound of the model: milliseconds of forward time

ASSUME RequestsAssumption ==
  /\ MaxCapacity \in Nat /\ MaxRate \in Nat
  /\ Requests \subseteq [capacity : 1..MaxCapacity, refillRate : 1..MaxRate]
ASSUME ClockAssumption == MaxClock \in Nat

VARIABLES
  bucket,     \* tokens of the object
  lastRefill, \* lastRefillMs
  config,     \* capacity and refillRate, which acquire stores for state
  now,        \* the wall clock
  forward,    \* milliseconds the clock has moved forward in all (history)
  granted,    \* acquires that succeeded (history)
  promise     \* what the last refused acquire was told: [at, req] or none

vars == <<bucket, lastRefill, config, now, forward, granted, promise>>

NoConfig == [capacity |-> 0, refillRate |-> 0]
NoPromise == [given |-> FALSE]
Elapsed == IF now > lastRefill THEN now - lastRefill ELSE 0

Init ==
  /\ bucket = Untouched /\ config = NoConfig
  /\ lastRefill = 0 /\ now = 0 /\ forward = 0 /\ granted = 0
  /\ promise = NoPromise

\* Mutant: lastRefillMs is not written.
AcquireKeepsClock(req) ==
  \E refilled \in Refills(bucket, Elapsed, req) :
    /\ bucket' = AfterAcquire(refilled)
    /\ config' = req
    /\ granted' = IF Enough(refilled) THEN granted + 1 ELSE granted
    /\ promise' = NoPromise
    /\ UNCHANGED <<lastRefill, now, forward>>

Acquire(req) ==
  \E refilled \in Refills(bucket, Elapsed, req) :
    /\ bucket' = AfterAcquire(refilled)
    /\ config' = req
    /\ lastRefill' = now
    /\ \/ /\ Enough(refilled)
          /\ granted' = granted + 1
          /\ promise' = NoPromise
       \/ /\ ~Enough(refilled)
          /\ \E wait \in WaitMs(refilled, req) :
               promise' = [given |-> TRUE, at |-> now + wait, req |-> req]
          /\ UNCHANGED granted
    /\ UNCHANGED <<now, forward>>

Tick ==
  /\ forward < MaxClock
  /\ now' = now + 1
  /\ forward' = forward + 1
  /\ UNCHANGED <<bucket, lastRefill, config, granted, promise>>

\* The system clock is corrected.
StepBack ==
  /\ now > 0
  /\ now' = now - 1
  /\ UNCHANGED <<bucket, lastRefill, config, forward, granted, promise>>

Next == (\E req \in Requests : Acquire(req)) \/ Tick \/ StepBack

Spec == Init /\ [][Next]_vars

-----------------------------------------------------------------------------
(* Properties.                                                              *)

TypeOK ==
  /\ bucket \in [touched : BOOLEAN, tokens : 0..MaxCapacity * Unit, short : BOOLEAN]
  /\ config \in [capacity : 0..MaxCapacity, refillRate : 0..MaxRate]
  /\ bucket.touched => /\ config \in Requests
                       /\ bucket.tokens <= config.capacity * Unit
  /\ lastRefill \in Nat /\ now \in Nat /\ forward \in Nat /\ granted \in Nat

\* Whatever limits the callers pass, in whatever order, and however often the
\* clock is set back: the tokens granted never exceed one full bucket plus
\* what the highest rate refills in the time that passed.
RateBound == granted * Unit <= MaxCapacity * Unit + MaxRate * forward

\* The budget that RateBound spends: tokens granted, tokens left and tokens
\* that the time since the last refill will still add.
RateBudget ==
  bucket.touched =>
    bucket.tokens + granted * Unit + MaxRate * Elapsed
      <= MaxCapacity * Unit + MaxRate * forward

\* waitMs is right to a millisecond.  Nobody else having acquired since, the
\* same request finds its token when the promised time is past, and did not
\* find it two milliseconds before the promised time or earlier; at the
\* promised time rounding may refuse it again, for one millisecond.
WaitMsIsTight ==
  promise.given =>
    \A refilled \in Refills(bucket, Elapsed, promise.req) :
      /\ now > promise.at => Enough(refilled)
      /\ now = promise.at => Enough(refilled) \/ WaitMs(refilled, promise.req) = {1}
      /\ now < promise.at - 1 => ~Enough(refilled)

\* The ops view is right about the future to a millisecond: one after the
\* countdown is over the bucket has gained a whole token, and two before the
\* end it has not.
CountdownIsTight ==
  bucket.touched =>
    \A live \in Refills(bucket, Elapsed, config) :
      Refilling(live, config) =>
        \A wait \in NextRefillMs(live, config) :
          /\ \A later \in Refills(bucket, Elapsed + wait + 1, config) :
               WholeTokens(later) > WholeTokens(live)
          /\ wait >= 2 =>
               \A sooner \in Refills(bucket, Elapsed + wait - 2, config) :
                 WholeTokens(sooner) <= WholeTokens(live)

\* Both answers about the future that the handlers give (the delay a refused
\* call sleeps for, and the countdown of the ops view) are right to the
\* millisecond that floating point may add or withhold.
WaitsAreTight == WaitMsIsTight /\ CountdownIsTight
=============================================================================
