--------------------------- MODULE BucketHandlers ---------------------------
(***************************************************************************)
(* services/gateway/src/token-bucket.ts: what the handlers acquire and     *)
(* state compute, as operators on the stored state of one TokenBucket.     *)
(*                                                                         *)
(* Amounts are in units: a token is Unit units and a refill rate is in     *)
(* units per millisecond.  The gateway always passes a rate of capacity/60 *)
(* tokens per second, which is capacity units per millisecond when Unit is *)
(* 60000, so the amount the code means is always an integer.  The code     *)
(* computes it in floating point, with errors far below a unit: they       *)
(* matter where a comparison or Math.ceil meets a whole value, and there   *)
(* both outcomes are possible.  A refill to a whole number of tokens may   *)
(* be short of it by a hair; a wait of a whole number of milliseconds may  *)
(* be rounded up to one more.                                              *)
(***************************************************************************)
EXTENDS Integers

CONSTANT Unit \* units in one token

ASSUME UnitAssumption == Unit \in Nat \ {0}

\* What acquire reads back: the tokens, and whether the number stored for them
\* is a hair short.  An untouched object has no state; ctx.get returns null.
Untouched == [touched |-> FALSE, tokens |-> 0, short |-> FALSE]

Lesser(x, y) == IF x < y THEN x ELSE y
CeilDiv(x, y) == (x + y - 1) \div y

\* What the stored tokens may be once elapsed milliseconds have refilled them
\* at the rate and up to the capacity of THIS request.  Math.min cuts to the
\* capacity exactly, an untouched bucket starts full, and nothing is rounded
\* when nothing is added.
Refills(bucket, elapsed, req) ==
  LET full == req.capacity * Unit
      sum == bucket.tokens + elapsed * req.refillRate
      rounding == IF elapsed = 0 THEN {bucket.short}
                  ELSE IF sum % Unit = 0 THEN BOOLEAN ELSE {FALSE}
  IN  IF ~bucket.touched \/ sum > full
        THEN {[tokens |-> full, short |-> FALSE]}
        ELSE {[tokens |-> sum, short |-> hair] : hair \in rounding}

\* tokens >= req.tokens, with tokens = 1.
Enough(refilled) == refilled.tokens > Unit \/ (refilled.tokens = Unit /\ ~refilled.short)

\* The token taken out; a subtraction of 1 is exact.
Left(refilled) == IF Enough(refilled) THEN refilled.tokens - Unit ELSE refilled.tokens

\* Mutant: a granted token is not taken out.
AfterAcquireFree(refilled) ==
  [touched |-> TRUE, tokens |-> refilled.tokens, short |-> refilled.short]

\* Mutant: a refused acquire restarts the clock and forgets what was refilled.
AfterAcquireForgets(refilled) ==
  IF Enough(refilled)
    THEN [touched |-> TRUE, tokens |-> Left(refilled), short |-> refilled.short]
    ELSE [touched |-> TRUE, tokens |-> 0, short |-> FALSE]

AfterAcquire(refilled) ==
  [touched |-> TRUE, tokens |-> Left(refilled), short |-> refilled.short]

\* Math.ceil of the milliseconds that refill the missing amount; no amount is
\* missing when only a hair is.
MsFor(missing, refillRate) ==
  IF missing = 0 THEN {1}
  ELSE IF missing % refillRate = 0
    THEN {missing \div refillRate, missing \div refillRate + 1}
    ELSE {CeilDiv(missing, refillRate)}

\* Mutant: the wait is for a whole token, not for the part that is missing.
WaitMsWhole(refilled, req) == MsFor(Unit, req.refillRate)

\* waitMs of a refused acquire.
WaitMs(refilled, req) == MsFor(Unit - refilled.tokens, req.refillRate)

\* state: live is the amount now, of which whole tokens are WholeTokens; the
\* countdown runs while it is below the capacity.
WholeTokens(live) == IF live.short THEN live.tokens \div Unit - 1 ELSE live.tokens \div Unit
Refilling(live, config) == live.tokens < config.capacity * Unit \/ live.short

NextRefillMs(live, config) ==
  MsFor(IF live.short THEN 0 ELSE Unit - (live.tokens % Unit), config.refillRate)
=============================================================================
