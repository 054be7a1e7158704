-------------------------- MODULE TokenBucketProofs --------------------------
(***************************************************************************)
(* TokenBucket keeps its rate for every size of a token, every set of      *)
(* requests and every history of the wall clock.                           *)
(*                                                                         *)
(* RateBound is not inductive: a step that spends what time has refilled   *)
(* must know how much that is.  RateBudget says it, and needs that an      *)
(* untouched bucket has granted nothing (Fresh).                           *)
(***************************************************************************)
EXTENDS TokenBucket, TLAPS

Fresh == ~bucket.touched => granted = 0
Inv == TypeOK /\ Fresh /\ RateBudget

USE UnitAssumption, RequestsAssumption, ClockAssumption

-----------------------------------------------------------------------------
(* Arithmetic.                                                              *)

\* A product of naturals is a natural.
LEMMA ProductNat == ASSUME NEW x \in Nat, NEW y \in Nat PROVE x * y \in Nat
  OBVIOUS

\* Products grow with their factors.
LEMMA ProductMonotone ==
  ASSUME NEW x \in Nat, NEW y \in Nat, NEW z \in Nat, x <= y
  PROVE  x * z <= y * z /\ z * x <= z * y
  OBVIOUS

\* One more of what is multiplied.
LEMMA ProductSuccessor ==
  ASSUME NEW x \in Nat, NEW y \in Nat
  PROVE  (x + 1) * y = x * y + y /\ y * (x + 1) = y * x + y
  OBVIOUS

\* The quotient of an integer division.
LEMMA Quotient ==
  ASSUME NEW a \in Nat, NEW b \in Nat \ {0}
  PROVE  a \div b \in Nat /\ b * (a \div b) <= a /\ a < b * (a \div b) + b
  OBVIOUS

\* The quotient compared with a number, and the remainder.
LEMMA QuotientBounds ==
  ASSUME NEW a \in Nat, NEW b \in Nat \ {0}, NEW k \in Nat
  PROVE  /\ b * k <= a => k <= a \div b
         /\ a < b * k => a \div b < k
<1> DEFINE d == a \div b
<1>1. d \in Nat /\ b * d <= a /\ a < b * d + b /\ b * k \in Nat
  BY Quotient, ProductNat
<1> HIDE DEF d
<1>2. ASSUME b * k <= a, d < k PROVE FALSE
  <2>1. b * (d + 1) <= b * k /\ b * (d + 1) = b * d + b
    BY <1>1, <1>2, ProductMonotone, ProductSuccessor
  <2> QED
    BY <1>1, <1>2, <2>1
<1>3. ASSUME a < b * k, k <= d PROVE FALSE
  <2>1. b * k <= b * d
    BY <1>1, <1>3, ProductMonotone
  <2> QED
    BY <1>1, <1>3, <2>1
<1> QED
  BY <1>1, <1>2, <1>3 DEF d

\* The division with remainder.
LEMMA Remainder ==
  ASSUME NEW a \in Nat, NEW b \in Nat \ {0}
  PROVE  a % b \in 0..(b - 1) /\ a = b * (a \div b) + (a % b)
  OBVIOUS

\* The division that rounds up is the least number of steps of y that reach x.
LEMMA CeilDivLeast ==
  ASSUME NEW x \in Nat \ {0}, NEW y \in Nat \ {0}
  PROVE  /\ CeilDiv(x, y) \in Nat \ {0}
         /\ \A e \in Nat : e >= CeilDiv(x, y) <=> e * y >= x
<1> DEFINE z == (x + y - 1) \div y
<1>1. z \in Nat /\ y * z <= x + y - 1 /\ x + y - 1 < y * z + y
  BY Quotient
<1>2. CeilDiv(x, y) = z
  BY DEF CeilDiv
<1> HIDE DEF z
<1>3. z # 0
  BY <1>1
<1>4. ASSUME NEW e \in Nat PROVE e >= z <=> e * y >= x
  <2>1. CASE e >= z
    <3>1. e * y >= y * z
      BY <1>1, <2>1
    <3> QED
      BY <1>1, <2>1, <3>1
  <2>2. CASE e < z
    <3>1. (e + 1) * y <= y * z /\ (e + 1) * y = e * y + y
      BY <1>1, <2>2
    <3> QED
      BY <1>1, <2>2, <3>1
  <2> QED
    BY <1>1, <2>1, <2>2
<1> QED
  BY <1>1, <1>2, <1>3, <1>4

\* The milliseconds told for an amount refill it, and two less do not.
LEMMA MsForTight ==
  ASSUME NEW x \in Nat, NEW y \in Nat \ {0}, NEW w \in MsFor(x, y)
  PROVE  /\ w \in Nat \ {0}
         /\ x = 0 => w = 1
         /\ \A e \in Nat : /\ e >= w => e * y >= x
                           /\ e + 2 <= w => e * y < x
<1>1. CASE x = 0
  <2>1. w = 1
    BY <1>1 DEF MsFor
  <2> QED
    BY <1>1, <2>1, ProductNat
<1>2. CASE x # 0 /\ x % y = 0
  <2> DEFINE q == x \div y
  <2>1. q \in Nat /\ x = y * q /\ w \in {q, q + 1}
    BY <1>2, Quotient, Remainder DEF MsFor
  <2> HIDE DEF q
  <2>2. q # 0
    BY <1>2, <2>1
  <2>3. ASSUME NEW e \in Nat PROVE /\ e >= q => e * y >= x
                                   /\ e < q => e * y < x
    <3>1. e >= q => q * y <= e * y
      BY <2>1, ProductMonotone
    <3>2. e < q => (e + 1) * y <= q * y
      BY <2>1, ProductMonotone
    <3>3. (e + 1) * y = e * y + y /\ e * y \in Nat /\ q * y = x
      BY <2>1, ProductSuccessor, ProductNat
    <3> QED
      BY <3>1, <3>2, <3>3
  <2> QED
    BY <1>2, <2>1, <2>2, <2>3
<1>3. CASE x # 0 /\ x % y # 0
  <2>1. w = CeilDiv(x, y)
    BY <1>3 DEF MsFor
  <2>2. w \in Nat \ {0} /\ \A e \in Nat : e >= w <=> e * y >= x
    BY <1>3, <2>1, CeilDivLeast
  <2>3. ASSUME NEW e \in Nat, e + 2 <= w PROVE e * y < x
    BY <2>2, <2>3, ProductNat
  <2> QED
    BY <1>3, <2>2, <2>3
<1> QED
  BY <1>1, <1>2, <1>3

-----------------------------------------------------------------------------
\* A budget that held keeps holding when both sides move, the right one as far.
LEMMA BudgetShifts ==
  ASSUME NEW spent \in Nat, NEW full \in Nat, NEW due \in Nat, NEW duePrime \in Nat,
         NEW earned \in Nat, NEW earnedPrime \in Nat,
         duePrime + earned <= due + earnedPrime, spent + due <= full + earned
  PROVE  spent + duePrime <= full + earnedPrime
  OBVIOUS

-----------------------------------------------------------------------------
(* The handlers.                                                            *)

\* A refill of a bucket in use either reaches the capacity, exactly, or adds up.
LEMMA RefillCases ==
  ASSUME NEW b, b.touched, NEW elapsed \in Nat, NEW req, NEW refilled \in Refills(b, elapsed, req)
  PROVE  \/ /\ b.tokens + elapsed * req.refillRate > req.capacity * Unit
            /\ refilled.tokens = req.capacity * Unit /\ ~refilled.short
         \/ /\ ~(b.tokens + elapsed * req.refillRate > req.capacity * Unit)
            /\ refilled.tokens = b.tokens + elapsed * req.refillRate
            /\ elapsed = 0 => refilled.short = b.short
            /\ elapsed # 0 /\ refilled.short => refilled.tokens % Unit = 0
            /\ b.short \in BOOLEAN => refilled.short \in BOOLEAN
<1> DEFINE full == req.capacity * Unit
           sum == b.tokens + elapsed * req.refillRate
           rounding == IF elapsed = 0 THEN {b.short}
                       ELSE IF sum % Unit = 0 THEN BOOLEAN ELSE {FALSE}
<1>1. refilled \in IF sum > full THEN {[tokens |-> full, short |-> FALSE]}
                  ELSE {[tokens |-> sum, short |-> hair] : hair \in rounding}
  BY DEF Refills
<1> HIDE DEF full, sum
<1>2. CASE sum > full
  <2>1. refilled = [tokens |-> full, short |-> FALSE]
    BY <1>1, <1>2
  <2>2. refilled.tokens = full /\ refilled.short = FALSE
    BY <2>1
  <2> QED
    BY <1>2, <2>2 DEF full, sum
<1>3. CASE ~(sum > full)
  <2>1. PICK hair \in rounding : refilled = [tokens |-> sum, short |-> hair]
    BY <1>1, <1>3
  <2>2. refilled.tokens = sum /\ refilled.short = hair
    BY <2>1
  <2>3. /\ elapsed = 0 => hair = b.short
        /\ elapsed # 0 /\ sum % Unit # 0 => hair = FALSE
        /\ elapsed # 0 => hair \in BOOLEAN
    BY <2>1
  <2> QED
    BY <1>3, <2>2, <2>3, Zenon DEF full, sum
<1> QED
  BY <1>2, <1>3

\* A refill yields no more than the request's capacity, and no more than was
\* there and the time since adds at the highest rate.
LEMMA RefillBounded ==
  ASSUME TypeOK, NEW req \in Requests, NEW refilled \in Refills(bucket, Elapsed, req)
  PROVE  /\ refilled.tokens \in 0..req.capacity * Unit /\ refilled.short \in BOOLEAN
         /\ req.capacity * Unit <= MaxCapacity * Unit
         /\ req.capacity * Unit \in Nat /\ MaxCapacity * Unit \in Nat
         /\ bucket.touched => refilled.tokens <= bucket.tokens + MaxRate * Elapsed
<1>1. /\ req.capacity \in 1..MaxCapacity /\ req.refillRate \in 1..MaxRate
      /\ MaxCapacity \in Nat /\ MaxRate \in Nat /\ Unit \in Nat
  OBVIOUS
<1>2. Elapsed \in Nat
  BY DEF Elapsed, TypeOK
<1>3. /\ req.capacity * Unit <= MaxCapacity * Unit
      /\ req.capacity * Unit \in Nat /\ MaxCapacity * Unit \in Nat
  BY <1>1, ProductMonotone, ProductNat
<1>4. /\ Elapsed * req.refillRate \in Nat
      /\ Elapsed * req.refillRate <= Elapsed * MaxRate
      /\ Elapsed * MaxRate = MaxRate * Elapsed
  BY <1>1, <1>2, ProductMonotone, ProductNat
<1>5. bucket.tokens \in Nat /\ bucket.short \in BOOLEAN
  BY <1>3 DEF TypeOK
<1>6. CASE bucket.touched
  <2> DEFINE full == req.capacity * Unit
             gain == Elapsed * req.refillRate
             most == MaxRate * Elapsed
  <2>1. \/ bucket.tokens + gain > full /\ refilled.tokens = full
        \/ /\ ~(bucket.tokens + gain > full) /\ refilled.tokens = bucket.tokens + gain
           /\ refilled.short \in BOOLEAN
    BY <1>2, <1>5, <1>6, RefillCases
  <2>4. bucket.tokens + gain > full => refilled.short \in BOOLEAN
    <3> SUFFICES ASSUME bucket.tokens + gain > full PROVE refilled.short \in BOOLEAN
      OBVIOUS
    <3>1. refilled = [tokens |-> full, short |-> FALSE]
      BY <1>6 DEF Refills
    <3> QED
      BY <3>1, Zenon
  <2>2. full \in Nat /\ gain \in Nat /\ most \in Nat /\ gain <= most
    BY <1>1, <1>2, <1>3, <1>4, ProductNat
  <2> HIDE DEF full, gain, most
  <2>3. refilled.tokens \in 0..full /\ refilled.tokens <= bucket.tokens + most
    BY <1>5, <2>1, <2>2
  <2>5. refilled.short \in BOOLEAN
    BY <2>1, <2>4, Zenon
  <2> QED
    BY <1>3, <2>3, <2>5 DEF full, most
<1>7. CASE ~bucket.touched
  <2>1. refilled = [tokens |-> req.capacity * Unit, short |-> FALSE]
    BY <1>7 DEF Refills
  <2>2. refilled.tokens = req.capacity * Unit /\ refilled.short = FALSE
    BY <2>1
  <2>3. refilled.tokens \in 0..req.capacity * Unit
    BY <1>3, <2>2
  <2> QED
    BY <1>3, <1>7, <2>2, <2>3, Zenon
<1> QED
  BY <1>6, <1>7

\* What an acquire leaves is what was refilled, less the token it granted.
LEMMA AcquireAccounts ==
  ASSUME TypeOK, NEW req \in Requests, Acquire(req)
  PROVE  /\ bucket' \in [touched : {TRUE}, tokens : 0..req.capacity * Unit, short : BOOLEAN]
         /\ config' = req
         /\ granted' \in Nat
         /\ \E refilled \in Refills(bucket, Elapsed, req) :
              bucket'.tokens + granted' * Unit = refilled.tokens + granted * Unit
<1>1. PICK refilled \in Refills(bucket, Elapsed, req) :
        /\ bucket' = AfterAcquire(refilled)
        /\ config' = req
        /\ granted' = IF Enough(refilled) THEN granted + 1 ELSE granted
  BY DEF Acquire
<1>2. /\ refilled.tokens \in 0..req.capacity * Unit /\ refilled.short \in BOOLEAN
      /\ req.capacity * Unit \in Nat
  BY RefillBounded
<1>3. granted \in Nat /\ Unit \in Nat \ {0} /\ granted * Unit \in Nat
      /\ (granted + 1) * Unit = granted * Unit + Unit
  BY ProductNat, ProductSuccessor DEF TypeOK
<1> DEFINE full == req.capacity * Unit
<1>4. full \in Nat /\ refilled.tokens \in 0..full
  BY <1>2
<1> HIDE DEF full
<1>5. CASE Enough(refilled)
  <2>1. refilled.tokens - Unit \in 0..full
    BY <1>3, <1>4, <1>5 DEF Enough
  <2>2. bucket' = [touched |-> TRUE, tokens |-> refilled.tokens - Unit, short |-> refilled.short]
    BY <1>1, <1>5 DEF AfterAcquire, Left
  <2>3. granted' = granted + 1
    BY <1>1, <1>5
  <2>4. bucket'.tokens + granted' * Unit = refilled.tokens + granted * Unit
    BY <1>3, <1>4, <2>2, <2>3
  <2> QED
    BY <1>1, <1>2, <1>3, <2>1, <2>2, <2>3, <2>4 DEF full
<1>6. CASE ~Enough(refilled)
  BY <1>1, <1>2, <1>3, <1>6 DEF AfterAcquire, Left
<1> QED
  BY <1>5, <1>6

-----------------------------------------------------------------------------
(* The inductive invariant.                                                 *)

LEMMA InitInv == Init => Inv
<1> SUFFICES ASSUME Init PROVE Inv
  OBVIOUS
<1>1. MaxCapacity * Unit \in Nat
  BY ProductNat
<1> QED
  BY <1>1 DEF Init, Inv, TypeOK, Fresh, RateBudget, Untouched, NoConfig

LEMMA AcquireInv ==
  ASSUME Inv, NEW req \in Requests, Acquire(req)
  PROVE  Inv'
<1>1. TypeOK
  BY DEF Inv
<1>2. /\ lastRefill' = now /\ now' = now /\ forward' = forward
      /\ now \in Nat /\ forward \in Nat /\ Elapsed' = 0
  BY <1>1 DEF Acquire, TypeOK, Elapsed
<1>3. /\ MaxRate * Elapsed \in Nat /\ MaxRate * forward \in Nat /\ MaxRate * 0 = 0
      /\ granted * Unit \in Nat
  BY <1>1, ProductNat DEF TypeOK, Elapsed
<1>4. PICK refilled \in Refills(bucket, Elapsed, req) :
        bucket'.tokens + granted' * Unit = refilled.tokens + granted * Unit
  BY <1>1, AcquireAccounts
<1>5. TypeOK'
  <2>1. /\ req.capacity \in 1..MaxCapacity /\ req.refillRate \in 1..MaxRate
        /\ MaxCapacity \in Nat /\ MaxRate \in Nat
    OBVIOUS
  <2>2. /\ bucket' \in [touched : {TRUE}, tokens : 0..req.capacity * Unit, short : BOOLEAN]
        /\ config' = req /\ granted' \in Nat
    BY <1>1, AcquireAccounts
  <2> DEFINE full == req.capacity * Unit
             most == MaxCapacity * Unit
  <2>3. full <= most /\ full \in Nat /\ most \in Nat
    BY <1>1, RefillBounded
  <2> HIDE DEF full, most
  <2>4. 0..full \subseteq 0..most
    BY <2>3
  <2>5. bucket' \in [touched : BOOLEAN, tokens : 0..most, short : BOOLEAN] /\ bucket'.tokens <= full
    <3>1. bucket' \in [touched : {TRUE}, tokens : 0..full, short : BOOLEAN]
      BY <2>2 DEF full
    <3>2. bucket' \in [touched : BOOLEAN, tokens : 0..most, short : BOOLEAN]
      BY <2>4, <3>1, Zenon
    <3> QED
      BY <2>3, <3>1, <3>2
  <2>6. config' \in [capacity : 0..MaxCapacity, refillRate : 0..MaxRate]
    BY <2>1, <2>2
  <2> QED
    BY <1>2, <2>2, <2>5, <2>6 DEF TypeOK, full, most
<1>6. RateBudget'
  <2>1. bucket'.tokens + granted' * Unit <= MaxCapacity * Unit + MaxRate * forward
    <3> DEFINE there == refilled.tokens
    <3>1. there \in Nat /\ there <= MaxCapacity * Unit /\ MaxCapacity * Unit \in Nat
      <4> DEFINE full == req.capacity * Unit
                 most == MaxCapacity * Unit
      <4>1. there \in 0..full /\ full <= most /\ full \in Nat /\ most \in Nat
        BY <1>1, RefillBounded
      <4> HIDE DEF there, full, most
      <4>2. there \in Nat /\ there <= most /\ most \in Nat
        BY <4>1
      <4> QED
        BY <4>2 DEF most
    <3>2. bucket'.tokens + granted' * Unit = there + granted * Unit
      BY <1>4
    <3>3. CASE bucket.touched
      <4>1. there <= bucket.tokens + MaxRate * Elapsed
        BY <1>1, <3>3, RefillBounded
      <4>2. bucket.tokens + granted * Unit + MaxRate * Elapsed
              <= MaxCapacity * Unit + MaxRate * forward
        BY <3>3 DEF Inv, RateBudget
      <4>3. bucket.tokens \in Nat
        BY <1>1, <3>1 DEF TypeOK
      <4> HIDE DEF there
      <4> QED
        BY <1>3, <3>1, <3>2, <4>1, <4>2, <4>3
    <3>4. CASE ~bucket.touched
      <4>1. granted * Unit = 0
        BY <3>4 DEF Inv, Fresh
      <4> HIDE DEF there
      <4> QED
        BY <1>3, <3>1, <3>2, <4>1
    <3> QED
      BY <3>3, <3>4
  <2>2. bucket'.tokens + granted' * Unit \in Nat
    <3>1. bucket'.tokens \in Nat /\ granted' \in Nat
      <4>1. /\ bucket'.tokens \in 0..req.capacity * Unit /\ granted' \in Nat
            /\ req.capacity * Unit \in Nat
        BY <1>1, AcquireAccounts, RefillBounded
      <4> QED
        BY <4>1
    <3> QED
      BY <3>1, ProductNat
  <2> QED
    BY <1>2, <1>3, <2>1, <2>2 DEF RateBudget
<1>7. Fresh'
  BY <1>1, AcquireAccounts DEF Fresh
<1> QED
  BY <1>5, <1>6, <1>7 DEF Inv

\* The clock moves: what it may still add never outgrows the time it counts.
LEMMA ClockInv ==
  ASSUME Inv, Tick \/ StepBack
  PROVE  Inv'
<1>1. /\ TypeOK /\ now \in Nat /\ forward \in Nat /\ lastRefill \in Nat
      /\ granted \in Nat /\ MaxRate \in Nat /\ Elapsed \in Nat
  BY DEF Inv, TypeOK, Elapsed
<1>2. UNCHANGED <<bucket, lastRefill, config, granted>>
  BY DEF Tick, StepBack
<1>3. TypeOK' /\ Fresh'
  BY <1>1, <1>2 DEF Inv, TypeOK, Fresh, Tick, StepBack
<1>4. Elapsed' \in Nat /\ forward' \in Nat
  BY <1>1, <1>2 DEF Tick, StepBack, Elapsed
<1> DEFINE due == MaxRate * Elapsed
           duePrime == MaxRate * Elapsed'
           earned == MaxRate * forward
           earnedPrime == MaxRate * forward'
<1>5. due \in Nat /\ duePrime \in Nat /\ earned \in Nat /\ earnedPrime \in Nat
  BY <1>1, <1>4, ProductNat
<1>6. duePrime + earned <= due + earnedPrime
  <2>1. CASE Tick
    <3>1. forward' = forward + 1 /\ Elapsed' <= Elapsed + 1 /\ Elapsed + 1 \in Nat
      BY <1>1, <2>1 DEF Tick, Elapsed
    <3>2. duePrime <= MaxRate * (Elapsed + 1)
      BY <1>1, <1>4, <3>1, ProductMonotone
    <3>3. MaxRate * (Elapsed + 1) = due + MaxRate
      BY <1>1, ProductSuccessor
    <3>4. earnedPrime = earned + MaxRate
      BY <1>1, <3>1, ProductSuccessor
    <3>5. duePrime <= due + MaxRate
      BY <3>2, <3>3
    <3> HIDE DEF due, duePrime, earned, earnedPrime
    <3> QED
      BY <1>1, <1>5, <3>4, <3>5
  <2>2. CASE StepBack
    <3>1. forward' = forward /\ Elapsed' <= Elapsed
      BY <1>1, <2>2 DEF StepBack, Elapsed
    <3>2. duePrime <= due
      BY <1>1, <1>4, <3>1, ProductMonotone
    <3>3. earnedPrime = earned
      BY <3>1
    <3> HIDE DEF due, duePrime, earned, earnedPrime
    <3> QED
      BY <1>5, <3>2, <3>3
  <2> QED
    BY <2>1, <2>2
<1>7. RateBudget'
  <2> DEFINE spent == bucket.tokens + granted * Unit
             full == MaxCapacity * Unit
  <2> SUFFICES ASSUME bucket.touched PROVE spent + duePrime <= full + earnedPrime
    BY <1>2 DEF RateBudget
  <2>1. spent + due <= full + earned
    BY DEF Inv, RateBudget
  <2>2. granted * Unit \in Nat /\ full \in Nat
    BY <1>1, ProductNat
  <2>3. bucket.tokens \in Nat
    BY <1>1, <2>2 DEF TypeOK
  <2>4. spent \in Nat
    BY <2>2, <2>3
  <2> HIDE DEF spent, full, due, duePrime, earned, earnedPrime
  <2> QED
    BY <1>5, <1>6, <2>1, <2>2, <2>4, BudgetShifts
<1> QED
  BY <1>3, <1>7 DEF Inv

LEMMA NextInv == Inv /\ [Next]_vars => Inv'
<1>1. ASSUME Inv, UNCHANGED vars PROVE Inv'
  BY <1>1 DEF vars, Inv, TypeOK, Fresh, RateBudget, Elapsed
<1> QED
  BY <1>1, AcquireInv, ClockInv DEF Next

\* The stored state of a bucket is well typed, its tokens never negative and
\* never above its capacity, and it spends only what RateBudget allows.
THEOREM BudgetKept == Spec => [](TypeOK /\ Fresh /\ RateBudget)
  BY InitInv, NextInv, PTL DEF Spec, Inv

\* No sequence of acquires, limits and clock corrections grants more tokens
\* than one full bucket and what the highest rate refills in the time passed.
THEOREM RateIsBounded == Spec => []RateBound
<1>1. Inv => RateBound
  <2> SUFFICES ASSUME Inv PROVE RateBound
    OBVIOUS
  <2>1. /\ granted * Unit \in Nat /\ MaxCapacity * Unit \in Nat
        /\ MaxRate * Elapsed \in Nat /\ MaxRate * forward \in Nat
    BY ProductNat DEF Inv, TypeOK, Elapsed
  <2>2. CASE bucket.touched
    BY <2>1, <2>2 DEF Inv, TypeOK, RateBudget, RateBound
  <2>3. CASE ~bucket.touched
    <3>1. granted * Unit = 0
      BY <2>3 DEF Inv, Fresh
    <3> QED
      BY <2>1, <3>1 DEF RateBound
  <2> QED
    BY <2>2, <2>3 DEF Inv, TypeOK
<1> QED
  BY <1>1, BudgetKept, PTL DEF Inv
-----------------------------------------------------------------------------
(* What the handlers say about the future.                                  *)

\* While a promise stands, the bucket is as the refused acquire left it: short
\* of a token, and refilled for the last time when the promise was made.
PromiseInv ==
  promise = NoPromise \/
    \E req \in Requests : \E wait \in MsFor(Unit - bucket.tokens, req.refillRate) :
      /\ promise = [given |-> TRUE, req |-> req, at |-> lastRefill + wait]
      /\ bucket.touched /\ ~Enough(bucket)

LEMMA NextPromiseInv ==
  ASSUME TypeOK, PromiseInv, [Next]_vars
  PROVE  PromiseInv'
<1>1. CASE UNCHANGED <<bucket, lastRefill, promise>>
  BY <1>1 DEF PromiseInv, Enough
<1>2. ASSUME NEW req \in Requests, Acquire(req) PROVE PromiseInv'
  <2>1. PICK refilled \in Refills(bucket, Elapsed, req) :
          /\ bucket' = AfterAcquire(refilled)
          /\ lastRefill' = now
          /\ \/ Enough(refilled) /\ promise' = NoPromise
             \/ /\ ~Enough(refilled)
                /\ \E wait \in WaitMs(refilled, req) :
                     promise' = [given |-> TRUE, at |-> now + wait, req |-> req]
    BY <1>2 DEF Acquire
  <2>2. CASE Enough(refilled)
    BY <2>1, <2>2 DEF PromiseInv
  <2>3. CASE ~Enough(refilled)
    <3>1. /\ bucket'.touched /\ bucket'.tokens = refilled.tokens
          /\ bucket'.short = refilled.short
      BY <2>1, <2>3 DEF AfterAcquire, Left
    <3>2. ~Enough(bucket)'
      BY <2>3, <3>1 DEF Enough
    <3>3. PICK wait \in MsFor(Unit - bucket'.tokens, req.refillRate) :
            promise' = [given |-> TRUE, at |-> lastRefill' + wait, req |-> req]
      BY <2>1, <2>3, <3>1 DEF WaitMs
    <3> QED
      BY <3>1, <3>2, <3>3 DEF PromiseInv
  <2> QED
    BY <2>2, <2>3
<1> QED
  BY <1>1, <1>2 DEF Next, Tick, StepBack, vars

\* A promise that stands is right to a millisecond.
LEMMA PromiseTight ==
  ASSUME TypeOK, PromiseInv
  PROVE  WaitMsIsTight
<1> SUFFICES ASSUME promise.given, NEW refilled \in Refills(bucket, Elapsed, promise.req)
             PROVE  /\ now > promise.at => Enough(refilled)
                    /\ now = promise.at => Enough(refilled) \/ WaitMs(refilled, promise.req) = {1}
                    /\ now < promise.at - 1 => ~Enough(refilled)
  BY DEF WaitMsIsTight
<1>0. PICK req \in Requests : \E wait \in MsFor(Unit - bucket.tokens, req.refillRate) :
        /\ promise = [given |-> TRUE, req |-> req, at |-> lastRefill + wait]
        /\ bucket.touched /\ ~Enough(bucket)
  BY DEF PromiseInv, NoPromise
<1>1. PICK wait \in MsFor(Unit - bucket.tokens, req.refillRate) :
        /\ promise = [given |-> TRUE, req |-> req, at |-> lastRefill + wait]
        /\ bucket.touched /\ ~Enough(bucket)
  BY <1>0
<1> DEFINE missing == Unit - bucket.tokens
           full == req.capacity * Unit
           gain == Elapsed * req.refillRate
<1>2. MaxCapacity * Unit \in Nat
  BY ProductNat
<1>3. bucket.tokens \in Nat /\ Elapsed \in Nat /\ now \in Nat /\ lastRefill \in Nat
  BY <1>2 DEF TypeOK, Elapsed
<1>4. /\ req.capacity \in Nat \ {0} /\ req.refillRate \in Nat \ {0}
      /\ missing \in Nat /\ (missing = 0 => bucket.short)
  BY <1>1, <1>3 DEF Enough
<1>5. full \in Nat /\ full >= Unit /\ gain \in Nat
  <2>1. 1 * Unit <= req.capacity * Unit /\ 1 * Unit = Unit
    BY <1>4, ProductMonotone
  <2> QED
    BY <1>3, <1>4, <2>1, ProductNat
<1>6. /\ wait \in Nat \ {0}
      /\ Elapsed >= wait => gain >= missing
      /\ Elapsed + 2 <= wait => gain < missing
      /\ Elapsed > wait => gain > missing
  <2>1. /\ wait \in Nat \ {0}
        /\ \A e \in Nat : /\ e >= wait => e * req.refillRate >= missing
                          /\ e + 2 <= wait => e * req.refillRate < missing
    <3> HIDE DEF missing
    <3> QED
      BY <1>1, <1>4, MsForTight DEF missing
  <2>2. Elapsed > wait => gain > missing
    <3> SUFFICES ASSUME Elapsed > wait PROVE gain > missing
      OBVIOUS
    <3>1. Elapsed - 1 \in Nat /\ Elapsed - 1 >= wait /\ (Elapsed - 1) + 1 = Elapsed
      BY <1>3, <2>1
    <3>2. (Elapsed - 1) * req.refillRate >= missing
      BY <2>1, <3>1
    <3>3. gain = (Elapsed - 1) * req.refillRate + req.refillRate
          /\ (Elapsed - 1) * req.refillRate \in Nat
      BY <1>4, <3>1, ProductSuccessor, ProductNat
    <3> HIDE DEF gain, missing
    <3> QED
      BY <1>4, <3>2, <3>3
  <2> QED
    BY <1>3, <2>1, <2>2
<1>7. promise.req = req /\ promise.at = lastRefill + wait
  BY <1>1
<1>8. \/ bucket.tokens + gain > full /\ refilled.tokens = full /\ ~refilled.short
      \/ /\ ~(bucket.tokens + gain > full) /\ refilled.tokens = bucket.tokens + gain
         /\ Elapsed = 0 => refilled.short = bucket.short
  BY <1>1, <1>3, <1>7, RefillCases
<1>9. bucket.tokens + missing = Unit
  BY <1>3
<1>10. WaitMs(refilled, req) = MsFor(Unit - refilled.tokens, req.refillRate)
  BY DEF WaitMs
<1>11. Elapsed = 0 => gain = 0
  BY <1>4
<1> HIDE DEF missing, full, gain
<1>12. ASSUME now > promise.at PROVE Enough(refilled)
  <2>1. gain > missing
    BY <1>3, <1>6, <1>7, <1>12 DEF Elapsed
  <2> QED
    BY <1>3, <1>4, <1>5, <1>8, <1>9, <2>1 DEF Enough
<1>13. ASSUME now = promise.at, ~Enough(refilled) PROVE WaitMs(refilled, req) = {1}
  <2>1. gain >= missing
    BY <1>3, <1>6, <1>7, <1>13 DEF Elapsed
  <2>2. refilled.tokens = Unit
    BY <1>3, <1>4, <1>5, <1>8, <1>9, <1>13, <2>1 DEF Enough
  <2>3. Unit - refilled.tokens = 0
    BY <2>2
  <2> QED
    BY <1>10, <2>3 DEF MsFor
<1>14. ASSUME now < promise.at - 1 PROVE ~Enough(refilled)
  <2>1. CASE Elapsed = 0
    <3>1. bucket.tokens <= Unit /\ bucket.tokens + gain = bucket.tokens
      BY <1>3, <1>4, <1>9, <1>11, <2>1
    <3>2. refilled.tokens = bucket.tokens /\ refilled.short = bucket.short
      BY <1>3, <1>5, <1>8, <2>1, <3>1
    <3> QED
      BY <1>1, <3>2, Zenon DEF Enough
  <2>2. CASE Elapsed # 0
    <3>1. gain < missing
      BY <1>3, <1>6, <1>7, <1>14, <2>2 DEF Elapsed
    <3> QED
      BY <1>3, <1>4, <1>5, <1>8, <1>9, <3>1 DEF Enough
  <2> QED
    BY <2>1, <2>2
<1> QED
  BY <1>7, <1>12, <1>13, <1>14

\* The countdown of the ops view.  The next whole token is goal; before it is
\* reached nothing is cut to the capacity, and a refill short of a whole token
\* by a hair is past the one before it.
LEMMA CountdownTight ==
  ASSUME TypeOK
  PROVE  CountdownIsTight
<1> SUFFICES ASSUME bucket.touched,
                    NEW live \in Refills(bucket, Elapsed, config), Refilling(live, config),
                    NEW wait \in NextRefillMs(live, config)
             PROVE  /\ \A later \in Refills(bucket, Elapsed + wait + 1, config) :
                         WholeTokens(later) > WholeTokens(live)
                    /\ wait >= 2 =>
                         \A sooner \in Refills(bucket, Elapsed + wait - 2, config) :
                           WholeTokens(sooner) <= WholeTokens(live)
  BY DEF CountdownIsTight
<1> DEFINE rate == config.refillRate
           cap == config.capacity
           full == cap * Unit
           there == live.tokens
           q == there \div Unit
           missing == IF live.short THEN 0 ELSE Unit - (there % Unit)
           goal == Unit * (q + 1)
<1>1. MaxCapacity * Unit \in Nat
  BY ProductNat
<1>2. /\ Elapsed \in Nat /\ bucket.tokens \in Nat
      /\ rate \in Nat \ {0} /\ cap \in Nat \ {0}
  BY <1>1 DEF TypeOK, Elapsed
<1>3. Elapsed * rate \in Nat /\ full \in Nat
  BY <1>2, ProductNat
\* A bucket that refills is not cut to its capacity.
<1>4. there = bucket.tokens + Elapsed * rate /\ there <= full /\ (there < full \/ live.short)
  <2>1. \/ bucket.tokens + Elapsed * rate > full /\ there = full /\ ~live.short
        \/ ~(bucket.tokens + Elapsed * rate > full) /\ there = bucket.tokens + Elapsed * rate
    BY <1>2, RefillCases
  <2>2. there < full \/ live.short
    BY DEF Refilling
  <2> HIDE DEF there, full, rate
  <2> QED
    BY <1>2, <1>3, <2>1, <2>2
<1>5. there \in Nat
  <2> HIDE DEF there
  <2> QED
    BY <1>2, <1>3, <1>4
<1>6. /\ q \in Nat /\ Unit * q <= there /\ there < goal /\ goal \in Nat
      /\ missing \in Nat /\ (~live.short => there + missing = goal)
  <2>1. /\ q \in Nat /\ Unit * q <= there /\ there < Unit * q + Unit
        /\ there % Unit \in 0..(Unit - 1) /\ there = Unit * q + (there % Unit)
    <3> HIDE DEF there
    <3> QED
      BY <1>5, Quotient, Remainder
  <2>2. goal = Unit * q + Unit /\ Unit * q \in Nat
    <3> HIDE DEF q
    <3> QED
      BY <2>1, ProductSuccessor, ProductNat
  <2>3. missing = IF live.short THEN 0 ELSE Unit - (there % Unit)
    OBVIOUS
  <2>4. missing \in Nat /\ (~live.short => missing = Unit - (there % Unit))
    <3> HIDE DEF missing, there
    <3> QED
      BY <2>1, <2>3
  <2> HIDE DEF there, q, goal, missing
  <2> QED
    BY <1>5, <2>1, <2>2, <2>4
<1>7. /\ wait \in Nat \ {0} /\ (wait >= 2 => missing # 0)
      /\ \A e \in Nat : /\ e >= wait => e * rate >= missing
                        /\ e + 2 <= wait => e * rate < missing
  <2>1. wait \in MsFor(missing, rate)
    BY DEF NextRefillMs
  <2> HIDE DEF missing, rate
  <2> QED
    BY <1>2, <1>6, <2>1, MsForTight
\* A bucket that is not full has room for the next whole token.
<1>8. ~live.short => goal <= full /\ q + 1 <= cap
  <2> SUFFICES ASSUME ~live.short PROVE goal <= full /\ q + 1 <= cap
    OBVIOUS
  <2>1. q < cap
    <3> SUFFICES ASSUME cap <= q PROVE FALSE
      BY <1>2, <1>6
    <3>1. full <= Unit * q /\ Unit * q \in Nat
      <4>1. Unit * cap <= Unit * q /\ Unit * cap = full /\ Unit * q \in Nat
        <5> HIDE DEF q, cap
        <5> QED
          BY <1>2, <1>6, ProductMonotone, ProductNat DEF full
      <4> QED
        BY <4>1
    <3> HIDE DEF full, there, q
    <3> QED
      BY <1>3, <1>4, <1>5, <1>6, <3>1
  <2> HIDE DEF q, cap
  <2>2. q + 1 <= cap /\ q + 1 \in Nat
    BY <1>2, <1>6, <2>1
  <2>3. Unit * (q + 1) <= Unit * cap /\ Unit * cap = cap * Unit
    BY <1>2, <2>2, ProductMonotone
  <2> QED
    BY <2>2, <2>3
\* The amount ahead milliseconds from now.
<1>9. ASSUME NEW ahead \in Nat, NEW then \in Refills(bucket, Elapsed + ahead, config)
      PROVE  LET sum == there + ahead * rate
             IN  \/ sum > full /\ then.tokens = full /\ ~then.short
                 \/ /\ ~(sum > full) /\ then.tokens = sum
                    /\ ahead # 0 /\ then.short => sum % Unit = 0
  <2>1. (Elapsed + ahead) * rate = Elapsed * rate + ahead * rate /\ ahead * rate \in Nat
    BY <1>2, ProductNat
  <2>2. bucket.tokens + (Elapsed + ahead) * rate = there + ahead * rate
    <3> HIDE DEF there, rate
    <3> QED
      BY <1>2, <1>3, <1>4, <2>1
  <2>3. Elapsed + ahead \in Nat /\ (ahead # 0 => Elapsed + ahead # 0)
    BY <1>2
  <2> HIDE DEF there
  <2> QED
    BY <2>2, <2>3, RefillCases
<1>10. WholeTokens(live) = IF live.short THEN q - 1 ELSE q
  BY DEF WholeTokens
<1>11. ASSUME NEW later \in Refills(bucket, Elapsed + wait + 1, config)
       PROVE  WholeTokens(later) > WholeTokens(live)
  <2> DEFINE sum == there + (wait + 1) * rate
             whole == sum \div Unit
  <2>1. Elapsed + wait + 1 = Elapsed + (wait + 1) /\ wait + 1 \in Nat /\ wait + 1 # 0
    BY <1>2, <1>7
  <2>2. \/ sum > full /\ later.tokens = full /\ ~later.short
        \/ ~(sum > full) /\ later.tokens = sum /\ (later.short => sum % Unit = 0)
    <3> HIDE DEF there, full
    <3> QED
      BY <1>9, <2>1 DEF there, full
  <2>3. sum \in Nat /\ sum > there + missing
    <3>1. (wait + 1) * rate = wait * rate + rate /\ wait * rate \in Nat /\ wait * rate >= missing
      <4> HIDE DEF rate, missing
      <4> QED
        BY <1>2, <1>7, ProductSuccessor, ProductNat
    <3> HIDE DEF there, rate, missing
    <3> QED
      BY <1>2, <1>5, <1>6, <3>1
  <2>4. full \div Unit = cap
    <3>1. full = Unit * cap /\ Unit * (cap + 1) = Unit * cap + Unit /\ cap + 1 \in Nat
      <4> HIDE DEF cap
      <4> QED
        BY <1>2, ProductSuccessor DEF full
    <3>2. cap <= full \div Unit /\ full \div Unit < cap + 1 /\ full \div Unit \in Nat
      <4>1. Unit * cap <= full /\ full < Unit * (cap + 1)
        <5> HIDE DEF full, cap
        <5> QED
          BY <1>3, <3>1
      <4> HIDE DEF full, cap
      <4> QED
        BY <1>2, <1>3, <3>1, <4>1, QuotientBounds, Quotient
    <3> HIDE DEF cap
    <3> QED
      BY <1>2, <3>2
\* The last whole token of a sum is past q, and past goal if nothing is short.
  <2>5. /\ whole \in Nat /\ q <= whole /\ (sum % Unit = 0 => q + 1 <= whole)
        /\ ~live.short => /\ q + 1 <= whole
                          /\ sum % Unit = 0 => q + 2 <= whole
    <3>1. /\ whole \in Nat /\ Unit * whole <= sum /\ sum < Unit * whole + Unit
          /\ (sum % Unit = 0 => sum = Unit * whole)
          /\ \A k \in Nat : Unit * k <= sum => k <= whole
      <4>1. sum \in Nat
        BY <2>3
      <4> HIDE DEF sum
      <4>2. /\ whole \in Nat /\ Unit * whole <= sum /\ sum < Unit * whole + Unit
            /\ \A k \in Nat : Unit * k <= sum => k <= whole
        BY <4>1, Quotient, QuotientBounds
      <4>3. sum % Unit = 0 => sum = Unit * whole
        BY <4>1, <4>2, Remainder
      <4> QED
        BY <4>2, <4>3
    <3>2. Unit * q <= sum /\ Unit * q < sum /\ Unit * q \in Nat
      <4> HIDE DEF there, q, sum, missing, goal
      <4>1. Unit * q \in Nat
        BY <1>6, ProductNat
      <4> QED
        BY <1>5, <1>6, <2>3, <4>1
    <3>3. ~live.short => Unit * (q + 1) < sum
      <4> HIDE DEF there, q, sum, missing
      <4> QED
        BY <1>5, <1>6, <2>3 DEF goal
    <3> HIDE DEF q, whole, sum
    <3>4. sum % Unit = 0 => q + 1 <= whole
      <4> SUFFICES ASSUME sum = Unit * whole, whole <= q PROVE FALSE
        BY <1>6, <3>1
      <4>1. Unit * whole <= Unit * q
        BY <1>6, <3>1, ProductMonotone
      <4> QED
        BY <2>3, <3>2, <4>1
    <3>5. ~live.short /\ sum % Unit = 0 => q + 2 <= whole
      <4> SUFFICES ASSUME ~live.short, sum = Unit * whole, whole <= q + 1 PROVE FALSE
        BY <1>6, <3>1
      <4>1. Unit * whole <= Unit * (q + 1) /\ Unit * (q + 1) \in Nat
        BY <1>6, <3>1, ProductMonotone, ProductNat
      <4> QED
        BY <2>3, <3>3, <4>1
    <3>6. q + 1 \in Nat /\ (~live.short => q + 1 <= whole)
      BY <1>6, <2>3, <3>1, <3>3, ProductNat
    <3> QED
      BY <1>6, <3>1, <3>2, <3>4, <3>5, <3>6
  <2>6. q <= cap
    <3>1. Unit * q <= full /\ full = Unit * cap /\ Unit * q \in Nat
      <4>1. full = Unit * cap /\ Unit * q \in Nat
        BY <1>2, <1>6, ProductNat
      <4> HIDE DEF q, there, full
      <4> QED
        BY <1>3, <1>4, <1>5, <1>6, <4>1
    <3> HIDE DEF q, cap
    <3> SUFFICES ASSUME cap < q PROVE FALSE
      BY <1>2, <1>6
    <3>2. Unit * (cap + 1) <= Unit * q /\ Unit * (cap + 1) = Unit * cap + Unit /\ Unit * cap \in Nat
      BY <1>2, <1>6, ProductMonotone, ProductSuccessor, ProductNat
    <3> QED
      BY <3>1, <3>2
  <2>7. CASE sum > full /\ later.tokens = full /\ ~later.short
    <3>1. WholeTokens(later) = cap
      BY <2>4, <2>7 DEF WholeTokens
    <3> HIDE DEF q, cap
    <3> QED
      BY <1>2, <1>6, <1>8, <1>10, <2>6, <3>1
  <2>8. CASE ~(sum > full) /\ later.tokens = sum /\ (later.short => sum % Unit = 0)
    <3>1. WholeTokens(later) = IF later.short THEN whole - 1 ELSE whole
      BY <2>8 DEF WholeTokens
    <3> HIDE DEF q, whole, sum
    <3> QED
      BY <1>6, <1>10, <2>5, <2>8, <3>1
  <2> QED
    BY <2>2, <2>7, <2>8
<1>12. ASSUME wait >= 2, NEW sooner \in Refills(bucket, Elapsed + wait - 2, config)
       PROVE  WholeTokens(sooner) <= WholeTokens(live)
  <2> DEFINE sum == there + (wait - 2) * rate
  <2>1. /\ Elapsed + wait - 2 = Elapsed + (wait - 2) /\ wait - 2 \in Nat
        /\ (wait - 2) + 2 <= wait
    BY <1>2, <1>7, <1>12
  <2>2. sum > full \/ sooner.tokens = sum
    <3> HIDE DEF there, full
    <3> QED
      BY <1>9, <2>1 DEF there, full
  <2>3. ~live.short
    BY <1>7, <1>12
  <2>4. sum \in Nat /\ sum < goal
    <3>1. (wait - 2) * rate < missing /\ (wait - 2) * rate \in Nat
      <4> HIDE DEF rate, missing
      <4> QED
        BY <1>2, <1>7, <2>1, ProductNat
    <3> HIDE DEF there, rate, missing, goal
    <3> QED
      BY <1>5, <1>6, <2>3, <3>1
  <2>5. ~(sum > full)
    <3> HIDE DEF sum, full, goal
    <3> QED
      BY <1>3, <1>6, <1>8, <2>3, <2>4
  <2>6. sum \div Unit \in Nat /\ sum \div Unit < q + 1
    <3> HIDE DEF sum, q
    <3>1. q + 1 \in Nat
      BY <1>6
    <3> QED
      BY <2>4, <3>1, QuotientBounds, Quotient DEF goal
  <2>7. WholeTokens(sooner) <= sum \div Unit
    <3>1. WholeTokens(sooner) = IF sooner.short THEN sum \div Unit - 1 ELSE sum \div Unit
      BY <2>2, <2>5 DEF WholeTokens
    <3> HIDE DEF sum
    <3> QED
      BY <2>6, <3>1
  <2>8. WholeTokens(sooner) \in Int
    <3>1. WholeTokens(sooner) = IF sooner.short THEN sum \div Unit - 1 ELSE sum \div Unit
      BY <2>2, <2>5 DEF WholeTokens
    <3> HIDE DEF sum
    <3> QED
      BY <2>6, <3>1
  <2> HIDE DEF sum, q
  <2> QED
    BY <1>6, <1>10, <2>3, <2>6, <2>7, <2>8
<1> QED
  BY <1>11, <1>12

\* What the handlers say about the future is right to a millisecond for every
\* limit, every rounding and every history: the delay a refused call sleeps
\* for, and the countdown the ops view shows.
THEOREM WaitsTight == Spec => []WaitsAreTight
<1>1. Init => PromiseInv
  BY DEF Init, PromiseInv
<1>2. TypeOK /\ PromiseInv /\ [Next]_vars => PromiseInv'
  BY NextPromiseInv
<1>3. TypeOK /\ PromiseInv => WaitsAreTight
  BY PromiseTight, CountdownTight DEF WaitsAreTight
<1> QED
  BY <1>1, <1>2, <1>3, BudgetKept, PTL DEF Spec
=============================================================================
