--------------------------- MODULE RateLimitProofs ---------------------------
(***************************************************************************)
(* A call that meets no other call in its three buckets, and is never      *)
(* refused a token for want of a hair, never uses up the eight checks of   *)
(* runMiddlewareChain, whatever the limits are.                            *)
(*                                                                         *)
(* A refused check keeps the tokens of the buckets before the one that     *)
(* refused, and the next check takes them again, so a bucket may refuse a  *)
(* call more than once.  But it refuses again only after it has granted,   *)
(* and then a later bucket has refused, which will not refuse again before *)
(* it is reached.  The buckets that hold a token for the call are thus the *)
(* digits of a binary counter that counts the refusals, and it has three:  *)
(* at most seven refusals.                                                 *)
(***************************************************************************)
EXTENDS RateLimit, TLAPS

\* The amount meant covers a token, whether or not rounding withholds a hair.
Covers(bucket, elapsed, req) ==
  ~bucket.touched \/ bucket.tokens + elapsed * req.refillRate >= Unit

\* Bucket n of the call of c was passed by this check, or will cover a token
\* when the call wakes.
Held(c, n) ==
  \/ n < call[c].next
  \/ Covers(buckets[Order(c)[n]], age[Order(c)[n]] + sleeping[c], Req(c, n))

Counter(c) ==
  (IF Held(c, 1) THEN 1 ELSE 0) + (IF Held(c, 2) THEN 2 ELSE 0) + (IF Held(c, 3) THEN 4 ELSE 0)

CallInv ==
  \A c \in Callers :
    /\ call[c].pc \in {"check", "sleep"} => call[c].perMinute # 0
    /\ call[c].pc = "check" => call[c].checks < MaxChecks
    /\ call[c].pc = "sleep" => call[c].next = 1
    /\ call[c].pc # "sleep" => sleeping[c] = 0

RefusalsCounted ==
  \A c \in Callers \ hindered :
    /\ call[c].pc \in {"check", "sleep"} => call[c].checks <= Counter(c)
    /\ call[c].pc = "dispatch" => c \in passed \/ MaxChecks <= 7

IInv == TypeOK /\ CallInv /\ RefusalsCounted

USE UnitAssumption, ToolsAssumption, LimitsAssumption

Calls == [pc : {"idle", "check", "sleep", "dispatch"},
          perMinute : 0..MaxPerMinute, next : 1..3, checks : 0..MaxChecks]
StoredBuckets == [touched : BOOLEAN, tokens : 0..MaxCapacity * Unit, short : BOOLEAN]

-----------------------------------------------------------------------------
(* Arithmetic.                                                              *)

\* A product of naturals is a natural.
LEMMA ProductNat == ASSUME NEW x \in Nat, NEW y \in Nat PROVE x * y \in Nat
  OBVIOUS

\* Products grow with their factors.
LEMMA ProductMonotone ==
  ASSUME NEW x \in Nat, NEW y \in Nat, NEW z \in Nat, x <= y
  PROVE  x * z <= y * z /\ z * x <= z * y
  OBVIOUS

\* One more of what is multiplied.
LEMMA ProductSuccessor ==
  ASSUME NEW x \in Nat, NEW y \in Nat
  PROVE  (x + 1) * y = x * y + y /\ y * (x + 1) = y * x + y
  OBVIOUS

\* The quotient of an integer division.
LEMMA Quotient ==
  ASSUME NEW a \in Nat, NEW b \in Nat \ {0}
  PROVE  a \div b \in Nat /\ b * (a \div b) <= a /\ a < b * (a \div b) + b
  OBVIOUS

\* The division that rounds up is the least number of steps of y that reach x.
LEMMA CeilDivLeast ==
  ASSUME NEW x \in Nat \ {0}, NEW y \in Nat \ {0}
  PROVE  /\ CeilDiv(x, y) \in Nat \ {0}
         /\ \A e \in Nat : e >= CeilDiv(x, y) <=> e * y >= x
<1> DEFINE z == (x + y - 1) \div y
<1>1. z \in Nat /\ y * z <= x + y - 1 /\ x + y - 1 < y * z + y
  BY Quotient
<1>2. CeilDiv(x, y) = z
  BY DEF CeilDiv
<1> HIDE DEF z
<1>3. z # 0
  BY <1>1
<1>4. ASSUME NEW e \in Nat PROVE e >= z <=> e * y >= x
  <2>1. CASE e >= z
    <3>1. e * y >= y * z
      BY <1>1, <2>1
    <3> QED
      BY <1>1, <2>1, <3>1
  <2>2. CASE e < z
    <3>1. (e + 1) * y <= y * z /\ (e + 1) * y = e * y + y
      BY <1>1, <2>2
    <3> QED
      BY <1>1, <2>2, <3>1
  <2> QED
    BY <1>1, <2>1, <2>2
<1> QED
  BY <1>1, <1>2, <1>3, <1>4

\* The division with remainder.
LEMMA Remainder ==
  ASSUME NEW a \in Nat, NEW b \in Nat \ {0}
  PROVE  a % b \in 0..(b - 1) /\ a = b * (a \div b) + (a % b)
  OBVIOUS

\* The milliseconds told for an amount refill it, and two less do not.
LEMMA MsForTight ==
  ASSUME NEW x \in Nat, NEW y \in Nat \ {0}, NEW w \in MsFor(x, y)
  PROVE  /\ w \in Nat \ {0}
         /\ x = 0 => w = 1
         /\ \A e \in Nat : /\ e >= w => e * y >= x
                           /\ e + 2 <= w => e * y < x
<1>1. CASE x = 0
  <2>1. w = 1
    BY <1>1 DEF MsFor
  <2> QED
    BY <1>1, <2>1, ProductNat
<1>2. CASE x # 0 /\ x % y = 0
  <2> DEFINE q == x \div y
  <2>1. q \in Nat /\ x = y * q /\ w \in {q, q + 1}
    <3>1. q \in Nat
      BY Quotient
    <3>2. x = y * q + (x % y)
      BY Remainder
    <3>3. w \in {q, q + 1}
      BY <1>2 DEF MsFor
    <3> HIDE DEF q
    <3>4. x = y * q
      BY <1>2, <3>1, <3>2, ProductNat
    <3> QED
      BY <3>1, <3>3, <3>4
  <2> HIDE DEF q
  <2>2. q # 0
    BY <1>2, <2>1
  <2>3. ASSUME NEW e \in Nat PROVE /\ e >= q => e * y >= x
                                   /\ e < q => e * y < x
    <3>1. e >= q => q * y <= e * y
      BY <2>1, ProductMonotone
    <3>2. e < q => (e + 1) * y <= q * y
      BY <2>1, ProductMonotone
    <3>3. (e + 1) * y = e * y + y /\ e * y \in Nat /\ q * y = x
      BY <2>1, ProductSuccessor, ProductNat
    <3> QED
      BY <3>1, <3>2, <3>3
  <2> QED
    BY <1>2, <2>1, <2>2, <2>3
<1>3. CASE x # 0 /\ x % y # 0
  <2>1. w = CeilDiv(x, y)
    BY <1>3 DEF MsFor
  <2>2. w \in Nat \ {0} /\ \A e \in Nat : e >= w <=> e * y >= x
    BY <1>3, <2>1, CeilDivLeast
  <2>3. ASSUME NEW e \in Nat, e + 2 <= w PROVE e * y < x
    BY <2>2, <2>3, ProductNat
  <2> QED
    BY <1>3, <2>2, <2>3
<1> QED
  BY <1>1, <1>2, <1>3

-----------------------------------------------------------------------------
(* The handlers, for one request of a limit of at least one.                *)

\* What a bucket may store, and what a caller may ask of it.
Stored(bucket) == bucket.touched \in BOOLEAN /\ bucket.tokens \in Nat /\ bucket.short \in BOOLEAN
Asked(req) == req.capacity \in Nat \ {0} /\ req.refillRate \in Nat \ {0}

\* A full bucket holds at least a token.
LEMMA FullHoldsToken ==
  ASSUME NEW req, Asked(req)
  PROVE  req.capacity * Unit \in Nat /\ Unit <= req.capacity * Unit
<1>1. 1 * Unit <= req.capacity * Unit /\ 1 * Unit = Unit
  BY ProductMonotone DEF Asked
<1> QED
  BY <1>1, ProductNat DEF Asked

\* A refill never leaves more than the capacity of the request, and it leaves
\* a token, or a hair less, just when the bucket covers one.
LEMMA RefillRange ==
  ASSUME NEW bucket, Stored(bucket), NEW req, Asked(req), NEW elapsed \in Nat,
         NEW refilled \in Refills(bucket, elapsed, req)
  PROVE  /\ refilled.tokens \in 0..req.capacity * Unit /\ refilled.short \in BOOLEAN
         /\ refilled.tokens >= Unit <=> Covers(bucket, elapsed, req)
<1> DEFINE full == req.capacity * Unit
           sum == bucket.tokens + elapsed * req.refillRate
           rounding == IF elapsed = 0 THEN {bucket.short}
                       ELSE IF sum % Unit = 0 THEN BOOLEAN ELSE {FALSE}
<1>1. full \in Nat /\ Unit <= full /\ sum \in Nat
  <2>1. elapsed * req.refillRate \in Nat
    BY ProductNat DEF Asked
  <2>2. sum \in Nat
    BY <2>1 DEF Stored
  <2> QED
    BY <2>2, FullHoldsToken
<1>2. refilled \in IF ~bucket.touched \/ sum > full THEN {[tokens |-> full, short |-> FALSE]}
                  ELSE {[tokens |-> sum, short |-> hair] : hair \in rounding}
  BY DEF Refills
<1>3. Covers(bucket, elapsed, req) <=> ~bucket.touched \/ sum >= Unit
  BY DEF Covers
<1>4. rounding \subseteq BOOLEAN
  <2> HIDE DEF sum
  <2> QED
    BY Zenon DEF Stored
<1> HIDE DEF full, sum, rounding
<1>5. CASE ~bucket.touched \/ sum > full
  <2>1. refilled = [tokens |-> full, short |-> FALSE]
    BY <1>2, <1>5
  <2>2. refilled.tokens = full /\ refilled.short = FALSE
    BY <2>1
  <2>3. refilled.tokens \in 0..full /\ (refilled.tokens >= Unit <=> ~bucket.touched \/ sum >= Unit)
    BY <1>1, <1>5, <2>2
  <2> QED
    BY <1>3, <2>2, <2>3, Zenon DEF full
<1>6. CASE bucket.touched /\ ~(sum > full)
  <2>1. PICK hair \in rounding : refilled = [tokens |-> sum, short |-> hair]
    BY <1>2, <1>6
  <2>2. refilled.tokens = sum /\ refilled.short = hair
    BY <2>1
  <2>3. refilled.tokens \in 0..full /\ (refilled.tokens >= Unit <=> ~bucket.touched \/ sum >= Unit)
    BY <1>1, <1>6, <2>2
  <2>4. hair \in BOOLEAN
    BY <1>4, <2>1, Zenon
  <2> QED
    BY <1>3, <2>2, <2>3, <2>4, Zenon DEF full
<1>7. bucket.touched \in BOOLEAN
  BY DEF Stored
<1> QED
  BY <1>5, <1>6, <1>7

\* What an acquire stores.
LEMMA AcquireStores ==
  ASSUME NEW bucket, Stored(bucket), NEW req, Asked(req), NEW elapsed \in Nat,
         NEW refilled \in Refills(bucket, elapsed, req)
  PROVE  AfterAcquire(refilled) \in [touched : {TRUE}, tokens : 0..req.capacity * Unit, short : BOOLEAN]
<1> DEFINE full == req.capacity * Unit
<1>1. full \in Nat /\ refilled.tokens \in 0..full /\ refilled.short \in BOOLEAN
  BY FullHoldsToken, RefillRange
<1> HIDE DEF full
<1>2. Left(refilled) \in 0..full
  <2>1. Enough(refilled) => refilled.tokens >= Unit
    BY <1>1 DEF Enough
  <2> QED
    BY <1>1, <2>1 DEF Left
<1>3. AfterAcquire(refilled) = [touched |-> TRUE, tokens |-> Left(refilled), short |-> refilled.short]
  BY DEF AfterAcquire
<1> QED
  BY <1>1, <1>2, <1>3 DEF full

\* A bucket nobody takes from keeps the token it has.
LEMMA TokenStays ==
  ASSUME NEW bucket, Stored(bucket), NEW req, Asked(req),
         NEW elapsed \in Nat, NEW later \in Nat, elapsed <= later,
         Covers(bucket, elapsed, req)
  PROVE  Covers(bucket, later, req)
<1> DEFINE gain == elapsed * req.refillRate
           more == later * req.refillRate
<1>1. gain \in Nat /\ more \in Nat /\ gain <= more
  BY ProductNat, ProductMonotone DEF Asked
<1>2. ~bucket.touched \/ bucket.tokens + gain >= Unit
  BY DEF Covers
<1> HIDE DEF gain, more
<1>3. ~bucket.touched \/ bucket.tokens + more >= Unit
  BY <1>1, <1>2 DEF Stored
<1> QED
  BY <1>3 DEF Covers, more

\* A minute refills a token at any rate.
LEMMA MinuteRefills ==
  ASSUME NEW bucket, Stored(bucket), NEW req, Asked(req),
         NEW elapsed \in Nat, Unit <= elapsed
  PROVE  Covers(bucket, elapsed, req)
<1> DEFINE gain == elapsed * req.refillRate
<1>1. elapsed * 1 <= gain /\ elapsed * 1 = elapsed /\ gain \in Nat
  BY ProductMonotone, ProductNat DEF Asked
<1> HIDE DEF gain
<1>2. bucket.tokens + gain >= Unit
  BY <1>1 DEF Stored
<1> QED
  BY <1>2 DEF Covers, gain

\* The wait of a refused acquire is at most a minute and a millisecond, and
\* after it the bucket covers the token, if nobody took it.
LEMMA WaitSuffices ==
  ASSUME NEW bucket, Stored(bucket), NEW req, Asked(req), NEW elapsed \in Nat,
         NEW refilled \in Refills(bucket, elapsed, req), ~Enough(refilled),
         NEW wait \in WaitMs(refilled, req)
  PROVE  wait \in 1..(Unit + 1) /\ Covers(AfterAcquire(refilled), wait, req)
<1> DEFINE missing == Unit - refilled.tokens
           rate == req.refillRate
           gain == wait * rate
<1>1. refilled.tokens \in Nat /\ refilled.tokens <= Unit /\ missing \in Nat
  <2>1. refilled.tokens \in 0..req.capacity * Unit /\ req.capacity * Unit \in Nat
    BY RefillRange, FullHoldsToken
  <2>2. ~(refilled.tokens > Unit)
    BY DEF Enough
  <2> QED
    BY <2>1, <2>2
<1>2. rate \in Nat \ {0}
  BY DEF Asked
<1>3. /\ wait \in Nat \ {0}
      /\ \A e \in Nat : /\ e >= wait => e * rate >= missing
                        /\ e + 2 <= wait => e * rate < missing
  <2>1. wait \in MsFor(missing, rate)
    BY DEF WaitMs
  <2> HIDE DEF missing, rate
  <2> QED
    BY <1>1, <1>2, <2>1, MsForTight
<1>4. gain \in Nat /\ gain >= missing
  <2> HIDE DEF missing, rate
  <2> QED
    BY <1>2, <1>3, ProductNat
<1>5. wait <= Unit + 1
  <2> SUFFICES ASSUME Unit + 2 <= wait PROVE FALSE
    BY <1>3
  <2>1. Unit * rate < missing
    <3> HIDE DEF missing, rate
    <3> QED
      BY <1>3
  <2>2. Unit * 1 <= Unit * rate /\ Unit * 1 = Unit /\ Unit * rate \in Nat
    <3> HIDE DEF rate
    <3> QED
      BY <1>2, ProductMonotone, ProductNat
  <2> HIDE DEF rate
  <2> QED
    BY <1>1, <2>1, <2>2
<1>6. AfterAcquire(refilled).tokens = refilled.tokens
  BY DEF AfterAcquire, Left
<1>7. refilled.tokens + gain >= Unit
  <2>1. refilled.tokens + missing = Unit
    BY <1>1
  <2> HIDE DEF gain, missing
  <2> QED
    BY <1>1, <1>4, <2>1
<1>8. Covers(AfterAcquire(refilled), wait, req)
  <2>1. AfterAcquire(refilled).tokens + wait * req.refillRate >= Unit
    BY <1>6, <1>7
  <2> QED
    BY <2>1 DEF Covers
<1> QED
  BY <1>3, <1>5, <1>8

-----------------------------------------------------------------------------
(* The buckets of a call.                                                   *)

\* No limit is above the largest.
LEMMA LimitsBounded ==
  /\ MaxCapacity \in Nat
  /\ GlobalLimit <= MaxCapacity /\ TenantLimit <= MaxCapacity /\ MaxPerMinute <= MaxCapacity
  BY DEF MaxCapacity, MaxOf

\* The three buckets of a call are different.
LEMMA BucketsOfCall ==
  ASSUME NEW c \in Callers, NEW n \in 1..3
  PROVE  /\ Order(c)[n] \in Buckets
         /\ \A m \in 1..3 : m # n => Order(c)[m] # Order(c)[n]
         /\ Order(c)[n] \in Range(Order(c))
<1>1. ToolOf[c] \in Tools
  OBVIOUS
<1>2. /\ Order(c)[1] = <<"global", ToolOf[c]>>
      /\ Order(c)[2] = <<"tenant", "demo">>
      /\ Order(c)[3] = <<"tenant_tool", ToolOf[c]>>
      /\ DOMAIN Order(c) = 1..3
  BY DEF Order
<1>3. n = 1 \/ n = 2 \/ n = 3
  OBVIOUS
<1>4. Order(c)[n] \in Buckets
  BY <1>1, <1>2, <1>3 DEF Buckets
<1>5. ASSUME NEW m \in 1..3, m # n PROVE Order(c)[m] # Order(c)[n]
  <2>1. m = 1 \/ m = 2 \/ m = 3
    OBVIOUS
  <2> QED
    BY <1>2, <1>3, <1>5, <2>1
<1>6. Order(c)[n] \in Range(Order(c))
  BY <1>2 DEF Range
<1> QED
  BY <1>4, <1>5, <1>6

\* What a call asks of them, once it has looked its registration up.
LEMMA AsksOfCall ==
  ASSUME TypeOK, CallInv, NEW c \in Callers, call[c].pc \in {"check", "sleep"}, NEW n \in 1..3
  PROVE  Asked(Req(c, n)) /\ Req(c, n).capacity \in 1..MaxCapacity
<1>1. call[c].perMinute \in 1..MaxPerMinute
  BY DEF TypeOK, CallInv
<1>2. n = 1 \/ n = 2 \/ n = 3
  OBVIOUS
<1>3. Limit(c, n) \in 1..MaxCapacity
  BY <1>1, <1>2, LimitsBounded DEF Limit
<1>4. Req(c, n).capacity = Limit(c, n) /\ Req(c, n).refillRate = Limit(c, n)
  BY DEF Req
<1> QED
  BY <1>3, <1>4, LimitsBounded DEF Asked

\* What is stored about them.
LEMMA StoredOfCall ==
  ASSUME TypeOK, NEW k \in Buckets
  PROVE  Stored(buckets[k]) /\ age[k] \in 0..(Unit + 1)
<1>1. MaxCapacity * Unit \in Nat
  BY LimitsBounded, ProductNat
<1> QED
  BY <1>1 DEF TypeOK, Stored

-----------------------------------------------------------------------------
(* An acquire.                                                              *)

\* What the check asks of the bucket it is at, and what it finds there.
LEMMA AcquireFinds ==
  ASSUME TypeOK, CallInv, NEW c \in Callers, Acquire(c),
         NEW n, n = call[c].next, NEW k, k = Order(c)[n], NEW req, req = Req(c, n)
  PROVE  /\ call[c].pc = "check" /\ n \in 1..3 /\ k \in Buckets
         /\ Asked(req) /\ req.capacity \in 1..MaxCapacity
         /\ Stored(buckets[k]) /\ age[k] \in Nat /\ sleeping[c] = 0
         /\ age' = [age EXCEPT ![k] = 0] /\ perMinute' = perMinute
<1>1. call[c].pc = "check" /\ n \in 1..3 /\ sleeping[c] = 0
  BY DEF Acquire, TypeOK, CallInv
<1>2. k \in Buckets
  BY <1>1, BucketsOfCall
<1>3. Stored(buckets[k]) /\ age[k] \in 0..(Unit + 1)
  BY <1>2, StoredOfCall
<1>4. Asked(req) /\ req.capacity \in 1..MaxCapacity
  BY <1>1, AsksOfCall
<1> QED
  BY <1>1, <1>2, <1>3, <1>4 DEF Acquire

\* What becomes of the call, given what the bucket was refilled to.
Sleeps(c, req, refilled) ==
  /\ ~Enough(refilled)
  /\ call' = [call EXCEPT ![c] = [pc |-> "sleep", perMinute |-> call[c].perMinute,
                                  next |-> 1, checks |-> call[c].checks + 1]]
  /\ \E wait \in 1..(Unit + 1) :
       sleeping' = [sleeping EXCEPT ![c] = wait] /\ Covers(AfterAcquire(refilled), wait, req)
  /\ passed' = passed

GoesOn(c, n, refilled) ==
  /\ Enough(refilled) /\ n < 3
  /\ call' = [call EXCEPT ![c] = [pc |-> "check", perMinute |-> call[c].perMinute,
                                  next |-> n + 1, checks |-> call[c].checks]]
  /\ sleeping' = sleeping /\ passed' = passed

Passes(c, n, refilled) ==
  /\ Enough(refilled) /\ n = 3
  /\ call' = [call EXCEPT ![c] = LoopLeft]
  /\ passed' = passed \cup {c}
  /\ sleeping' = sleeping

\* It sleeps, goes on to the next bucket, or passes.
LEMMA AcquireMoves ==
  ASSUME TypeOK, CallInv, NEW c \in Callers, Acquire(c),
         NEW n, n = call[c].next, NEW k, k = Order(c)[n], NEW req, req = Req(c, n)
  PROVE  /\ call[c].checks \in 0..(MaxChecks - 1)
         /\ \E refilled \in Refills(buckets[k], age[k], req) :
              /\ buckets' = [buckets EXCEPT ![k] = AfterAcquire(refilled)]
              /\ hindered' = hindered \cup Hindered(c, k, refilled)
              /\ Sleeps(c, req, refilled) \/ GoesOn(c, n, refilled) \/ Passes(c, n, refilled)
<1>1. /\ call[c].pc = "check" /\ n \in 1..3 /\ Asked(req)
      /\ Stored(buckets[k]) /\ age[k] \in Nat
  BY AcquireFinds
<1>2. /\ call \in [Callers -> Calls]
      /\ call[c] = [pc |-> "check", perMinute |-> call[c].perMinute,
                    next |-> n, checks |-> call[c].checks]
  BY <1>1 DEF TypeOK, Calls
<1>3. call[c].checks \in 0..(MaxChecks - 1)
  BY <1>1, <1>2 DEF Calls, CallInv
<1>4. PICK refilled \in Refills(buckets[k], age[k], req) :
        /\ buckets' = [buckets EXCEPT ![k] = AfterAcquire(refilled)]
        /\ hindered' = hindered \cup Hindered(c, k, refilled)
        /\ IF Enough(refilled) THEN Granted(c) ELSE Refused(c, refilled)
  BY DEF Acquire
<1>5. CASE ~Enough(refilled)
  <2>1. PICK wait \in WaitMs(refilled, req) : sleeping' = [sleeping EXCEPT ![c] = wait]
    BY <1>4, <1>5 DEF Refused
  <2>2. wait \in 1..(Unit + 1) /\ Covers(AfterAcquire(refilled), wait, req)
    BY <1>1, <1>5, WaitSuffices
  <2>3. call' = [call EXCEPT ![c] = [pc |-> "sleep", perMinute |-> call[c].perMinute,
                                     next |-> 1, checks |-> call[c].checks + 1]]
    BY <1>4, <1>5 DEF Refused
  <2> QED
    BY <1>3, <1>4, <1>5, <2>1, <2>2, <2>3 DEF Refused, Sleeps
<1>6. CASE Enough(refilled) /\ n < 3
  <2>1. call' = [call EXCEPT ![c].next = @ + 1] /\ UNCHANGED <<sleeping, passed>>
    BY <1>4, <1>6 DEF Granted
  <2>2. call' = [call EXCEPT ![c] = [pc |-> "check", perMinute |-> call[c].perMinute,
                                     next |-> n + 1, checks |-> call[c].checks]]
    <3>1. call' = [call EXCEPT ![c] = [call[c] EXCEPT !.next = n + 1]]
      BY <2>1
    <3>2. [call[c] EXCEPT !.next = n + 1]
            = [pc |-> "check", perMinute |-> call[c].perMinute,
               next |-> n + 1, checks |-> call[c].checks]
      BY <1>2 DEF Calls
    <3> QED
      BY <3>1, <3>2
  <2> QED
    BY <1>3, <1>4, <1>6, <2>1, <2>2 DEF GoesOn
<1>7. CASE Enough(refilled) /\ ~(n < 3)
  <2>1. n = 3
    BY <1>1, <1>7
  <2> QED
    BY <1>3, <1>4, <1>7, <2>1 DEF Granted, Passes
<1> QED
  BY <1>5, <1>6, <1>7

LEMMA AcquireTypes ==
  ASSUME TypeOK, CallInv, NEW c \in Callers, Acquire(c)
  PROVE  TypeOK' /\ CallInv'
<1> DEFINE n == call[c].next
           k == Order(c)[n]
           req == Req(c, n)
<1>1. /\ n \in 1..3 /\ k \in Buckets /\ call[c].pc = "check"
      /\ Asked(req) /\ req.capacity \in 1..MaxCapacity
      /\ Stored(buckets[k]) /\ age[k] \in Nat /\ sleeping[c] = 0
      /\ age' = [age EXCEPT ![k] = 0] /\ perMinute' = perMinute
  BY AcquireFinds
<1>2. call[c].checks \in 0..(MaxChecks - 1)
  BY AcquireMoves
<1>3. PICK refilled \in Refills(buckets[k], age[k], req) :
        /\ buckets' = [buckets EXCEPT ![k] = AfterAcquire(refilled)]
        /\ hindered' = hindered \cup Hindered(c, k, refilled)
        /\ Sleeps(c, req, refilled) \/ GoesOn(c, n, refilled) \/ Passes(c, n, refilled)
  BY AcquireMoves
<1>4. buckets' \in [Buckets -> StoredBuckets]
  <2>1. AfterAcquire(refilled) \in [touched : {TRUE}, tokens : 0..req.capacity * Unit, short : BOOLEAN]
    <3> HIDE DEF k, req
    <3> QED
      BY <1>1, AcquireStores
  <2> DEFINE full == req.capacity * Unit
             most == MaxCapacity * Unit
  <2>2. full \in Nat /\ most \in Nat /\ full <= most
    <3>1. req.capacity \in Nat /\ MaxCapacity \in Nat /\ req.capacity <= MaxCapacity /\ Unit \in Nat
      BY <1>1, LimitsBounded
    <3> HIDE DEF req
    <3> QED
      BY <3>1, ProductNat, ProductMonotone
  <2>3. AfterAcquire(refilled) \in StoredBuckets
    <3> HIDE DEF full, most
    <3>1. 0..full \subseteq 0..most
      BY <2>2
    <3>2. AfterAcquire(refilled) \in [touched : {TRUE}, tokens : 0..full, short : BOOLEAN]
      BY <2>1 DEF full
    <3>3. AfterAcquire(refilled) \in [touched : BOOLEAN, tokens : 0..most, short : BOOLEAN]
      BY <3>1, <3>2, Zenon
    <3> QED
      BY <3>3 DEF StoredBuckets, most
  <2>4. buckets \in [Buckets -> StoredBuckets]
    BY DEF TypeOK, StoredBuckets
  <2> HIDE DEF k
  <2> QED
    BY <1>3, <2>3, <2>4
<1>5. age' \in [Buckets -> 0..(Unit + 1)]
  BY <1>1 DEF TypeOK
<1>6. hindered' \in SUBSET Callers /\ perMinute' \in [Tools -> 1..MaxPerMinute]
  BY <1>1, <1>3 DEF Hindered, TypeOK
<1>7. /\ call \in [Callers -> Calls] /\ sleeping \in [Callers -> 0..(Unit + 1)]
      /\ passed \in SUBSET Callers
  BY DEF TypeOK, Calls
<1>8. /\ call[c].perMinute \in 1..MaxPerMinute
      /\ \A d \in Callers :
           /\ call[d].pc \in {"check", "sleep"} => call[d].perMinute # 0
           /\ call[d].pc = "check" => call[d].checks < MaxChecks
           /\ call[d].pc = "sleep" => call[d].next = 1
           /\ call[d].pc # "sleep" => sleeping[d] = 0
  BY <1>1, <1>7 DEF Calls, CallInv
<1>9. /\ call' \in [Callers -> Calls] /\ sleeping' \in [Callers -> 0..(Unit + 1)]
      /\ passed' \in SUBSET Callers /\ CallInv'
  <2>1. CASE Sleeps(c, req, refilled)
    <3>1. PICK wait \in 1..(Unit + 1) : sleeping' = [sleeping EXCEPT ![c] = wait]
      BY <2>1 DEF Sleeps
    <3>2. /\ call' = [call EXCEPT ![c] = [pc |-> "sleep", perMinute |-> call[c].perMinute,
                                          next |-> 1, checks |-> call[c].checks + 1]]
          /\ passed' = passed
      BY <2>1 DEF Sleeps
    <3> QED
      BY <1>2, <1>7, <1>8, <3>1, <3>2 DEF Calls, CallInv
  <2>2. CASE GoesOn(c, n, refilled)
    BY <1>1, <1>2, <1>7, <1>8, <2>2 DEF GoesOn, Calls, CallInv
  <2>3. CASE Passes(c, n, refilled)
    BY <1>1, <1>7, <1>8, <2>3 DEF Passes, LoopLeft, NoCall, Calls, CallInv
  <2> QED
    BY <1>3, <2>1, <2>2, <2>3
<1> QED
  BY <1>4, <1>5, <1>6, <1>9 DEF TypeOK, StoredBuckets, Calls

\* A call that shares no bucket with the acquire is as far as it was.
LEMMA OthersCounted ==
  ASSUME TypeOK, CallInv, RefusalsCounted, NEW c \in Callers, Acquire(c),
         NEW d \in Callers \ hindered', d # c
  PROVE  /\ call[d].pc \in {"check", "sleep"} => call[d].checks <= Counter(d)'
         /\ call[d].pc = "dispatch" => d \in passed' \/ MaxChecks <= 7
         /\ call'[d] = call[d]
<1> DEFINE n == call[c].next
           k == Order(c)[n]
           req == Req(c, n)
<1>1. k \in Buckets /\ age' = [age EXCEPT ![k] = 0]
  BY AcquireFinds
<1>2. PICK refilled \in Refills(buckets[k], age[k], req) :
        /\ buckets' = [buckets EXCEPT ![k] = AfterAcquire(refilled)]
        /\ hindered' = hindered \cup Hindered(c, k, refilled)
        /\ Sleeps(c, req, refilled) \/ GoesOn(c, n, refilled) \/ Passes(c, n, refilled)
  BY AcquireMoves
<1>3. call'[d] = call[d] /\ sleeping'[d] = sleeping[d] /\ passed \subseteq passed'
  <2>1. call \in [Callers -> Calls] /\ sleeping \in [Callers -> 0..(Unit + 1)]
    BY DEF TypeOK, Calls
  <2> HIDE DEF k, req
  <2> QED
    BY <1>2, <2>1 DEF Sleeps, GoesOn, Passes
<1>4. d \notin hindered /\ (call[d].pc # "idle" => k \notin Range(Order(d)))
  BY <1>2 DEF Hindered
<1>5. SUFFICES ASSUME call[d].pc \in {"check", "sleep"}
               PROVE  call[d].checks <= Counter(d)'
  BY <1>3, <1>4 DEF RefusalsCounted
<1>6. ASSUME NEW m \in 1..3 PROVE Held(d, m)' <=> Held(d, m)
  <2> DEFINE b == Order(d)[m]
  <2>1. b \in Buckets /\ b # k
    BY <1>4, <1>5, BucketsOfCall
  <2>2. buckets'[b] = buckets[b] /\ age'[b] = age[b]
    <3>1. buckets \in [Buckets -> StoredBuckets] /\ age \in [Buckets -> 0..(Unit + 1)]
      BY DEF TypeOK, StoredBuckets
    <3> HIDE DEF b, k
    <3> QED
      BY <1>1, <1>2, <2>1, <3>1
  <2>3. Req(d, m)' = Req(d, m)
    BY <1>3 DEF Req, Limit
  <2>4. Order(d)' = Order(d)
    BY DEF Order
  <2> QED
    BY <1>3, <2>2, <2>3, <2>4 DEF Held
<1>7. Counter(d)' = Counter(d)
  BY <1>6 DEF Counter
<1> QED
  BY <1>4, <1>5, <1>7 DEF RefusalsCounted

\* The counter of the call that acquires: a refusal adds one.
LEMMA OwnCounted ==
  ASSUME TypeOK, CallInv, RefusalsCounted, NEW c \in Callers \ hindered', Acquire(c),
         NEW n, n = call[c].next
  PROVE  /\ call'[c].pc \in {"check", "sleep"} => call'[c].checks <= Counter(c)'
         /\ call'[c].pc = "dispatch" => c \in passed'
<1> DEFINE k == Order(c)[n]
           req == Req(c, n)
<1>1. /\ n \in 1..3 /\ k \in Buckets /\ call[c].pc = "check"
      /\ Asked(req) /\ Stored(buckets[k]) /\ age[k] \in Nat /\ sleeping[c] = 0
      /\ age' = [age EXCEPT ![k] = 0]
  BY AcquireFinds
<1>2. PICK refilled \in Refills(buckets[k], age[k], req) :
        /\ buckets' = [buckets EXCEPT ![k] = AfterAcquire(refilled)]
        /\ hindered' = hindered \cup Hindered(c, k, refilled)
        /\ Sleeps(c, req, refilled) \/ GoesOn(c, n, refilled) \/ Passes(c, n, refilled)
  BY AcquireMoves
<1>3. c \notin hindered /\ (refilled.tokens = Unit => Enough(refilled))
  BY <1>2 DEF Hindered
<1>4. call[c].checks \in 0..(MaxChecks - 1) /\ call[c].checks <= Counter(c)
  BY <1>1, <1>3, AcquireMoves DEF RefusalsCounted
<1>5. /\ call \in [Callers -> Calls] /\ sleeping \in [Callers -> 0..(Unit + 1)]
      /\ buckets \in [Buckets -> StoredBuckets] /\ age \in [Buckets -> 0..(Unit + 1)]
  BY DEF TypeOK, Calls, StoredBuckets
\* The buckets before n are held, n is if it grants, and those after n are left.
<1>6. /\ \A m \in 1..3 : m < n => Held(c, m)
      /\ Held(c, n) <=> Enough(refilled)
  <2>1. refilled.tokens \in Nat /\ (refilled.tokens >= Unit <=> Covers(buckets[k], age[k], req))
    <3>1. refilled.tokens \in 0..req.capacity * Unit /\ req.capacity * Unit \in Nat
      BY <1>1, RefillRange, FullHoldsToken
    <3>2. refilled.tokens >= Unit <=> Covers(buckets[k], age[k], req)
      BY <1>1, RefillRange
    <3> QED
      BY <3>1, <3>2
  <2>2. refilled.tokens >= Unit <=> Enough(refilled)
    BY <1>3, <2>1 DEF Enough
  <2>3. age[k] + sleeping[c] = age[k] /\ ~(n < n)
    BY <1>1
  <2> QED
    BY <2>1, <2>2, <2>3 DEF Held
<1>7. ASSUME NEW m \in 1..3, m # n
      PROVE  /\ buckets'[Order(c)[m]] = buckets[Order(c)[m]]
             /\ age'[Order(c)[m]] = age[Order(c)[m]]
  <2> DEFINE b == Order(c)[m]
  <2>1. b \in Buckets /\ b # k
    BY <1>1, <1>7, BucketsOfCall
  <2> HIDE DEF b, k
  <2>2. buckets'[b] = buckets[b] /\ age'[b] = age[b]
    BY <1>1, <1>2, <1>5, <2>1
  <2> QED
    BY <2>2 DEF b
<1>8. Order(c)' = Order(c)
  BY DEF Order
<1>9. ASSUME call'[c].perMinute = call[c].perMinute, sleeping'[c] \in Nat,
             NEW m \in 1..3, n < m, Held(c, m)
      PROVE  Held(c, m)'
  <2> DEFINE b == Order(c)[m]
  <2>1. b \in Buckets
    BY BucketsOfCall
  <2>2. Stored(buckets[b]) /\ age[b] \in 0..(Unit + 1)
    BY <2>1, StoredOfCall
  <2>3. Asked(Req(c, m)) /\ Req(c, m)' = Req(c, m)
    BY <1>1, <1>9, AsksOfCall DEF Req, Limit
  <2>4. Covers(buckets[b], age[b], Req(c, m))
    <3>1. Covers(buckets[b], age[b] + sleeping[c], Req(c, m))
      BY <1>1, <1>9 DEF Held
    <3> QED
      BY <1>1, <2>2, <3>1
  <2>5. age[b] \in Nat /\ age[b] + sleeping'[c] \in Nat /\ age[b] <= age[b] + sleeping'[c]
    BY <1>9, <2>2
  <2>6. Covers(buckets[b], age[b] + sleeping'[c], Req(c, m))
    <3> HIDE DEF b
    <3> QED
      BY <2>2, <2>3, <2>4, <2>5, TokenStays
  <2>7. buckets'[b] = buckets[b] /\ age'[b] = age[b]
    BY <1>7, <1>9
  <2> QED
    BY <1>8, <2>3, <2>6, <2>7 DEF Held
<1>10. CASE Sleeps(c, req, refilled)
  <2>1. PICK wait \in 1..(Unit + 1) :
          sleeping' = [sleeping EXCEPT ![c] = wait] /\ Covers(AfterAcquire(refilled), wait, req)
    BY <1>10 DEF Sleeps
  <2>2. /\ call'[c].perMinute = call[c].perMinute /\ call'[c].next = 1
        /\ call'[c].checks = call[c].checks + 1 /\ call'[c].pc = "sleep"
        /\ sleeping'[c] = wait /\ wait \in Nat
    BY <1>5, <1>10, <2>1 DEF Sleeps
  <2>3. Held(c, n)'
    <3>1. buckets'[k] = AfterAcquire(refilled) /\ age'[k] = 0
      BY <1>1, <1>2, <1>5
    <3>2. Req(c, n)' = Req(c, n)
      BY <2>2 DEF Req, Limit
    <3>3. age'[k] + sleeping'[c] = wait
      BY <2>2, <3>1
    <3> QED
      BY <1>8, <2>1, <3>1, <3>2, <3>3 DEF Held
  <2>4. \A m \in 1..3 : n < m /\ Held(c, m) => Held(c, m)'
    BY <1>9, <2>2
  <2>5. ~Held(c, n)
    BY <1>6, <1>10 DEF Sleeps
  <2>6. Counter(c)' >= Counter(c) + 1
    <3>1. CASE n = 1
      BY <1>6, <2>3, <2>4, <2>5, <3>1 DEF Counter
    <3>2. CASE n = 2
      BY <1>6, <2>3, <2>4, <2>5, <3>2 DEF Counter
    <3>3. CASE n = 3
      BY <1>6, <2>3, <2>4, <2>5, <3>3 DEF Counter
    <3> QED
      BY <1>1, <3>1, <3>2, <3>3
  <2>7. Counter(c) \in Nat /\ Counter(c)' \in Nat
    BY DEF Counter
  <2> QED
    BY <1>4, <2>2, <2>6, <2>7
<1>11. CASE GoesOn(c, n, refilled)
  <2>1. /\ call'[c].perMinute = call[c].perMinute /\ call'[c].next = n + 1
        /\ call'[c].checks = call[c].checks /\ call'[c].pc = "check"
        /\ sleeping'[c] \in Nat
    BY <1>1, <1>5, <1>11 DEF GoesOn
  <2>2. \A m \in 1..3 : m <= n => Held(c, m)'
    BY <1>1, <2>1 DEF Held
  <2>3. \A m \in 1..3 : n < m /\ Held(c, m) => Held(c, m)'
    BY <1>9, <2>1
  <2>4. \A m \in 1..3 : Held(c, m) => Held(c, m)'
    BY <1>1, <2>2, <2>3
  <2>5. Counter(c)' >= Counter(c) /\ Counter(c) \in Nat /\ Counter(c)' \in Nat
    BY <2>4 DEF Counter
  <2> QED
    BY <1>4, <2>1, <2>5
<1>12. CASE Passes(c, n, refilled)
  <2>1. call'[c].pc = "dispatch" /\ c \in passed'
    BY <1>5, <1>12 DEF Passes, LoopLeft, NoCall
  <2> QED
    BY <2>1
<1> QED
  BY <1>2, <1>10, <1>11, <1>12

LEMMA AcquireInv ==
  ASSUME IInv, NEW c \in Callers, Acquire(c)
  PROVE  IInv'
<1>1. TypeOK /\ CallInv /\ RefusalsCounted
  BY DEF IInv
<1>2. TypeOK' /\ CallInv'
  BY <1>1, AcquireTypes
<1>3. RefusalsCounted'
  <2> SUFFICES ASSUME NEW d \in Callers \ hindered'
               PROVE  /\ call'[d].pc \in {"check", "sleep"} => call'[d].checks <= Counter(d)'
                      /\ call'[d].pc = "dispatch" => d \in passed' \/ MaxChecks <= 7
    BY DEF RefusalsCounted
  <2>1. CASE d = c
    BY <1>1, <2>1, OwnCounted
  <2>2. CASE d # c
    BY <1>1, <2>2, OthersCounted
  <2> QED
    BY <2>1, <2>2
<1> QED
  BY <1>2, <1>3 DEF IInv

-----------------------------------------------------------------------------
(* The other steps.                                                         *)

\* A call whose buckets and registration are left alone is as far as it was.
LEMMA StaysHeld ==
  ASSUME NEW c, UNCHANGED <<buckets, age, sleeping>>,
         call'[c].perMinute = call[c].perMinute, call'[c].next = call[c].next
  PROVE  Counter(c)' = Counter(c)
<1>1. Order(c)' = Order(c)
  BY DEF Order
<1>2. ASSUME NEW m \in 1..3 PROVE Held(c, m)' <=> Held(c, m)
  <2>1. Req(c, m)' = Req(c, m)
    BY DEF Req, Limit
  <2> QED
    BY <1>1, <2>1 DEF Held
<1> QED
  BY <1>2 DEF Counter

LEMMA SleepEndsInv ==
  ASSUME IInv, NEW c \in Callers, SleepEnds(c)
  PROVE  IInv'
<1>1. /\ call \in [Callers -> Calls] /\ call[c].pc = "sleep" /\ sleeping[c] = 0
      /\ UNCHANGED <<perMinute, buckets, age, sleeping, passed, hindered>>
      /\ TypeOK /\ CallInv /\ RefusalsCounted
  BY DEF IInv, TypeOK, Calls, SleepEnds
<1>2. call' = [call EXCEPT ![c] = IF call[c].checks < MaxChecks
                                     THEN [call[c] EXCEPT !.pc = "check"] ELSE LoopLeft]
  BY DEF SleepEnds
<1>3. /\ call' \in [Callers -> Calls]
      /\ \A d \in Callers : d # c => call'[d] = call[d]
      /\ \/ /\ call[c].checks < MaxChecks
            /\ call'[c].pc = "check" /\ call'[c].perMinute = call[c].perMinute
            /\ call'[c].next = call[c].next /\ call'[c].checks = call[c].checks
         \/ /\ ~(call[c].checks < MaxChecks)
            /\ call'[c].pc = "dispatch"
  BY <1>1, <1>2 DEF Calls, LoopLeft, NoCall
<1>4. TypeOK'
  BY <1>1, <1>3 DEF TypeOK, Calls
<1>5. CallInv'
  BY <1>1, <1>2, <1>3 DEF CallInv, Calls
<1>6. RefusalsCounted'
  <2> SUFFICES ASSUME NEW d \in Callers \ hindered
               PROVE  /\ call'[d].pc \in {"check", "sleep"} => call'[d].checks <= Counter(d)'
                      /\ call'[d].pc = "dispatch" => d \in passed' \/ MaxChecks <= 7
    BY <1>1 DEF RefusalsCounted
  <2>1. call'[d].perMinute = call[d].perMinute /\ call'[d].next = call[d].next
          => Counter(d)' = Counter(d)
    BY <1>1, StaysHeld
  <2>2. CASE d = c
    <3>1. call[c].checks <= Counter(c) /\ Counter(c) \in 0..7 /\ call[c].checks \in Nat
      BY <1>1, <2>2 DEF RefusalsCounted, Counter, Calls
    <3> QED
      BY <1>3, <2>1, <2>2, <3>1
  <2>3. CASE d # c
    BY <1>1, <1>3, <2>1, <2>3 DEF RefusalsCounted
  <2> QED
    BY <2>2, <2>3
<1> QED
  BY <1>4, <1>5, <1>6 DEF IInv

\* A call begins with no check behind it, and is forgotten when it ends.
LEMMA CallEndsInv ==
  ASSUME IInv, NEW c \in Callers, RegistryLookup(c) \/ Dispatch(c)
  PROVE  IInv'
<1>1. /\ call \in [Callers -> Calls] /\ perMinute[ToolOf[c]] \in 1..MaxPerMinute
      /\ TypeOK /\ CallInv /\ RefusalsCounted
      /\ UNCHANGED <<perMinute, buckets, age, sleeping>>
  BY DEF IInv, TypeOK, Calls, RegistryLookup, Dispatch
<1>2. PICK new \in Calls :
        /\ call' = [call EXCEPT ![c] = new] /\ new.checks = 0
        /\ \/ new.pc = "idle"
           \/ new.pc = "check" /\ new.perMinute # 0
        /\ call[c].pc \in {"idle", "dispatch"}
  <2>1. CASE RegistryLookup(c)
    <3> DEFINE new == [pc |-> "check", perMinute |-> perMinute[ToolOf[c]], next |-> 1, checks |-> 0]
    <3>1. new \in Calls /\ new.pc = "check" /\ new.perMinute # 0 /\ new.checks = 0
      BY <1>1 DEF Calls
    <3> QED
      BY <2>1, <3>1 DEF RegistryLookup
  <2>2. CASE Dispatch(c)
    <3>1. NoCall \in Calls /\ NoCall.pc = "idle" /\ NoCall.checks = 0
      BY DEF NoCall, Calls
    <3> QED
      BY <2>2, <3>1 DEF Dispatch
  <2> QED
    BY <2>1, <2>2
<1>3. /\ passed' \subseteq Callers /\ hindered' \subseteq Callers
      /\ \A d \in Callers : d # c => (d \in passed' <=> d \in passed) /\ (d \in hindered' <=> d \in hindered)
  BY <1>1 DEF TypeOK, RegistryLookup, Dispatch
<1>4. /\ call' \in [Callers -> Calls] /\ call'[c] = new
      /\ \A d \in Callers : d # c => call'[d] = call[d]
  BY <1>1, <1>2
<1>5. TypeOK'
  BY <1>1, <1>3, <1>4 DEF TypeOK, Calls
<1>6. CallInv'
  <2>1. sleeping[c] = 0
    BY <1>1, <1>2 DEF CallInv
  <2> QED
    BY <1>1, <1>2, <1>3, <1>4, <2>1 DEF CallInv, Calls
<1>7. RefusalsCounted'
  <2> SUFFICES ASSUME NEW d \in Callers \ hindered'
               PROVE  /\ call'[d].pc \in {"check", "sleep"} => call'[d].checks <= Counter(d)'
                      /\ call'[d].pc = "dispatch" => d \in passed' \/ MaxChecks <= 7
    BY DEF RefusalsCounted
  <2>1. CASE d = c
    <3>1. Counter(d)' >= 0
      BY DEF Counter
    <3> QED
      BY <1>2, <1>4, <2>1, <3>1
  <2>2. CASE d # c
    <3>1. Counter(d)' = Counter(d)
      BY <1>1, <1>4, <2>2, StaysHeld
    <3> QED
      BY <1>1, <1>3, <1>4, <2>2, <3>1 DEF RefusalsCounted
  <2> QED
    BY <2>1, <2>2
<1> QED
  BY <1>5, <1>6, <1>7 DEF IInv

\* A new limit concerns the calls that look it up later.
LEMMA LimitInv ==
  ASSUME IInv, NEW t \in Tools, Register(t) \/ \E n \in Edits : UpdateRateLimit(t, n)
  PROVE  IInv'
<1>1. /\ TypeOK /\ CallInv /\ RefusalsCounted
      /\ UNCHANGED <<buckets, age, call, sleeping, passed, hindered>>
  BY DEF IInv, Register, UpdateRateLimit
<1>2. ASSUME NEW n \in Edits PROVE Clamp(n) \in 1..MaxPerMinute
  <2>1. n \in Int /\ MaxPerMinute \in Nat \ {0}
    BY LimitsAssumption
  <2>2. Clamp(n) = IF n < 1 THEN 1 ELSE IF n < MaxPerMinute THEN n ELSE MaxPerMinute
    BY DEF Clamp, Lesser
  <2> QED
    BY <2>1, <2>2
<1>3. perMinute' \in [Tools -> 1..MaxPerMinute]
  BY <1>1, <1>2 DEF TypeOK, Register, UpdateRateLimit
<1>4. TypeOK' /\ CallInv'
  BY <1>1, <1>3 DEF TypeOK, CallInv
<1>5. \A c \in Callers : Counter(c)' = Counter(c)
  BY <1>1, StaysHeld
<1>6. RefusalsCounted'
  BY <1>1, <1>5 DEF RefusalsCounted
<1> QED
  BY <1>4, <1>6 DEF IInv

\* A bucket that will hold a token when the call wakes still will.
LEMMA TickInv ==
  ASSUME IInv, Tick
  PROVE  IInv'
<1>1. /\ TypeOK /\ CallInv /\ RefusalsCounted
      /\ UNCHANGED <<perMinute, buckets, call, passed, hindered>>
      /\ age' = [k \in Buckets |->
                   IF buckets[k].touched THEN Lesser(age[k] + 1, MaxAge(buckets[k])) ELSE age[k]]
      /\ sleeping' = [c \in Callers |-> IF sleeping[c] > 0 THEN sleeping[c] - 1 ELSE 0]
  BY DEF IInv, Tick
<1>2. /\ age \in [Buckets -> 0..(Unit + 1)] /\ sleeping \in [Callers -> 0..(Unit + 1)]
  BY <1>1 DEF TypeOK
<1>3. /\ age' \in [Buckets -> 0..(Unit + 1)] /\ sleeping' \in [Callers -> 0..(Unit + 1)]
      /\ \A c \in Callers : sleeping[c] = 0 => sleeping'[c] = 0
  BY <1>1, <1>2 DEF Lesser, MaxAge
<1>4. TypeOK'
  BY <1>1, <1>3 DEF TypeOK
<1>5. CallInv'
  BY <1>1, <1>3 DEF CallInv
<1>6. ASSUME NEW c \in Callers, call[c].pc \in {"check", "sleep"}, NEW m \in 1..3, Held(c, m)
      PROVE  Held(c, m)'
  <2>1. Req(c, m)' = Req(c, m) /\ Order(c)' = Order(c) /\ call' = call
    BY <1>1 DEF Req, Limit, Order
  <2>2. CASE m < call[c].next
    BY <2>1, <2>2 DEF Held
  <2>3. CASE ~(m < call[c].next)
    <3> DEFINE b == Order(c)[m]
               then == age'[b] + sleeping'[c]
    <3>1. b \in Buckets
      BY BucketsOfCall
    <3>2. Stored(buckets[b]) /\ Asked(Req(c, m))
      BY <1>1, <1>6, <3>1, StoredOfCall, AsksOfCall
    <3>3. Covers(buckets[b], age[b] + sleeping[c], Req(c, m))
      BY <1>6, <2>3 DEF Held
    <3>4. CASE ~buckets[b].touched
      <4>1. Covers(buckets[b], then, Req(c, m))
        BY <3>3, <3>4 DEF Covers
      <4> QED
        BY <1>1, <2>1, <4>1 DEF Held
    <3>5. CASE buckets[b].touched
      <4>1. /\ age'[b] = Lesser(age[b] + 1, MaxAge(buckets[b]))
            /\ sleeping'[c] = IF sleeping[c] > 0 THEN sleeping[c] - 1 ELSE 0
            /\ age[b] \in 0..(Unit + 1) /\ sleeping[c] \in 0..(Unit + 1)
        BY <1>1, <1>2, <3>1, <3>5
      <4>2. /\ then \in Nat /\ age[b] + sleeping[c] \in Nat
            /\ Unit <= then \/ age[b] + sleeping[c] <= then
        <5> HIDE DEF b
        <5> QED
          BY <4>1 DEF Lesser, MaxAge
      <4>3. Covers(buckets[b], then, Req(c, m))
        <5> HIDE DEF b, then
        <5> QED
          BY <3>2, <3>3, <4>2, TokenStays, MinuteRefills
      <4> QED
        BY <1>1, <2>1, <4>3 DEF Held
    <3> QED
      BY <3>4, <3>5
  <2> QED
    BY <2>2, <2>3
<1>7. RefusalsCounted'
  <2> SUFFICES ASSUME NEW c \in Callers \ hindered
               PROVE  /\ call[c].pc \in {"check", "sleep"} => call[c].checks <= Counter(c)'
                      /\ call[c].pc = "dispatch" => c \in passed \/ MaxChecks <= 7
    BY <1>1 DEF RefusalsCounted
  <2>1. CASE call[c].pc \in {"check", "sleep"}
    <3>1. Counter(c)' >= Counter(c)
      BY <1>6, <2>1 DEF Counter
    <3>2. Counter(c) \in Nat /\ Counter(c)' \in Nat /\ call[c].checks \in Nat
      BY <1>1 DEF Counter, TypeOK
    <3> QED
      BY <1>1, <2>1, <3>1, <3>2 DEF RefusalsCounted
  <2>2. CASE call[c].pc \notin {"check", "sleep"}
    BY <1>1, <2>2 DEF RefusalsCounted
  <2> QED
    BY <2>1, <2>2
<1> QED
  BY <1>4, <1>5, <1>7 DEF IInv

-----------------------------------------------------------------------------
(* The theorems.                                                            *)

LEMMA InitInv == Init => IInv
<1> SUFFICES ASSUME Init PROVE IInv
  OBVIOUS
<1>1. MaxCapacity \in Nat /\ MaxCapacity * Unit \in Nat
  BY LimitsBounded, ProductNat
<1>2. TypeOK
  BY <1>1 DEF Init, TypeOK, Untouched, NoCall
<1>3. CallInv /\ RefusalsCounted
  BY DEF Init, NoCall, CallInv, RefusalsCounted
<1> QED
  BY <1>2, <1>3 DEF IInv

LEMMA NextInv == IInv /\ [Next]_vars => IInv'
<1> SUFFICES ASSUME IInv, [Next]_vars PROVE IInv'
  OBVIOUS
<1>1. CASE UNCHANGED vars
  <2>1. TypeOK' /\ CallInv'
    BY <1>1 DEF IInv, vars, TypeOK, CallInv
  <2>2. \A c \in Callers : Counter(c)' = Counter(c)
    BY <1>1, StaysHeld DEF vars
  <2>3. RefusalsCounted'
    BY <1>1, <2>2 DEF IInv, vars, RefusalsCounted
  <2> QED
    BY <2>1, <2>3 DEF IInv
<1>2. ASSUME NEW c \in Callers, RegistryLookup(c) \/ CallStep(c) PROVE IInv'
  BY <1>2, AcquireInv, SleepEndsInv, CallEndsInv DEF CallStep
<1>3. ASSUME NEW t \in Tools, Register(t) \/ \E n \in Edits : UpdateRateLimit(t, n) PROVE IInv'
  BY <1>3, LimitInv
<1> QED
  BY <1>1, <1>2, <1>3, TickInv DEF Next

\* Buckets, limits and calls are well typed; and a call that meets no other,
\* and that rounding never denies a token, is refused at most seven times,
\* whatever the three limits are.
THEOREM RefusalsBounded == Spec => [](TypeOK /\ CallInv /\ RefusalsCounted)
  BY InitInv, NextInv, PTL DEF Spec, IInv

\* The loop checks eight times: such a call is dispatched with a token from
\* each of its buckets.
THEOREM UncrowdedPasses ==
  ASSUME MaxChecks >= 8
  PROVE  Spec => []UncrowdedCallPasses
<1>1. RefusalsCounted => UncrowdedCallPasses
  BY DEF RefusalsCounted, UncrowdedCallPasses
<1> QED
  BY <1>1, RefusalsBounded, PTL
==============================================================================
