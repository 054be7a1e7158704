------------------------------ MODULE RateLimit ------------------------------
(***************************************************************************)
(* The rate-limit middleware and the loop of runMiddlewareChain around it: *)
(* concurrent Gateway.callTool invocations of one tenant, three            *)
(* TokenBucket objects a call, durable sleeps, and limits that the         *)
(* operator edits, or a restarted service resets, while calls sleep.       *)
(*                                                                         *)
(* Time is relative, so that behaviours go on for ever in finitely many    *)
(* states: age[k] counts the milliseconds since bucket k was refilled and  *)
(* saturates where the bucket is full under every limit; sleeping[c] counts  *)
(* down.  The clock does not go back here (TokenBucket models that).       *)
(***************************************************************************)
EXTENDS BucketHandlers, Functions

CONSTANTS
  Callers,      \* concurrent callTool invocations
  Tools,
  ToolOf,       \* ToolOf[c]: the tool caller c calls
  GlobalLimit,  \* 60: capacity of global:<tool>
  TenantLimit,  \* 120: capacity of tenant:<id>
  MaxPerMinute, \* 600: updateRateLimit clamps to 1..MaxPerMinute
  Declared,     \* Declared[t]: the limit in the registration t's service sends
  Edits,        \* values the ops view posts to updateRateLimit
  MaxChecks     \* 8: times the loop checks a middleware

ASSUME ToolsAssumption == ToolOf \in [Callers -> Tools]
ASSUME LimitsAssumption ==
  /\ {GlobalLimit, TenantLimit, MaxPerMinute, MaxChecks} \subseteq Nat \ {0}
  /\ Declared \in [Tools -> 1..MaxPerMinute]
  /\ Edits \subseteq Int

Buckets == ({"global", "tenant_tool"} \X Tools) \cup {<<"tenant", "demo">>}

\* A minute fills a bucket whatever limit is asked of it; an empty one is full
\* without rounding a millisecond later.  From then on its age does not matter.
MaxAge(bucket) == IF bucket.tokens = 0 THEN Unit + 1 ELSE Unit

VARIABLES
  perMinute, \* perMinute[t]: rateLimit of t in the ToolRegistry
  buckets,   \* buckets[k]: stored state of TokenBucket k
  age,       \* age[k]: milliseconds since its lastRefillMs
  call,      \* call[c]: where caller c is, and the registration it looked up
  sleeping,  \* sleeping[c]: milliseconds caller c still sleeps
  passed,    \* callers whose last check of the middleware passed (history)
  hindered   \* callers whose call met another in its buckets, or was refused
             \* a token that rounding alone left incomplete (history)

vars == <<perMinute, buckets, age, call, sleeping, passed, hindered>>

NoCall == [pc |-> "idle", perMinute |-> 0, next |-> 1, checks |-> 0]
LoopLeft == [NoCall EXCEPT !.pc = "dispatch"]

Init ==
  /\ perMinute = Declared
  /\ buckets = [k \in Buckets |-> Untouched]
  /\ age = [k \in Buckets |-> 0]
  /\ call = [c \in Callers |-> NoCall]
  /\ sleeping = [c \in Callers |-> 0]
  /\ passed = {} /\ hindered = {}

\* The buckets of a call in the order they are acquired, and what is asked of
\* each: the third limit is the one of the registration the call holds.
Order(c) == <<<<"global", ToolOf[c]>>, <<"tenant", "demo">>, <<"tenant_tool", ToolOf[c]>>>>
Limit(c, n) == CASE n = 1 -> GlobalLimit [] n = 2 -> TenantLimit [] n = 3 -> call[c].perMinute
Req(c, n) == [capacity |-> Limit(c, n), refillRate |-> Limit(c, n)]

\* callTool looks the registration up once.
RegistryLookup(c) ==
  /\ call[c].pc = "idle"
  /\ call' = [call EXCEPT ![c] = [pc |-> "check", perMinute |-> perMinute[ToolOf[c]],
                                  next |-> 1, checks |-> 0]]
  /\ UNCHANGED <<perMinute, buckets, age, sleeping, passed, hindered>>

\* One acquire of rateLimitMW.check; after the third the middleware passes,
\* on a refusal it returns wait and the chain sleeps.
Granted(c) ==
  /\ IF call[c].next < 3
       THEN /\ call' = [call EXCEPT ![c].next = @ + 1]
            /\ UNCHANGED passed
       ELSE /\ call' = [call EXCEPT ![c] = LoopLeft]
            /\ passed' = passed \cup {c}
  /\ UNCHANGED sleeping

Refused(c, refilled) ==
  /\ \E wait \in WaitMs(refilled, Req(c, call[c].next)) :
       sleeping' = [sleeping EXCEPT ![c] = wait]
  /\ call' = [call EXCEPT ![c] = [pc |-> "sleep", perMinute |-> @.perMinute,
                                  next |-> 1, checks |-> @.checks + 1]]
  /\ UNCHANGED passed

\* The others that use bucket k; and c itself, refused when it held a token
\* but for rounding.
Hindered(c, k, refilled) ==
  {d \in Callers \ {c} : call[d].pc # "idle" /\ k \in Range(Order(d))}
    \cup (IF refilled.tokens = Unit /\ ~Enough(refilled) THEN {c} ELSE {})

Acquire(c) ==
  LET req == Req(c, call[c].next)
      k == Order(c)[call[c].next]
  IN  /\ call[c].pc = "check"
      /\ \E refilled \in Refills(buckets[k], age[k], req) :
           /\ buckets' = [buckets EXCEPT ![k] = AfterAcquire(refilled)]
           /\ IF Enough(refilled) THEN Granted(c) ELSE Refused(c, refilled)
           /\ hindered' = hindered \cup Hindered(c, k, refilled)
      /\ age' = [age EXCEPT ![k] = 0]
      /\ UNCHANGED perMinute

\* Mutant: the checks are not counted over a sleep.
SleepEndsForgets(c) ==
  /\ call[c].pc = "sleep" /\ sleeping[c] = 0
  /\ call' = [call EXCEPT ![c].pc = "check", ![c].checks = 0]
  /\ UNCHANGED <<perMinute, buckets, age, sleeping, passed, hindered>>

\* The sleep ends and the loop checks again, MaxChecks times in all; then it
\* runs out and the chain goes on.
SleepEnds(c) ==
  /\ call[c].pc = "sleep" /\ sleeping[c] = 0
  /\ call' = [call EXCEPT ![c] =
                IF @.checks < MaxChecks THEN [@ EXCEPT !.pc = "check"] ELSE LoopLeft]
  /\ UNCHANGED <<perMinute, buckets, age, sleeping, passed, hindered>>

\* The tool is called; the invocation ends and its caller may call again.
Dispatch(c) ==
  /\ call[c].pc = "dispatch"
  /\ call' = [call EXCEPT ![c] = NoCall]
  /\ passed' = passed \ {c}
  /\ hindered' = hindered \ {c}
  /\ UNCHANGED <<perMinute, buckets, age, sleeping>>

\* updateRateLimit
Clamp(n) == IF n < 1 THEN 1 ELSE Lesser(n, MaxPerMinute)

UpdateRateLimit(t, n) ==
  /\ perMinute' = [perMinute EXCEPT ![t] = Clamp(n)]
  /\ UNCHANGED <<buckets, age, call, sleeping, passed, hindered>>

\* A restarted service registers its tool again; the registry replaces the
\* entry, limit and all.
Register(t) ==
  /\ perMinute' = [perMinute EXCEPT ![t] = Declared[t]]
  /\ UNCHANGED <<buckets, age, call, sleeping, passed, hindered>>

Tick ==
  /\ age' = [k \in Buckets |->
       IF buckets[k].touched THEN Lesser(age[k] + 1, MaxAge(buckets[k])) ELSE age[k]]
  /\ sleeping' = [c \in Callers |-> IF sleeping[c] > 0 THEN sleeping[c] - 1 ELSE 0]
  /\ UNCHANGED <<perMinute, buckets, call, passed, hindered>>

CallStep(c) == Acquire(c) \/ SleepEnds(c) \/ Dispatch(c)

Next ==
  \/ \E c \in Callers : RegistryLookup(c) \/ CallStep(c)
  \/ \E t \in Tools : Register(t) \/ \E n \in Edits : UpdateRateLimit(t, n)
  \/ Tick

\* Time passes, and the runtime carries on every invocation; nobody has to
\* call.
Spec == Init /\ [][Next]_vars /\ WF_vars(Tick) /\ \A c \in Callers : WF_vars(CallStep(c))

-----------------------------------------------------------------------------
(* Properties.                                                              *)

MaxOf(x, y) == IF x > y THEN x ELSE y
MaxCapacity == MaxOf(MaxOf(GlobalLimit, TenantLimit), MaxPerMinute)

TypeOK ==
  /\ perMinute \in [Tools -> 1..MaxPerMinute]
  /\ buckets \in [Buckets -> [touched : BOOLEAN, tokens : 0..MaxCapacity * Unit, short : BOOLEAN]]
  /\ age \in [Buckets -> 0..Unit + 1]
  /\ call \in [Callers -> [pc : {"idle", "check", "sleep", "dispatch"},
                           perMinute : 0..MaxPerMinute, next : 1..3, checks : 0..MaxChecks]]
  /\ sleeping \in [Callers -> 0..Unit + 1]
  /\ {passed, hindered} \subseteq SUBSET Callers

\* Every call is dispatched in the end, however many others compete for the
\* buckets and however the limits are edited and reset.
EveryCallDispatched ==
  \A c \in Callers : []<>(call[c].pc \in {"idle", "dispatch"})

\* A call that meets no other call in its buckets has taken a token from each
\* of them when it is dispatched, whatever state they were in and whatever its
\* registration says: the checks of the loop are used up only by competition,
\* or by a bucket that refuses although rounding alone denies it the token.
UncrowdedCallPasses ==
  \A c \in Callers \ hindered : call[c].pc = "dispatch" => c \in passed

\* "Every call acquires from three token buckets ... When a bucket is empty,
\* the gateway sleeps the call durably ... until tokens refill" (README.md:94)
NoFreePass == \A c \in Callers : call[c].pc = "dispatch" => c \in passed
=============================================================================
