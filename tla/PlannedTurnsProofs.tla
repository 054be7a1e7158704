-------------------------- MODULE PlannedTurnsProofs --------------------------
(***************************************************************************)
(* What the stub planner and its transcript guarantee for every set of     *)
(* messages, deliveries and merchants, and what the ledgers add up to.     *)
(*                                                                         *)
(* The planner keeps no state: it reads off the transcript how far it has  *)
(* got.  So the invariant says that the transcript is always a beginning   *)
(* of the one flow its message asks for (StepsOf), that the call which is  *)
(* on its way is the one the planner would plan again, through approvals   *)
(* and appeals, and that a reply is the last thing it would plan.          *)
(***************************************************************************)
EXTENDS PlannedTurns, SequenceTheorems, FiniteSetTheorems, WellFoundedInduction, TLAPS

Known(m) == {i \in DOMAIN m.batch : m.batch[i] \in DOMAIN MerchantOf}

\* The transcripts that the flow of m goes through.
StepsOf(m, list) ==
  /\ m.batch # None =>
       /\ Len(list) <= Cardinality(Known(m))
       /\ \A i \in DOMAIN list :
            list[i].tool = "merchant_status" /\ list[i].result = MerchantOf[m.batch[Nth(Known(m), i)]]
  /\ m.batch = None /\ m.delivery # None =>
       /\ Len(list) <= IF m.action THEN 5 ELSE 3
       /\ \A i \in DOMAIN list : list[i].tool = Flow[i]
       /\ list # <<>> => list[1].result = DeliveryLookup(m.delivery)
  /\ m.batch = None /\ m.delivery = None =>
       /\ Len(list) <= IF m.search THEN 1 ELSE 0
       /\ \A i \in DOMAIN list : list[i].tool = "semantic_search"

\* The tools that ran are those the transcript tells of.
TranscriptInv ==
  /\ ran = [i \in DOMAIN steps |-> steps[i].tool]
  /\ message = None => steps = <<>>
  /\ message # None => StepsOf(message, steps)

\* A turn that runs, or was blocked and can be taken up again, is about to do
\* what the planner says.
Interrupted == status = "blocked_appealable"
TurnInv ==
  /\ run.pc \notin {"idle", "failing"} <=> status = "busy"
  /\ run.pc = "failing" => status = "failed"
  /\ status = "busy" \/ Interrupted => message # None /\ reply = None
  /\ run.pc \notin {"idle", "loop", "failing"} =>
       run.call = PlanNext(message, steps) /\ run.call # None
  /\ Interrupted =>
       /\ pendingAppeal # None /\ pendingAppeal.post = posts
       /\ pendingAppeal.call = PlanNext(message, steps)
  /\ run.step <= Len(steps) /\ (run.pc # "loop" => run.step < MaxSteps)
  /\ run.pc \in {"idle", "failing"} => run.step = 0

ReplyInv ==
  reply # None => message # None /\ status = "complete" /\ PlanNext(message, steps) = Final(reply)

\* TypeOK is the types of the session and those of the costs.
SessionTypes ==
  /\ status \in {"idle", "busy", "complete", "failed", "blocked_appealable"}
  /\ failureReason \in Reasons /\ pendingAppeal \in Blocks \cup {None}
  /\ run \in Runs
  /\ message \in Messages \cup {None} /\ posts \in 0..MaxPosts
  /\ steps \in Seq(ToolMessages) /\ ran \in Seq(ToolNames)

CostTypes ==
  /\ inFlight \in [Items -> Nat] /\ used \in [Purposes -> Nat]
  /\ ledger \in [Tenants -> Ledgers] /\ \A t \in Tenants : Len(ledger[t].entries) <= MaxEntries

IInv == SessionTypes /\ TranscriptInv /\ TurnInv /\ ReplyInv

\* Nothing is billed but completions, and none before it was made.
BillInv ==
  /\ inFlight["tool"] = 0
  /\ \A p \in Purposes : inFlight[p] <= used[p]
  /\ LedgerExact

USE StepsAssumption

-----------------------------------------------------------------------------
(* Counting through a set.                                                  *)

\* A non-empty set of numbers has a least one.
LEMMA NatHasLeast ==
  ASSUME NEW T \in SUBSET Nat, T # {}
  PROVE  \E x \in T : \A y \in T : x <= y
<1>1. \E x \in T : \A y \in T : ~(<<y, x>> \in OpToRel(<, Nat))
  BY NatLessThanWellFounded, WFMin
<1>2. ASSUME NEW x \in Nat, NEW y \in Nat, y < x PROVE <<y, x>> \in OpToRel(<, Nat)
  <2>1. <<y, x>> \in Nat \X Nat /\ <<y, x>>[1] < <<y, x>>[2]
    BY <1>2
  <2>2. QED BY <2>1 DEF OpToRel
<1>3. PICK x \in T : \A y \in T : ~(<<y, x>> \in OpToRel(<, Nat))
  BY <1>1, Zenon
<1>4. ASSUME NEW y \in T PROVE x <= y
  <2>1. x \in Nat /\ y \in Nat
    OBVIOUS
  <2>2. ~(y < x)
    BY <1>2, <1>3, <2>1, Zenon
  <2>3. QED BY <2>1, <2>2
<1>5. QED BY <1>4

\* There are n numbers from 1 to n.
LEMMA CardInterval ==
  ASSUME NEW n \in Nat
  PROVE  IsFiniteSet(1..n) /\ Cardinality(1..n) = n
<1>1. \A a, b \in Int : /\ IsFiniteSet(a..b)
                        /\ Cardinality(a..b) = IF a > b THEN 0 ELSE b - a + 1
  BY FS_Interval
<1>2. 1 \in Int /\ n \in Int
  OBVIOUS
<1>3. IsFiniteSet(1..n) /\ Cardinality(1..n) = IF 1 > n THEN 0 ELSE n - 1 + 1
  BY <1>1, <1>2, Zenon
<1>4. QED BY <1>3

\* Nth finds the n-th index of a sequence for every n up to their number: the
\* first number that has n of them below it follows the n-th.
LEMMA NthExists ==
  ASSUME NEW m \in Nat, NEW S \in SUBSET (1..m), NEW n \in 1..Cardinality(S)
  PROVE  Nth(S, n) \in S
<1> DEFINE Below(k) == {j \in S : j < k}
           T == {k \in Nat : n <= Cardinality(Below(k))}
<1>0. \A j \in S : j \in Nat /\ 1 <= j /\ j <= m
  OBVIOUS
<1>1. IsFiniteSet(S) /\ Cardinality(S) \in Nat
  <2>1. IsFiniteSet(1..m)
    BY FS_Interval
  <2>2. QED BY <2>1, FS_Subset, FS_CardinalityType
<1>2. \A k \in Nat : IsFiniteSet(Below(k)) /\ Cardinality(Below(k)) \in Nat
  BY <1>1, FS_Subset, FS_CardinalityType
<1>3. m + 1 \in T
  <2>1. Below(m + 1) = S
    <3>1. \A j \in S : j < m + 1
      BY <1>0
    <3>2. QED BY <3>1
  <2>2. QED BY <2>1
<1>4. PICK k \in T : \A y \in T : k <= y
  BY <1>3, NatHasLeast
<1>5. k # 0
  <2>1. Below(0) = {}
    <3>1. \A j \in S : ~(j < 0)
      BY <1>0
    <3>2. QED BY <3>1
  <2>2. QED BY <2>1, FS_EmptySet
<1>6. Cardinality(Below(k - 1)) < n
  <2>1. k - 1 \in Nat /\ k - 1 \notin T
    BY <1>4, <1>5
  <2>2. QED BY <2>1, <1>2
<1>7. Below(k) = IF k - 1 \in S THEN Below(k - 1) \cup {k - 1} ELSE Below(k - 1)
  <2>1. \A j \in S : j < k <=> j < k - 1 \/ j = k - 1
    BY <1>0, <1>4
  <2>2. k - 1 < k
    BY <1>4
  <2>3. QED BY <2>1, <2>2
<1>8. k - 1 \in S /\ Cardinality(Below(k - 1)) = n - 1
  <2>1. n <= Cardinality(Below(k))
    BY <1>4
  <2>2. k - 1 \in S
    BY <1>6, <1>7, <2>1, <1>2, <1>4, <1>5
  <2>3. Cardinality(Below(k)) = Cardinality(Below(k - 1)) + 1
    <3>1. IsFiniteSet(Below(k - 1)) /\ k - 1 \notin Below(k - 1)
      BY <1>2, <1>4, <1>5
    <3>2. QED BY <3>1, <2>2, <1>7, FS_AddElement
  <2>4. QED BY <2>1, <2>2, <2>3, <1>6, <1>2, <1>4, <1>5
<1>9. QED
  <2> DEFINE P(i) == Cardinality({j \in S : j < i}) = n - 1
  <2>1. \E i \in S : P(i)
    BY <1>8
  <2>2. (CHOOSE i \in S : P(i)) \in S
    BY <2>1, Zenon
  <2>3. QED BY <2>2 DEF Nth

\* Of the numbers from 1, the n-th is n.
LEMMA NthOfInterval ==
  ASSUME NEW m \in Nat, NEW n \in 1..m
  PROVE  Nth(1..m, n) = n
<1>1. ASSUME NEW i \in 1..m PROVE Cardinality({j \in 1..m : j < i}) = i - 1
  <2>1. {j \in 1..m : j < i} = 1..(i - 1)
    OBVIOUS
  <2>2. Cardinality(1..(i - 1)) = i - 1
    BY FS_Interval
  <2>3. QED BY <2>1, <2>2
<1>2. \A i \in 1..m : Cardinality({j \in 1..m : j < i}) = n - 1 <=> i = n
  BY <1>1
<1>3. QED BY <1>2 DEF Nth

-----------------------------------------------------------------------------
(* What the planner says next, for each flow.                               *)

\* The tools of an investigation are five different ones.
LEMMA FlowTools ==
  /\ \A i \in 1..5 : Flow[i] \in ToolNames
  /\ \A i, j \in 1..5 : Flow[i] = Flow[j] => i = j
  /\ Flow[4] = "apply_credit" /\ Flow[5] = "customer_outreach"
  /\ "merchant_status" \in ToolNames /\ "semantic_search" \in ToolNames
<1>1. DOMAIN Flow = 1..5
  BY DEF Flow
<1>2. /\ Flow[1] = "delivery_lookup" /\ Flow[2] = "escalation_history"
      /\ Flow[3] = "customer_lookup" /\ Flow[4] = "apply_credit" /\ Flow[5] = "customer_outreach"
  BY DEF Flow
<1>3. \A i, j \in 1..5 : Flow[i] = Flow[j] => i = j
  <2>1. \A i \in 1..5 : i = 1 \/ i = 2 \/ i = 3 \/ i = 4 \/ i = 5
    OBVIOUS
  <2>2. QED BY <1>2, <2>1
<1>4. QED BY <1>1, <1>2, <1>3 DEF ToolNames, ToSet

\* The deliveries of a batch that the table knows are not more than the batch.
LEMMA KnownOfBatch ==
  ASSUME NEW m \in Messages, m.batch # None
  PROVE  /\ Len(m.batch) \in Nat /\ DOMAIN m.batch = 1..Len(m.batch)
         /\ Known(m) \subseteq 1..Len(m.batch)
         /\ Cardinality(Known(m)) \in Nat /\ Cardinality(Known(m)) <= Len(m.batch)
<1>1. m.batch \in Seq(ToSet(m.batch))
  BY MessagesAssumption
<1>2. Len(m.batch) \in Nat /\ DOMAIN m.batch = 1..Len(m.batch)
  BY <1>1
<1>3. Known(m) \subseteq 1..Len(m.batch)
  BY <1>2 DEF Known
<1>4. IsFiniteSet(1..Len(m.batch)) /\ Cardinality(1..Len(m.batch)) = Len(m.batch)
  BY <1>2, CardInterval
<1>5. QED BY <1>2, <1>3, <1>4, FS_Subset, FS_CardinalityType

\* A batch: the merchant of the next delivery the table knows, then the reply.
LEMMA BatchNext ==
  ASSUME NEW m \in Messages, m.batch # None, NEW list \in Seq(ToolMessages), StepsOf(m, list)
  PROVE  /\ Of(list, "merchant_status") = 1..Len(list)
         /\ IF Len(list) < Cardinality(Known(m))
              THEN /\ Nth(Known(m), Len(list) + 1) \in Known(m)
                   /\ PlanNext(m, list) =
                        Call("merchant_status", MerchantOf[m.batch[Nth(Known(m), Len(list) + 1)]])
              ELSE PlanNext(m, list) = BatchReply(m, list)
<1>1. /\ Len(list) \in Nat /\ Len(m.batch) \in Nat /\ Known(m) \subseteq 1..Len(m.batch)
      /\ Cardinality(Known(m)) \in Nat
  BY KnownOfBatch
<1>2. Of(list, "merchant_status") = 1..Len(list)
  BY DEF StepsOf, Of
<1>3. Cardinality(Of(list, "merchant_status")) = Len(list)
  BY <1>1, <1>2, CardInterval
<1>4. PlanNext(m, list) = PlanBatch(m, list)
  BY DEF PlanNext
<1>5. CASE Len(list) < Cardinality(Known(m))
  <2>1. Len(list) + 1 \in 1..Cardinality(Known(m))
    BY <1>1, <1>5
  <2>2. Nth(Known(m), Len(list) + 1) \in Known(m)
    BY <1>1, <2>1, NthExists
  <2>3. QED BY <1>2, <1>3, <1>4, <1>5, <2>2 DEF PlanBatch, Known
<1>6. CASE ~(Len(list) < Cardinality(Known(m)))
  BY <1>2, <1>3, <1>4, <1>6 DEF PlanBatch, Known
<1>7. QED BY <1>5, <1>6

\* An investigation: the next step of the flow, as far as it goes.
LEMMA DeliveryNext ==
  ASSUME NEW m \in Messages, m.batch = None, m.delivery # None,
         NEW list \in Seq(ToolMessages), StepsOf(m, list)
  PROVE  \/ /\ Len(list) + 1 \in 1..(IF m.action THEN 5 ELSE 3)
            /\ PlanNext(m, list) = Call(Flow[Len(list) + 1],
                                        IF Len(list) + 1 <= 2 THEN m.delivery ELSE Customer(list))
            /\ Len(list) + 1 > 2 => Customer(list) \in Facts
         \/ PlanNext(m, list) = Final(IF m.action THEN ActionReport(list) ELSE Report(Customer(list)))
<1>1. m.action \in BOOLEAN
  BY MessagesAssumption
<1>2. Len(list) \in Nat /\ DOMAIN list = 1..Len(list) /\ Len(list) <= 5
  BY <1>1 DEF StepsOf
<1>3. \A i \in 1..5 : Flow[i] \in Called(list) <=> i <= Len(list)
  <2>1. \A j \in DOMAIN list : j \in 1..5 /\ list[j].tool = Flow[j]
    BY <1>2 DEF StepsOf
  <2>2. ASSUME NEW i \in 1..5, i <= Len(list) PROVE Flow[i] \in Called(list)
    BY <1>2, <2>1, <2>2 DEF Called
  <2>3. ASSUME NEW i \in 1..5, Flow[i] \in Called(list) PROVE i <= Len(list)
    <3>1. PICK j \in DOMAIN list : list[j].tool = Flow[i]
      BY <2>3 DEF Called
    <3>2. j = i
      BY <2>1, <3>1, FlowTools
    <3>3. QED BY <1>2, <3>2
  <2>4. QED BY <2>2, <2>3
<1>4. PlanNext(m, list) = PlanDelivery(m, list)
  BY DEF PlanNext
<1>5. CASE Todo(m, list) = {}
  BY <1>4, <1>5 DEF PlanDelivery
<1>6. CASE Todo(m, list) # {}
  <2> DEFINE n == Len(list) + 1
  <2>1. \A i \in Todo(m, list) : i \in 1..5 /\ i >= n
    BY <1>2, <1>3 DEF Todo
  <2>2. n \in Todo(m, list)
    BY <1>1, <1>2, <1>3, <1>6 DEF Todo
  <2>3. Least(Todo(m, list)) = n
    BY <1>2, <2>1, <2>2 DEF Least
  <2>4. n \in 1..(IF m.action THEN 5 ELSE 3) /\ (n > 2 => Customer(list) # None)
    BY <1>1, <1>2, <2>2 DEF Todo
  <2>5. ASSUME n > 2 PROVE Customer(list) \in Facts
    <3>1. Of(list, "delivery_lookup") = {1}
      <4>1. \A i \in DOMAIN list : i \in 1..5 /\ list[i].tool = Flow[i]
        BY <1>2 DEF StepsOf
      <4>2. 1 \in DOMAIN list /\ Flow[1] = "delivery_lookup"
        BY <1>2, <2>5 DEF Flow
      <4>3. QED BY <4>1, <4>2, FlowTools DEF Of
    <3>2. Least({1}) = 1
      BY DEF Least
    <3>3. Customer(list) = list[1].result
      BY <3>1, <3>2 DEF Customer
    <3>4. list # <<>>
      BY <1>2, <2>5
    <3>5. Customer(list) = DeliveryLookup(m.delivery)
      BY <3>3, <3>4 DEF StepsOf
    <3>6. QED BY <2>4, <2>5, <3>5 DEF DeliveryLookup, Facts
  <2>6. QED BY <1>4, <1>6, <2>3, <2>4, <2>5 DEF PlanDelivery
<1>7. QED BY <1>5, <1>6

\* Anything else: one search, or help.
LEMMA OtherNext ==
  ASSUME NEW m \in Messages, m.batch = None, m.delivery = None,
         NEW list \in Seq(ToolMessages), StepsOf(m, list)
  PROVE  \/ m.search /\ list = <<>> /\ PlanNext(m, list) = Call("semantic_search", m.query)
         \/ \E kind \in {"search", "help"} : PlanNext(m, list) = Final([kind |-> kind])
<1>1. m.search \in BOOLEAN
  BY MessagesAssumption
<1>2. CASE m.search
  <2>1. PlanNext(m, list) = PlanSearch(m, list)
    BY <1>2 DEF PlanNext
  <2>2. CASE list = <<>>
    BY <1>2, <2>1, <2>2 DEF PlanSearch, Called
  <2>3. CASE list # <<>>
    <3>1. 1 \in DOMAIN list /\ list[1].tool = "semantic_search"
      BY <2>3 DEF StepsOf
    <3>2. QED BY <2>1, <3>1 DEF PlanSearch, Called
  <2>4. QED BY <2>2, <2>3
<1>3. CASE ~m.search
  BY <1>3 DEF PlanNext
<1>4. QED BY <1>1, <1>2, <1>3

\* What ends a turn is a reply.
LEMMA PlannedReply ==
  ASSUME NEW m \in Messages, NEW list \in Seq(ToolMessages), StepsOf(m, list),
         PlanNext(m, list).type = "final"
  PROVE  \E text : PlanNext(m, list) = Final(text)
<1>1. \A tool, about : Call(tool, about).type # "final"
  BY DEF Call
<1>2. CASE m.batch # None
  BY <1>1, <1>2, BatchNext DEF BatchReply
<1>3. CASE m.batch = None /\ m.delivery # None
  BY <1>1, <1>3, DeliveryNext
<1>4. CASE m.batch = None /\ m.delivery = None
  BY <1>1, <1>4, OtherNext
<1>5. QED BY <1>2, <1>3, <1>4

\* What a planned call would leave in the transcript.
Told(call) == [tool |-> call.tool, result |-> ToolResult(call)]

\* A planned call is a call, and its result is the next step of the flow.
LEMMA PlannedCall ==
  ASSUME NEW m \in Messages, NEW list \in Seq(ToolMessages), StepsOf(m, list),
         PlanNext(m, list).type = "tool_call"
  PROVE  /\ PlanNext(m, list) \in Calls
         /\ Told(PlanNext(m, list)) \in ToolMessages
         /\ StepsOf(m, Append(list, Told(PlanNext(m, list))))
<1> DEFINE call == PlanNext(m, list)
           told == Told(call)
           next == Append(list, told)
<1>1. m.action \in BOOLEAN /\ m.search \in BOOLEAN
  BY MessagesAssumption
<1>2. \A text : Final(text).type # "tool_call"
  BY DEF Final
<1>3. Len(list) \in Nat /\ DOMAIN list = 1..Len(list)
  OBVIOUS
<1>4. /\ Len(next) = Len(list) + 1 /\ DOMAIN next = 1..(Len(list) + 1)
      /\ \A i \in DOMAIN list : next[i] = list[i]
      /\ next[Len(list) + 1] = told
  BY DEF Told
<1>5. CASE m.batch # None
  <2>1. /\ Len(list) < Cardinality(Known(m))
        /\ Nth(Known(m), Len(list) + 1) \in Known(m)
        /\ call = Call("merchant_status", MerchantOf[m.batch[Nth(Known(m), Len(list) + 1)]])
    BY <1>2, <1>5, BatchNext DEF BatchReply
  <2>0. Cardinality(Known(m)) \in Nat
    BY <1>5, KnownOfBatch
  <2> DEFINE merchant == MerchantOf[m.batch[Nth(Known(m), Len(list) + 1)]]
  <2>2. merchant \in Facts
    BY <2>1 DEF Known, Facts
  <2>3. call \in Calls
    BY <2>1, <2>2, FlowTools DEF Call, Calls
  <2>4. told = [tool |-> "merchant_status", result |-> merchant]
    BY <2>1 DEF Told, Call, ToolResult, MerchantStatus
  <2>5. told \in ToolMessages
    BY <2>2, <2>4, FlowTools DEF ToolMessages
  <2>6. /\ Len(next) <= Cardinality(Known(m))
        /\ \A i \in DOMAIN next :
             next[i].tool = "merchant_status" /\ next[i].result = MerchantOf[m.batch[Nth(Known(m), i)]]
    <3>1. \A i \in DOMAIN list :
            next[i].tool = "merchant_status" /\ next[i].result = MerchantOf[m.batch[Nth(Known(m), i)]]
      BY <1>4, <1>5 DEF StepsOf
    <3>2. next[Len(list) + 1].tool = "merchant_status" /\ next[Len(list) + 1].result = merchant
      BY <1>4, <2>4
    <3>3. QED BY <1>3, <1>4, <2>0, <2>1, <3>1, <3>2
  <2>7. QED BY <1>5, <2>3, <2>5, <2>6 DEF StepsOf
<1>6. CASE m.batch = None /\ m.delivery # None
  <2> DEFINE n == Len(list) + 1
             about == IF n <= 2 THEN m.delivery ELSE Customer(list)
  <2>1. /\ n \in 1..(IF m.action THEN 5 ELSE 3)
        /\ call = Call(Flow[n], about)
        /\ n > 2 => Customer(list) \in Facts
    BY <1>2, <1>6, DeliveryNext
  <2>2. about \in Facts
    BY <1>3, <2>1 DEF Facts
  <2>3. n \in 1..5
    BY <1>1, <2>1
  <2>4. call \in Calls
    BY <2>1, <2>2, <2>3, FlowTools DEF Call, Calls
  <2>5. told = [tool |-> Flow[n], result |-> ToolResult(call)]
    BY <2>1 DEF Told, Call
  <2>6. ToolResult(call) \in Facts \cup {None, "done"}
    BY <2>1, <2>2 DEF Call, ToolResult, DeliveryLookup, MerchantStatus, Facts
  <2>7. told \in ToolMessages
    BY <2>3, <2>5, <2>6, FlowTools DEF ToolMessages
  <2>8. \A i \in DOMAIN next : next[i].tool = Flow[i]
    <3>1. \A i \in DOMAIN list : next[i].tool = Flow[i]
      BY <1>4, <1>6 DEF StepsOf
    <3>2. next[n].tool = Flow[n]
      BY <1>4, <2>5
    <3>3. QED BY <1>3, <1>4, <3>1, <3>2
  <2>9. next[1].result = DeliveryLookup(m.delivery)
    <3>1. CASE list = <<>>
      <4>1. n = 1 /\ next[1] = told
        BY <1>4, <3>1
      <4>2. call = Call("delivery_lookup", m.delivery)
        BY <2>1, <4>1 DEF Flow
      <4>3. QED BY <2>5, <4>1, <4>2 DEF Call, ToolResult
    <3>2. CASE list # <<>>
      <4>1. 1 \in DOMAIN list
        BY <1>3, <3>2
      <4>2. QED BY <1>4, <1>6, <3>2, <4>1 DEF StepsOf
    <3>3. QED BY <3>1, <3>2
  <2>10. Len(next) <= IF m.action THEN 5 ELSE 3
    BY <1>1, <1>4, <2>1
  <2>11. QED BY <1>6, <2>4, <2>7, <2>8, <2>9, <2>10 DEF StepsOf
<1>7. CASE m.batch = None /\ m.delivery = None
  <2>1. m.search /\ list = <<>> /\ call = Call("semantic_search", m.query)
    BY <1>2, <1>7, OtherNext
  <2>2. m.query \in Facts
    BY DEF Facts
  <2>3. call \in Calls
    BY <2>1, <2>2, FlowTools DEF Call, Calls
  <2>4. told = [tool |-> "semantic_search", result |-> "done"]
    BY <2>1 DEF Told, Call, ToolResult
  <2>5. told \in ToolMessages
    BY <2>4, FlowTools DEF ToolMessages
  <2>6. Len(next) = 1 /\ \A i \in DOMAIN next : next[i].tool = "semantic_search"
    BY <1>4, <2>1, <2>4
  <2>7. QED BY <1>7, <2>1, <2>3, <2>5, <2>6 DEF StepsOf
<1>8. QED BY <1>5, <1>6, <1>7

-----------------------------------------------------------------------------
(* The bills.                                                               *)

CostInv == CostTypes /\ BillInv

LEMMA InitCosts == Init => CostInv
<1> SUFFICES ASSUME Init PROVE CostInv
  OBVIOUS
<1>1. CostTypes
  BY EmptySeq DEF Init, CostTypes, EmptyLedger, Ledgers
<1>2. \A t \in Tenants, item \in Items : EntriesOf(t, item) = {}
  BY DEF Init, EmptyLedger, EntriesOf
<1>3. \A t \in Tenants, item \in Items : Cardinality(EntriesOf(t, item)) = 0
  BY <1>2, FS_EmptySet
<1>4. \A p \in Purposes : p \in Items /\ inFlight[p] = 0 /\ used[p] = 0 /\ Served(p) = 0
  BY DEF Init, Items, Served
<1>5. \A p \in Purposes : Billed(p) = 0
  BY <1>4 DEF Billed, CostCents, Purposes
<1>6. LedgerExact
  BY <1>3, <1>4, <1>5 DEF LedgerExact, Init, EmptyLedger, Tenants, Purposes
<1>7. inFlight["tool"] = 0
  BY DEF Init, Items
<1>8. QED BY <1>1, <1>4, <1>6, <1>7 DEF CostInv, BillInv

\* Completions that were made and sent for since leave what was served alone.
LEMMA BillUndisturbed ==
  ASSUME CostInv, UNCHANGED ledger,
         inFlight' \in [Items -> Nat], used' \in [Purposes -> Nat],
         inFlight'["tool"] = 0,
         \A p \in Purposes : inFlight'[p] <= used'[p] /\ Served(p)' = Served(p)
  PROVE  CostInv'
<1>1. CostTypes'
  BY DEF CostInv, CostTypes
<1>2. \A t, item : EntriesOf(t, item)' = EntriesOf(t, item)
  BY DEF EntriesOf
<1>3. \A p \in Purposes : Billed(p)' = Billed(p)
  BY DEF Billed
<1>4. LedgerExact'
  BY <1>2, <1>3 DEF CostInv, BillInv, LedgerExact, Purposes
<1>5. QED BY <1>1, <1>4 DEF CostInv, BillInv

LEMMA CallLLMBilled ==
  ASSUME CostInv, NEW p \in Purposes, CallLLM(p)
  PROVE  CostInv'
<1>1. inFlight \in [Items -> Nat] /\ used \in [Purposes -> Nat]
  BY DEF CostInv, CostTypes
<1>2. p \in Items /\ p # "tool" /\ "tool" \in Items /\ Purposes \subseteq Items
  BY DEF Items, Purposes
<1>3. inFlight' \in [Items -> Nat] /\ used' \in [Purposes -> Nat] /\ inFlight'["tool"] = 0
  BY <1>1, <1>2 DEF CallLLM, CostInv, BillInv
<1>4. \A q \in Purposes : inFlight'[q] <= used'[q] /\ Served(q)' = Served(q)
  BY <1>1, <1>2 DEF CallLLM, CostInv, BillInv, Served
<1>5. QED BY <1>3, <1>4, BillUndisturbed DEF CallLLM

\* A tool call is billed what it asks LLMService for: the answer says that the
\* call itself costs nothing.
LEMMA ToolBilledOnce ==
  ASSUME CostInv, NEW tool, ToolBilled(tool)
  PROVE  CostInv'
<1>1. ToolCents(tool) = 0
  BY NoneAssumption DEF ToolCents, AnsweredCents
<1>2. inFlight \in [Items -> Nat] /\ used \in [Purposes -> Nat]
  BY DEF CostInv, CostTypes
<1>3. "tool" \in Items /\ "semantic-search" \in Purposes /\ Purposes \subseteq Items /\ "tool" \notin Purposes
  BY DEF Items, Purposes
<1>4. CASE tool = "semantic_search"
  <2>1. inFlight' = [inFlight EXCEPT !["semantic-search"] = @ + 1, !["tool"] = @]
    BY <1>1, <1>4 DEF ToolBilled
  <2>2. used' = [used EXCEPT !["semantic-search"] = @ + 1]
    BY <1>4 DEF ToolBilled
  <2>3. inFlight' \in [Items -> Nat] /\ used' \in [Purposes -> Nat] /\ inFlight'["tool"] = 0
    BY <1>2, <1>3, <2>1, <2>2 DEF CostInv, BillInv
  <2>4. \A q \in Purposes : inFlight'[q] <= used'[q] /\ Served(q)' = Served(q)
    BY <1>2, <1>3, <2>1, <2>2 DEF CostInv, BillInv, Served
  <2>5. QED BY <2>3, <2>4, BillUndisturbed DEF ToolBilled
<1>5. CASE tool # "semantic_search"
  <2>1. inFlight' = inFlight /\ used' = used
    BY <1>1, <1>2, <1>3, <1>5 DEF ToolBilled
  <2>2. \A q \in Purposes : inFlight'[q] <= used'[q] /\ Served(q)' = Served(q)
    BY <2>1 DEF CostInv, BillInv, Served
  <2>3. QED BY <1>2, <2>1, <2>2, BillUndisturbed DEF ToolBilled, CostInv, BillInv
<1>6. QED BY <1>4, <1>5

\* What a ledger keeps: the entry is lost from the front when it is full.
LEMMA KeptEntries ==
  ASSUME NEW e \in Seq(Items), Len(e) <= MaxEntries, NEW item \in Items
  PROVE  /\ Kept(Append(e, item)) \in Seq(Items)
         /\ Len(Kept(Append(e, item))) <= MaxEntries
         /\ Len(Kept(Append(e, item))) < MaxEntries =>
              Len(e) < MaxEntries /\ Kept(Append(e, item)) = Append(e, item)
<1>1. MaxEntries \in Nat /\ MaxEntries > 0 /\ Len(e) \in Nat
  OBVIOUS
<1>2. Append(e, item) \in Seq(Items) /\ Len(Append(e, item)) = Len(e) + 1
  OBVIOUS
<1>3. Tail(Append(e, item)) \in Seq(Items) /\ Len(Tail(Append(e, item))) = Len(e)
  BY <1>1, <1>2
<1>4. CASE Len(e) = MaxEntries
  BY <1>1, <1>2, <1>3, <1>4 DEF Kept
<1>5. CASE Len(e) # MaxEntries
  BY <1>1, <1>2, <1>5 DEF Kept
<1>6. QED BY <1>4, <1>5

\* A send that arrives is entered once, in the ledger of the tenant it is for.
LEMMA RecordServes ==
  ASSUME CostInv, NEW item \in Items, Record(item)
  PROVE  CostInv'
<1> DEFINE t == TenantOf(item)
           e == ledger[t].entries
           new == Kept(Append(e, item))
<1>1. /\ inFlight \in [Items -> Nat] /\ used \in [Purposes -> Nat]
      /\ ledger \in [Tenants -> Ledgers] /\ \A u \in Tenants : Len(ledger[u].entries) <= MaxEntries
      /\ \A p \in Purposes : inFlight[p] <= used[p]
      /\ inFlight["tool"] = 0
  BY DEF CostInv, CostTypes, BillInv
<1>2. item \in Purposes /\ item # "tool" /\ t \in Tenants /\ Purposes \subseteq Items
  <2>1. item # "tool"
    BY <1>1 DEF Record
  <2>2. QED BY <2>1 DEF Items, TenantOf, Tenants, Purposes
<1>3. /\ inFlight' = [inFlight EXCEPT ![item] = @ - 1] /\ inFlight[item] > 0 /\ used' = used
      /\ ledger' = [ledger EXCEPT ![t] = [total |-> ledger[t].total + CostCents(item), entries |-> new]]
  BY DEF Record
<1>4. CostCents(item) \in Nat
  BY <1>2 DEF CostCents, Purposes
<1>5. /\ ledger[t].total \in Nat /\ e \in Seq(Items) /\ Len(e) <= MaxEntries
  BY <1>1, <1>2 DEF Ledgers
<1>6. /\ new \in Seq(Items) /\ Len(new) <= MaxEntries
      /\ Len(new) < MaxEntries => Len(e) < MaxEntries /\ new = Append(e, item)
  BY <1>5, KeptEntries
<1>7. /\ ledger'[t] = [total |-> ledger[t].total + CostCents(item), entries |-> new]
      /\ \A u \in Tenants : u # t => ledger'[u] = ledger[u]
  BY <1>1, <1>2, <1>3
<1>8. inFlight' \in [Items -> Nat] /\ inFlight'["tool"] = 0
  BY <1>1, <1>2, <1>3
<1>9. CostTypes'
  <2>1. ledger'[t] \in Ledgers
    BY <1>4, <1>5, <1>6, <1>7 DEF Ledgers
  <2>2. ledger' \in [Tenants -> Ledgers]
    BY <1>1, <1>2, <1>3, <2>1
  <2>3. \A u \in Tenants : Len(ledger'[u].entries) <= MaxEntries
    BY <1>1, <1>6, <1>7
  <2>4. QED BY <1>1, <1>3, <1>8, <2>2, <2>3 DEF CostTypes
<1>10. /\ Served(item) \in Nat /\ Served(item)' = Served(item) + 1
       /\ \A p \in Purposes : p # item => Served(p)' = Served(p)
       /\ \A p \in Purposes : inFlight'[p] <= used'[p]
  BY <1>1, <1>2, <1>3 DEF Served
<1>11. /\ Billed(item)' = Billed(item) + CostCents(item)
       /\ \A p \in Purposes : p # item => Billed(p)' = Billed(p)
       /\ \A p \in Purposes : Billed(p) \in Nat
  <2>1. Billed(item)' = Billed(item) + CostCents(item)
    <3>1. CostCents(item) \in {1, 2, 5}
      BY DEF CostCents
    <3>2. QED BY <1>10, <3>1 DEF Billed
  <2>2. \A p \in Purposes : Served(p) \in Nat
    BY <1>1, <1>2 DEF Served
  <2>3. \A p \in Purposes : CostCents(p) \in {1, 2, 5}
    BY DEF CostCents
  <2>4. QED BY <1>10, <2>1, <2>2, <2>3 DEF Billed
<1>12. /\ ledger'["platform"].total = Billed("guardrail-pii")'
       /\ ledger'["demo-tenant"].total = Billed("agent-planning")' + Billed("semantic-search")'
  <2>1. /\ ledger["platform"].total = Billed("guardrail-pii")
        /\ ledger["demo-tenant"].total = Billed("agent-planning") + Billed("semantic-search")
    BY DEF CostInv, BillInv, LedgerExact
  <2>2. Purposes = {"agent-planning", "guardrail-pii", "semantic-search"} /\ Tenants = {"demo-tenant", "platform"}
    BY DEF Purposes, Tenants
  <2>3. CASE item = "guardrail-pii"
    <3>1. t = "platform"
      BY <2>3 DEF TenantOf
    <3>2. QED BY <1>7, <1>11, <2>1, <2>2, <2>3, <3>1
  <2>4. CASE item # "guardrail-pii"
    <3>1. t = "demo-tenant"
      BY <2>4 DEF TenantOf
    <3>2. CostCents(item) \in Nat
      BY <1>4
    <3>3. QED BY <1>2, <1>7, <1>11, <2>1, <2>2, <2>4, <3>1, <3>2
  <2>5. QED BY <2>3, <2>4
<1>13. ASSUME NEW u \in Tenants, NEW x \in Items, Len(ledger'[u].entries) < MaxEntries
       PROVE  Cardinality(EntriesOf(u, x)') = IF x \in Purposes /\ TenantOf(x) = u THEN Served(x)' ELSE 0
  <2> DEFINE count == IF x \in Purposes /\ TenantOf(x) = u THEN Served(x) ELSE 0
  <2>1. \A v \in Tenants, y \in Items :
          Len(ledger[v].entries) < MaxEntries =>
            Cardinality(EntriesOf(v, y)) = IF y \in Purposes /\ TenantOf(y) = v THEN Served(y) ELSE 0
    BY DEF CostInv, BillInv, LedgerExact
  <2>2. CASE u # t
    <3>1. EntriesOf(u, x)' = EntriesOf(u, x)
      BY <1>7, <2>2 DEF EntriesOf
    <3>2. TenantOf(x) = u => x # item
      BY <2>2
    <3>3. Cardinality(EntriesOf(u, x)) = count
      BY <1>7, <1>13, <2>1, <2>2
    <3>4. QED BY <1>10, <3>1, <3>2, <3>3
  <2>3. CASE u = t
    <3>1. Len(e) < MaxEntries /\ ledger'[t].entries = Append(e, item)
      BY <1>6, <1>7, <1>13, <2>3
    <3>2. Cardinality(EntriesOf(t, x)) = count
      BY <1>2, <2>1, <2>3, <3>1
    <3>3. EntriesOf(t, x)' = IF x = item THEN EntriesOf(t, x) \cup {Len(e) + 1} ELSE EntriesOf(t, x)
      <4>1. /\ DOMAIN Append(e, item) = 1..(Len(e) + 1) /\ DOMAIN e = 1..Len(e) /\ Len(e) \in Nat
            /\ \A i \in 1..Len(e) : Append(e, item)[i] = e[i]
            /\ Append(e, item)[Len(e) + 1] = item
        <5> HIDE DEF e
        <5>1. QED BY <1>5, AppendProperties
      <4>2. EntriesOf(t, x)' = {i \in DOMAIN Append(e, item) : Append(e, item)[i] = x}
        BY <3>1 DEF EntriesOf
      <4>3. EntriesOf(t, x) = {i \in DOMAIN e : e[i] = x}
        BY DEF EntriesOf
      <4>4. QED BY <4>1, <4>2, <4>3
    <3>4. IsFiniteSet(EntriesOf(t, x)) /\ Len(e) + 1 \notin EntriesOf(t, x)
      <4>1. DOMAIN e = 1..Len(e) /\ Len(e) \in Nat
        BY <1>5
      <4>2. IsFiniteSet(DOMAIN e)
        BY <4>1, CardInterval
      <4>3. EntriesOf(t, x) \in SUBSET (DOMAIN e)
        BY DEF EntriesOf
      <4>4. QED BY <4>1, <4>2, <4>3, FS_Subset
    <3>5. CASE x = item
      <4>1. Cardinality(EntriesOf(t, x)') = Served(item) + 1
        <5>1. Cardinality(EntriesOf(t, x) \cup {Len(e) + 1}) = Cardinality(EntriesOf(t, x)) + 1
          BY <3>4, FS_AddElement
        <5>2. QED BY <1>2, <2>3, <3>2, <3>3, <3>5, <5>1
      <4>2. QED BY <1>2, <1>10, <2>3, <3>5, <4>1
    <3>6. CASE x # item
      BY <1>10, <2>3, <3>2, <3>3, <3>6
    <3>7. QED BY <3>5, <3>6
  <2>4. QED BY <2>2, <2>3
<1>14. LedgerExact'
  BY <1>12, <1>13 DEF LedgerExact
<1>15. QED BY <1>8, <1>9, <1>10, <1>14 DEF CostInv, BillInv

-----------------------------------------------------------------------------
(* The session.                                                             *)

\* The statuses and places of a run are different words.
LEMMA RunTypes ==
  /\ \A pc \in Places, n \in 0..MaxSteps, call \in Calls \cup {None}, bypass \in BOOLEAN :
       Run(pc, n, call, bypass) \in Runs
  /\ NoRun \in Runs
  /\ \A reason \in Reasons : /\ Failing(reason) \in Runs
                             /\ Failing(reason).pc = "failing" /\ Failing(reason).step = 0
                             /\ Failing(reason).reason = reason
<1>1. 0 \in 0..MaxSteps
  OBVIOUS
<1>2. QED BY <1>1 DEF Run, NoRun, Failing, Runs, Places, Reasons

LEMMA InitSession == Init => IInv
<1> SUFFICES ASSUME Init PROVE IInv
  OBVIOUS
<1>1. SessionTypes
  BY RunTypes, EmptySeq DEF Init, SessionTypes, Reasons
<1>2. TranscriptInv
  BY DEF Init, TranscriptInv
<1>3. TurnInv /\ ReplyInv
  BY DEF Init, TurnInv, ReplyInv, Interrupted, NoRun, Run
<1>4. QED BY <1>1, <1>2, <1>3 DEF IInv

\* What a turn that ends or pauses, or is about to fail, leaves behind.
LEMMA TurnStops ==
  ASSUME IInv, status' \in {"complete", "failed", "blocked_appealable"},
         \/ run' = NoRun
         \/ status' = "failed" /\ \E reason \in Reasons : run' = Failing(reason),
         failureReason' \in Reasons, pendingAppeal' \in Blocks \cup {None},
         status' = "complete" => PlanNext(message, steps) = Final(reply'),
         status' # "complete" => reply' = reply,
         run.pc \notin {"idle", "failing"},
         status' = "blocked_appealable" =>
           pendingAppeal' = [call |-> run.call, post |-> posts] /\ run.pc = "gateway",
         UNCHANGED <<message, posts, steps, ran>>
  PROVE  IInv'
<1> USE DEF IInv
<1>1. SessionTypes'
  BY RunTypes DEF SessionTypes
<1>2. TranscriptInv'
  BY DEF TranscriptInv, StepsOf, Known
<1>3. status = "busy" /\ message # None /\ reply = None
  BY DEF TurnInv
<1>4. TurnInv'
  <2>1. run'.pc \in {"idle", "failing"} /\ run'.step = 0 /\ (run'.pc = "failing" => status' = "failed")
    BY RunTypes DEF NoRun, Run
  <2>2. Len(steps) \in Nat /\ MaxSteps > 0
    BY DEF SessionTypes
  <2>3. run.pc = "gateway" => run.call = PlanNext(message, steps) /\ run.call # None
    BY DEF TurnInv
  <2>4. PlanNext(message, steps)' = PlanNext(message, steps)
    BY DEF PlanNext, PlanBatch, PlanDelivery, PlanSearch, BatchReply, Todo, Customer, Of, Called,
           ActionReport, Report
  <2>5. Interrupted' =>
          /\ pendingAppeal' # None /\ pendingAppeal'.post = posts'
          /\ pendingAppeal'.call = PlanNext(message, steps)'
    <3>1. run.pc = "gateway" => run.call \in Calls
      BY <2>3 DEF SessionTypes, Runs
    <3>2. posts \in Nat
      BY DEF SessionTypes
    <3>3. run.pc = "gateway" => [call |-> run.call, post |-> posts] \in Blocks
      BY <3>1, <3>2 DEF Blocks
    <3>4. QED BY <2>3, <2>4, <3>3, NoneAssumption DEF Interrupted
  <2>6. status' # "busy" /\ (Interrupted' => reply' = None)
    BY <1>3 DEF Interrupted
  <2>7. QED BY <1>3, <2>1, <2>2, <2>5, <2>6 DEF TurnInv
<1>5. ReplyInv'
  <2>1. PlanNext(message, steps)' = PlanNext(message, steps)
    BY DEF PlanNext, PlanBatch, PlanDelivery, PlanSearch, BatchReply, Todo, Customer, Of, Called,
           ActionReport, Report
  <2>2. QED BY <1>3, <2>1 DEF ReplyInv
<1>6. QED BY <1>1, <1>2, <1>4, <1>5

\* A turn that goes on, or is taken up again, with the call it was about to make.
LEMMA TurnGoesOn ==
  ASSUME IInv, status = "busy" \/ Interrupted, status' = "busy",
         run' \in Runs, run'.pc \notin {"idle", "failing"}, run'.step <= Len(steps),
         run'.pc # "loop" => run'.step < MaxSteps,
         run'.pc # "loop" => run'.call = PlanNext(message, steps) /\ run'.call # None,
         UNCHANGED <<failureReason, pendingAppeal, transcript>>
  PROVE  IInv'
<1> USE DEF IInv, transcript
<1>1. SessionTypes'
  BY DEF SessionTypes
<1>2. TranscriptInv'
  BY DEF TranscriptInv, StepsOf, Known
<1>3. message # None /\ reply = None
  BY DEF TurnInv
<1>4. TurnInv'
  BY <1>3 DEF TurnInv, Interrupted
<1>5. ReplyInv'
  BY <1>3 DEF ReplyInv
<1>6. QED BY <1>1, <1>2, <1>4, <1>5

\* The call of a run is what the planner says, and its run is one of a turn.
LEMMA CallOfRun ==
  ASSUME IInv, run.pc \notin {"idle", "loop", "failing"}
  PROVE  /\ status = "busy" /\ message \in Messages /\ steps \in Seq(ToolMessages)
         /\ StepsOf(message, steps)
         /\ run.call = PlanNext(message, steps) /\ run.call \in Calls /\ run.call # None
         /\ run.call.type = "tool_call"
         /\ run.step <= Len(steps) /\ run.step < MaxSteps /\ run.step \in Nat
<1>1. run.call \in Calls
  BY DEF IInv, TurnInv, SessionTypes, Runs
<1>2. QED BY <1>1 DEF IInv, TurnInv, TranscriptInv, SessionTypes, Runs, Calls

LEMMA SendMessageKeeps == ASSUME IInv, SendMessage PROVE IInv'
<1> USE DEF IInv, SendMessage
<1>1. message' \in Messages /\ message' # None
  BY NoneAssumption
<1>2. SessionTypes'
  <2>1. Run("loop", 0, None, FALSE) \in Runs
    BY DEF Run, Runs, Places, Reasons
  <2>2. posts' \in 0..MaxPosts
    BY DEF SessionTypes
  <2>3. QED BY <1>1, <2>1, <2>2, EmptySeq DEF SessionTypes
<1>3. TranscriptInv'
  <2>1. message'.batch # None => 0 <= Cardinality(Known(message'))
    BY <1>1, KnownOfBatch
  <2>2. StepsOf(message', <<>>)
    BY <2>1 DEF StepsOf
  <2>3. QED BY <1>1, <2>2 DEF TranscriptInv
<1>4. TurnInv' /\ ReplyInv'
  BY <1>1 DEF TurnInv, ReplyInv, Interrupted, Run
<1>5. QED BY <1>2, <1>3, <1>4

LEMMA ResetKeeps == ASSUME IInv, Reset PROVE IInv'
<1> USE DEF IInv, Reset
<1>1. SessionTypes'
  BY EmptySeq DEF SessionTypes, Reasons
<1>2. TranscriptInv'
  BY DEF TranscriptInv
<1>3. TurnInv' /\ ReplyInv'
  BY DEF TurnInv, ReplyInv, Interrupted
<1>4. QED BY <1>1, <1>2, <1>3

LEMMA SetFailureReasonKeeps == ASSUME IInv, SetFailureReason PROVE IInv'
<1> USE DEF IInv, SetFailureReason, transcript
<1>1. status = "failed" /\ run.reason \in Reasons /\ run'.pc = "idle" /\ run'.step = 0
  BY DEF TurnInv, SessionTypes, Runs, NoRun, Run
<1>2. SessionTypes' /\ TranscriptInv'
  <2>1. SessionTypes'
    BY <1>1, RunTypes DEF SessionTypes
  <2>2. TranscriptInv'
    BY DEF TranscriptInv, StepsOf, Known
  <2>3. QED BY <2>1, <2>2
<1>3. TurnInv' /\ ReplyInv'
  BY <1>1 DEF TurnInv, ReplyInv, Interrupted, SessionTypes
<1>4. QED BY <1>2, <1>3

\* A tool that ran is the next step of the flow in the transcript.
LEMMA ToolOkKeeps == ASSUME IInv, ToolOk PROVE IInv'
<1>1. /\ status = "busy" /\ message \in Messages /\ steps \in Seq(ToolMessages)
      /\ StepsOf(message, steps)
      /\ run.call = PlanNext(message, steps) /\ run.call \in Calls /\ run.call.type = "tool_call"
      /\ run.step <= Len(steps) /\ run.step < MaxSteps /\ run.step \in Nat
  BY CallOfRun DEF ToolOk, RunTool
<1>2. /\ ToolMessage = Told(run.call) /\ ToolMessage \in ToolMessages
      /\ StepsOf(message, Append(steps, ToolMessage))
  BY <1>1, PlannedCall DEF ToolMessage, Told
<1>3. /\ steps' = Append(steps, ToolMessage) /\ ran' = Append(ran, run.call.tool)
      /\ run' = Run("loop", IF run.bypass THEN 0 ELSE run.step + 1, None, FALSE)
      /\ UNCHANGED <<status, failureReason, message, posts, reply>>
      /\ pendingAppeal' = IF run.bypass THEN None ELSE pendingAppeal
  BY DEF ToolOk, RunTool
<1>4. steps' \in Seq(ToolMessages) /\ Len(steps') = Len(steps) + 1 /\ DOMAIN steps' = 1..(Len(steps) + 1)
  BY <1>1, <1>2, <1>3
<1>5. ran = [i \in DOMAIN steps |-> steps[i].tool] /\ Len(ran) = Len(steps) /\ ran \in Seq(ToolNames)
  <2>1. ran = [i \in DOMAIN steps |-> steps[i].tool] /\ ran \in Seq(ToolNames)
    BY DEF IInv, TranscriptInv, SessionTypes
  <2>2. QED BY <1>1, <2>1
<1>6. SessionTypes'
  <2>1. (IF run.bypass THEN 0 ELSE run.step + 1) \in 0..MaxSteps
    BY <1>1
  <2>2. run' \in Runs
    BY <1>3, <2>1 DEF Run, Runs, Places, Reasons
  <2>3. ran' \in Seq(ToolNames)
    BY <1>1, <1>3, <1>5 DEF Calls
  <2>4. QED BY <1>1, <1>3, <1>4, <2>2, <2>3 DEF IInv, SessionTypes
<1>7. TranscriptInv'
  <2>1. ran' = [i \in DOMAIN steps' |-> steps'[i].tool]
    <3>1. /\ Len(ran') = Len(steps) + 1 /\ DOMAIN ran' = 1..(Len(steps) + 1)
          /\ \A i \in 1..Len(steps) : ran'[i] = ran[i]
          /\ ran'[Len(steps) + 1] = run.call.tool
      BY <1>1, <1>3, <1>5 DEF Calls
    <3>2. /\ \A i \in 1..Len(steps) : steps'[i] = steps[i]
          /\ steps'[Len(steps) + 1] = ToolMessage
      BY <1>1, <1>2, <1>3
    <3>3. \A i \in 1..(Len(steps) + 1) : ran'[i] = steps'[i].tool
      <4>1. \A i \in 1..Len(steps) : ran'[i] = steps'[i].tool
        <5>1. DOMAIN steps = 1..Len(steps)
          BY <1>1
        <5>2. \A i \in 1..Len(steps) : ran[i] = steps[i].tool
          BY <1>5, <5>1
        <5>3. QED BY <3>1, <3>2, <5>2
      <4>2. ran'[Len(steps) + 1] = steps'[Len(steps) + 1].tool
        BY <3>1, <3>2 DEF ToolMessage
      <4>3. Len(steps) \in Nat
        BY <1>1
      <4>4. \A i \in 1..(Len(steps) + 1) : i \in 1..Len(steps) \/ i = Len(steps) + 1
        BY <4>3
      <4>5. QED BY <4>1, <4>2, <4>4
    <3>4. ran' = [i \in 1..(Len(steps) + 1) |-> ran'[i]]
      BY <1>1, <1>3, <1>5, <3>1 DEF Calls
    <3>5. QED BY <1>4, <3>3, <3>4
  <2>2. message' = message /\ message # None
    BY <1>1, <1>3, NoneAssumption
  <2>3. StepsOf(message', steps')
    BY <1>2, <1>3, <2>2 DEF StepsOf, Known
  <2>4. QED BY <2>1, <2>2, <2>3 DEF TranscriptInv
<1>8. TurnInv' /\ ReplyInv'
  <2>1. message # None /\ reply = None
    BY <1>1 DEF IInv, TurnInv
  <2>2. run'.pc = "loop" /\ run'.step <= Len(steps')
    BY <1>1, <1>3, <1>4 DEF Run
  <2>3. QED BY <1>1, <1>3, <2>1, <2>2 DEF TurnInv, ReplyInv, Interrupted
<1>9. QED BY <1>6, <1>7, <1>8 DEF IInv

LEMMA SessionUntouched ==
  ASSUME IInv, UNCHANGED <<status, failureReason, pendingAppeal, transcript, run>>
  PROVE  IInv'
<1> USE DEF IInv, transcript
<1>1. SessionTypes' /\ TranscriptInv'
  BY DEF SessionTypes, TranscriptInv, StepsOf, Known
<1>2. TurnInv' /\ ReplyInv'
  BY DEF TurnInv, ReplyInv, Interrupted
<1>3. QED BY <1>1, <1>2

\* Every step of the session keeps what the planner reads in order.
LEMMA NextKeepsSession == IInv /\ [Next]_vars => IInv'
<1> SUFFICES ASSUME IInv, [Next]_vars PROVE IInv'
  OBVIOUS
<1>1. CASE SendMessage
  BY <1>1, SendMessageKeeps
<1>2. CASE Reset
  BY <1>2, ResetKeeps
<1>3. CASE RequestAppeal
  <2>1. /\ pendingAppeal \in Blocks /\ pendingAppeal.call \in Calls
        /\ pendingAppeal.call = PlanNext(message, steps) /\ Interrupted
    BY <1>3 DEF RequestAppeal, IInv, SessionTypes, TurnInv, Interrupted, Blocks
  <2>2. 0 \in 0..MaxSteps /\ 0 < MaxSteps /\ 0 <= Len(steps)
    BY DEF IInv, SessionTypes
  <2>3. run' = Run("appeal", 0, pendingAppeal.call, TRUE) /\ run' \in Runs
    BY <1>3, <2>1, <2>2, RunTypes DEF RequestAppeal, Places
  <2>4. run'.pc = "appeal" /\ run'.step = 0 /\ run'.call = PlanNext(message, steps) /\ run'.call # None
    BY <2>1, <2>3, NoneAssumption DEF Run
  <2>5. QED BY <1>3, <2>1, <2>2, <2>3, <2>4, TurnGoesOn DEF RequestAppeal
<1>4. CASE PlanFinal
  <2>1. PlanNext(message, steps).type = "final" /\ reply' = PlanNext(message, steps).reply
    BY <1>4 DEF PlanFinal
  <2>2. message \in Messages /\ steps \in Seq(ToolMessages) /\ StepsOf(message, steps)
    BY <1>4 DEF PlanFinal, IInv, TurnInv, TranscriptInv, SessionTypes
  <2>3. PICK text : PlanNext(message, steps) = Final(text)
    BY <2>1, <2>2, PlannedReply
  <2>4. PlanNext(message, steps) = Final(reply')
    BY <2>1, <2>3 DEF Final
  <2>5. QED BY <1>4, <2>4, TurnStops DEF PlanFinal, IInv, SessionTypes
<1>5. CASE PlanToolCall
  <2>1. /\ message \in Messages /\ steps \in Seq(ToolMessages) /\ StepsOf(message, steps)
        /\ status = "busy" /\ run.step \in 0..MaxSteps /\ run.step <= Len(steps)
    BY <1>5 DEF PlanToolCall, IInv, TurnInv, TranscriptInv, SessionTypes, Runs, Places
  <2>2. PlanNext(message, steps) \in Calls /\ PlanNext(message, steps) # None
    BY <1>5, <2>1, PlannedCall, NoneAssumption DEF PlanToolCall
  <2>3. run' = Run("gateway", run.step, PlanNext(message, steps), FALSE) /\ run.step < MaxSteps
    BY <1>5 DEF PlanToolCall
  <2>4. run' \in Runs
    BY <2>1, <2>2, <2>3 DEF Run, Runs, Places, Reasons
  <2>5. /\ run'.pc = "gateway" /\ run'.step = run.step /\ run'.call = PlanNext(message, steps)
    BY <2>3 DEF Run
  <2>6. QED BY <1>5, <2>1, <2>2, <2>3, <2>4, <2>5, TurnGoesOn DEF PlanToolCall
<1>6. CASE StepLimitReached
  BY <1>6, TurnStops DEF StepLimitReached, Fail, Reasons, transcript, IInv, SessionTypes
<1>7. CASE ToolOk
  BY <1>7, ToolOkKeeps
<1>8. CASE ToolUnknown
  BY <1>8, TurnStops DEF ToolUnknown, Fail, Reasons, transcript, IInv, SessionTypes
<1>9. CASE PiiBlocks
  <2>1. [call |-> run.call, post |-> posts] \in Blocks
    BY <1>9, CallOfRun DEF PiiBlocks, Blocks, IInv, SessionTypes
  <2>2. QED BY <1>9, <2>1, TurnStops DEF PiiBlocks, transcript, IInv, SessionTypes
<1>10. CASE PiiPasses
  <2>1. \E pc \in {"approval", "tool"} : run' = [run EXCEPT !.pc = pc]
    BY <1>10 DEF PiiPasses
  <2>2. QED
    BY <1>10, <2>1, CallOfRun, TurnGoesOn DEF PiiPasses, IInv, SessionTypes, Runs, Places
<1>11. CASE PiiBypassed
  <2>1. CASE NeedsHuman(run.call)
    BY <1>11, <2>1, TurnStops DEF PiiBypassed, Fail, Reasons, transcript, IInv, SessionTypes
  <2>2. CASE ~NeedsHuman(run.call)
    BY <1>11, <2>2, CallOfRun, TurnGoesOn DEF PiiBypassed, IInv, SessionTypes, Runs, Places
  <2>3. QED BY <2>1, <2>2
<1>12. CASE Approved
  <2>1. run' = [run EXCEPT !.pc = "gateway", !.token = TRUE]
    BY <1>12 DEF Approved
  <2>2. /\ run'.pc = "gateway" /\ run'.step = run.step /\ run'.call = run.call /\ run' \in Runs
    BY <2>1 DEF IInv, SessionTypes, Runs, Places
  <2>3. QED BY <1>12, <2>2, CallOfRun, TurnGoesOn DEF Approved
<1>13. CASE NotApproved
  BY <1>13, TurnStops DEF NotApproved, Fail, Reasons, transcript, IInv, SessionTypes
<1>14. CASE AppealGranted
  BY <1>14, CallOfRun, TurnGoesOn DEF AppealGranted, IInv, SessionTypes, Runs, Places
<1>15. CASE AppealNotGranted
  BY <1>15, TurnStops DEF AppealNotGranted, Fail, Reasons, transcript, IInv, SessionTypes
<1>16. CASE (\E i \in Items : Record(i)) \/ UNCHANGED vars
  BY <1>16, SessionUntouched DEF Record, vars
<1>17. CASE SetFailureReason
  BY <1>17, SetFailureReasonKeeps
<1>18. QED
  BY <1>1, <1>2, <1>3, <1>4, <1>5, <1>6, <1>7, <1>8, <1>9, <1>10, <1>11, <1>12, <1>13, <1>14, <1>15, <1>16, <1>17
     DEF Next, Loop, Gateway, Humans

\* A step that is billed for a completion is billed once.
LEMMA NextKeepsCosts == CostInv /\ [Next]_vars => CostInv'
<1> SUFFICES ASSUME CostInv, [Next]_vars PROVE CostInv'
  OBVIOUS
<1>1. CASE UNCHANGED costs
  <2>1. \A p : Served(p)' = Served(p)
    BY <1>1 DEF costs, Served
  <2>2. inFlight' = inFlight /\ used' = used /\ ledger' = ledger
    BY <1>1 DEF costs
  <2>3. QED BY <2>1, <2>2, BillUndisturbed DEF CostInv, CostTypes, BillInv
<1>2. CASE PlanFinal \/ PlanToolCall
  BY <1>2, CallLLMBilled DEF PlanFinal, PlanToolCall, Purposes
<1>3. CASE PiiBlocks \/ PiiPasses
  BY <1>3, CallLLMBilled DEF PiiBlocks, PiiPasses, Purposes
<1>4. CASE ToolOk
  BY <1>4, ToolBilledOnce DEF ToolOk, RunTool
<1>5. ASSUME NEW i \in Items, Record(i) PROVE CostInv'
  BY <1>5, RecordServes
<1>6. (\/ SendMessage \/ Reset \/ RequestAppeal \/ StepLimitReached \/ SetFailureReason
       \/ ToolUnknown \/ PiiBypassed \/ Humans) => UNCHANGED costs
  BY DEF SendMessage, Reset, RequestAppeal, StepLimitReached, SetFailureReason, ToolUnknown, PiiBypassed,
         Humans, Approved, NotApproved, AppealGranted, AppealNotGranted
<1>7. QED
  BY <1>1, <1>2, <1>3, <1>4, <1>5, <1>6 DEF Next, Loop, Gateway, vars

-----------------------------------------------------------------------------
(* The theorems.                                                            *)

\* The session is always in one of the states the proofs above speak of.
LEMMA Invariance == Spec => [](IInv /\ CostInv)
<1>1. Init => IInv /\ CostInv
  BY InitSession, InitCosts
<1>2. (IInv /\ CostInv) /\ [Next]_vars => (IInv /\ CostInv)'
  BY NextKeepsSession, NextKeepsCosts
<1>3. QED BY <1>1, <1>2, PTL DEF Spec

\* The session, its transcript, the running call and the ledgers stay what
\* their types say; no ledger keeps more entries than MaxEntries.
THEOREM TypesCorrect == Spec => []TypeOK
<1>1. IInv /\ CostInv => TypeOK
  BY DEF IInv, CostInv, SessionTypes, CostTypes, TypeOK
<1>2. QED BY <1>1, Invariance, PTL

\* CostLedger and callLLM: every completion is billed once, to its tenant,
\* in whatever order the sends arrive and entries drop out.
THEOREM LedgersExact == Spec => []LedgerExact
<1>1. CostInv => LedgerExact
  BY DEF CostInv, BillInv
<1>2. QED BY <1>1, Invariance, PTL

\* requestAppeal: the block that can be appealed was met by the last message.
THEOREM AppealsOfLastMessage == Spec => []AppealIsOfLastMessage
<1>1. IInv => AppealIsOfLastMessage
  BY DEF IInv, TurnInv, Interrupted, AppealIsOfLastMessage
<1>2. QED BY <1>1, Invariance, PTL

\* planNext: for one message no tool runs twice but those of a batch, and the
\* apology is sent after the credit was given, whatever appeals cut the turn
\* into.
THEOREM ToolsOnceInOrder == Spec => []ToolsRunOnceInOrder
<1>1. ASSUME IInv PROVE ToolsRunOnceInOrder
  <2>1. /\ steps \in Seq(ToolMessages) /\ ran = [i \in DOMAIN steps |-> steps[i].tool]
        /\ message = None => steps = <<>>
        /\ message # None => message \in Messages /\ StepsOf(message, steps)
    BY <1>1 DEF IInv, SessionTypes, TranscriptInv
  <2>2. DOMAIN ran = 1..Len(steps) /\ DOMAIN steps = 1..Len(steps) /\ Len(steps) \in Nat
        /\ \A i \in DOMAIN ran : ran[i] = steps[i].tool
    BY <2>1
  <2>3. CASE message = None
    BY <2>1, <2>2, <2>3 DEF ToolsRunOnceInOrder
  <2>4. CASE message # None /\ message.batch # None
    <3>1. \A i \in DOMAIN ran : ran[i] = "merchant_status"
      BY <2>1, <2>2, <2>4 DEF StepsOf
    <3>2. QED BY <3>1 DEF ToolsRunOnceInOrder
  <2>5. CASE message # None /\ message.batch = None /\ message.delivery # None
    <3>1. message.action \in BOOLEAN
      BY <2>1, <2>5, MessagesAssumption
    <3>2. \A i \in DOMAIN ran : i \in 1..5 /\ ran[i] = Flow[i] /\ \A j \in 1..i : j \in DOMAIN ran
      BY <2>1, <2>2, <2>5, <3>1 DEF StepsOf
    <3>3. \A i, j \in DOMAIN ran : ran[i] = ran[j] => i = j
      BY <3>2, FlowTools
    <3>4. ASSUME NEW i \in DOMAIN ran, ran[i] = "customer_outreach"
          PROVE  \E j \in 1..i : ran[j] = "apply_credit"
      <4>1. i = 5
        BY <3>2, <3>4, FlowTools
      <4>2. 4 \in 1..i /\ ran[4] = "apply_credit"
        BY <3>2, <4>1, FlowTools
      <4>3. QED BY <4>2
    <3>5. QED BY <3>3, <3>4 DEF ToolsRunOnceInOrder
  <2>6. CASE message # None /\ message.batch = None /\ message.delivery = None
    <3>1. \A i \in DOMAIN ran : i = 1 /\ ran[i] = "semantic_search"
      <4>1. message.search \in BOOLEAN
        BY <2>1, <2>6, MessagesAssumption
      <4>2. QED BY <2>1, <2>2, <2>6, <4>1 DEF StepsOf
    <3>2. QED BY <3>1 DEF ToolsRunOnceInOrder
  <2>7. QED BY <2>3, <2>4, <2>5, <2>6
<1>2. QED BY <1>1, Invariance, PTL

\* planNext: a reply tells what was done for its message.  A batch of known
\* deliveries gets the merchant of each, the report of an action names the
\* actions that ran, and no other turn has acted.
THEOREM RepliesTrue == Spec => []ReplyTellsWhatWasDone
<1>1. ASSUME IInv, reply # None PROVE ReplyTellsWhatWasDone
  <2>1. /\ steps \in Seq(ToolMessages) /\ ran = [i \in DOMAIN steps |-> steps[i].tool]
        /\ message \in Messages /\ StepsOf(message, steps)
        /\ PlanNext(message, steps) = Final(reply)
    BY <1>1 DEF IInv, SessionTypes, TranscriptInv, ReplyInv
  <2>2. DOMAIN ran = 1..Len(steps) /\ DOMAIN steps = 1..Len(steps) /\ Len(steps) \in Nat
        /\ \A i \in DOMAIN ran : ran[i] = steps[i].tool
    BY <2>1
  <2>3. /\ \A tool, about, text : Call(tool, about) # Final(text)
        /\ \A text, other : Final(text) = Final(other) => text = other
    <3>1. \A tool, about, text : Call(tool, about).type # Final(text).type
      BY DEF Call, Final
    <3>2. \A text : Final(text).reply = text
      BY DEF Final
    <3>3. QED BY <3>1, <3>2
  <2>4. CASE message.batch # None
    <3> DEFINE rows == [n \in 1..Cardinality(Of(steps, "merchant_status")) |->
                          <<message.batch[n], steps[Nth(Of(steps, "merchant_status"), n)].result>>]
    <3>1. /\ Of(steps, "merchant_status") = 1..Len(steps)
          /\ ~(Len(steps) < Cardinality(Known(message)))
          /\ PlanNext(message, steps) = BatchReply(message, steps)
      BY <2>1, <2>3, <2>4, BatchNext
    <3>2. reply = [kind |-> "merchants", rows |-> rows]
      BY <2>1, <2>3, <3>1 DEF BatchReply
    <3>3. ToSet(ran) \cap Actions = {}
      BY <2>1, <2>2, <2>4 DEF StepsOf, ToSet, Actions
    <3>4. ASSUME ToSet(message.batch) \subseteq DOMAIN MerchantOf PROVE reply.rows = BatchReport
      <4>1. /\ Len(message.batch) \in Nat /\ DOMAIN message.batch = 1..Len(message.batch)
            /\ Cardinality(Known(message)) \in Nat
        BY <2>1, <2>4, KnownOfBatch
      <4>2. Known(message) = 1..Len(message.batch)
        BY <3>4, <4>1 DEF Known, ToSet
      <4>3. Len(steps) = Len(message.batch)
        <5>1. Cardinality(Known(message)) = Len(message.batch)
          BY <4>1, <4>2, CardInterval
        <5>2. Len(steps) <= Cardinality(Known(message))
          BY <2>1, <2>4 DEF StepsOf
        <5>3. QED BY <2>2, <3>1, <4>1, <5>1, <5>2
      <4>4. Cardinality(Of(steps, "merchant_status")) = Len(steps)
        BY <2>2, <3>1, CardInterval
      <4>5. ASSUME NEW n \in 1..Len(steps)
            PROVE  steps[Nth(Of(steps, "merchant_status"), n)].result = MerchantOf[message.batch[n]]
        <5>1. Nth(1..Len(steps), n) = n
          BY <2>2, NthOfInterval
        <5>2. steps[n].result = MerchantOf[message.batch[Nth(Known(message), n)]]
          BY <2>1, <2>2, <2>4 DEF StepsOf
        <5>3. QED BY <3>1, <4>2, <4>3, <5>1, <5>2
      <4>6. rows = BatchReport
        BY <4>1, <4>3, <4>4, <4>5 DEF BatchReport
      <4>7. QED BY <3>2, <4>6
    <3>5. QED BY <3>2, <3>3, <3>4 DEF ReplyTellsWhatWasDone
  <2>5. CASE message.batch = None /\ message.delivery # None
    <3>1. message.action \in BOOLEAN
      BY <2>1, MessagesAssumption
    <3>2. reply = IF message.action THEN ActionReport(steps) ELSE Report(Customer(steps))
      BY <2>1, <2>3, <2>5, DeliveryNext
    <3>3. CASE message.action
      <4>1. ToSet(ran) = Called(steps)
        BY <2>2 DEF ToSet, Called
      <4>2. reply.kind = "action" /\ reply.did = Called(steps) \cap Actions
        BY <3>2, <3>3 DEF ActionReport, Actions
      <4>3. QED BY <4>1, <4>2 DEF ReplyTellsWhatWasDone
    <3>4. CASE ~message.action
      <4>1. \A i \in DOMAIN ran : i \in 1..3 /\ ran[i] = Flow[i]
        BY <2>1, <2>2, <2>5, <3>4 DEF StepsOf
      <4>2. Flow[4] = "apply_credit" /\ Flow[5] = "customer_outreach"
        BY FlowTools
      <4>3. ToSet(ran) \cap Actions = {}
        BY <4>1, <4>2, FlowTools DEF ToSet, Actions
      <4>4. reply.kind \in {"report", "not_found"}
        BY <3>2, <3>4 DEF Report
      <4>5. QED BY <4>3, <4>4 DEF ReplyTellsWhatWasDone
    <3>5. QED BY <3>1, <3>3, <3>4
  <2>6. CASE message.batch = None /\ message.delivery = None
    <3>1. reply.kind \in {"search", "help"}
      BY <2>1, <2>3, <2>6, OtherNext
    <3>2. ToSet(ran) \cap Actions = {}
      BY <2>1, <2>2, <2>6 DEF StepsOf, ToSet, Actions
    <3>3. QED BY <3>1, <3>2 DEF ReplyTellsWhatWasDone
  <2>7. QED BY <2>4, <2>5, <2>6
<1>2. IInv => ReplyTellsWhatWasDone
  BY <1>1 DEF ReplyTellsWhatWasDone
<1>3. QED BY <1>2, Invariance, PTL

\* What LimitCutsLongBatches needs to know of a failure that is not written yet.
LongBatch == message.batch # None /\ Len(message.batch) >= MaxSteps
LimitInv ==
  /\ StepLimitOnlyCutsLongBatches
  /\ run.pc = "failing" /\ run.reason = "max_steps_exceeded" => LongBatch

\* runLoop: with six steps or more (MAX_STEPS is 16) the step limit cuts no
\* turn but a batch of that length, since no other flow calls more than five
\* tools; and an invocation that fails for another reason has said so, over the
\* reason of an earlier failure, by the time it is over.
THEOREM LimitCutsLongBatches ==
  ASSUME MaxSteps > 5
  PROVE  Spec => []StepLimitOnlyCutsLongBatches
<1>1. Init => LimitInv
  BY DEF Init, LimitInv, StepLimitOnlyCutsLongBatches, NoRun, Run
<1>2. LimitInv /\ IInv /\ [Next]_vars => LimitInv'
  <2> SUFFICES ASSUME LimitInv, IInv, [Next]_vars
               PROVE  LimitInv'
    OBVIOUS
  <2> USE DEF LimitInv
  <2>1. CASE StepLimitReached
    <3>1. /\ message \in Messages /\ steps \in Seq(ToolMessages) /\ StepsOf(message, steps)
          /\ run.step <= Len(steps) /\ run.step >= MaxSteps /\ run.step \in Nat /\ message' = message
      BY <2>1 DEF StepLimitReached, IInv, TurnInv, TranscriptInv, SessionTypes, Runs, transcript
    <3>2. Len(steps) \in Nat /\ Len(steps) > 5
      BY <3>1
    <3>3. message.batch # None
      <4>1. message.action \in BOOLEAN /\ message.search \in BOOLEAN
        BY <3>1, MessagesAssumption
      <4>2. QED BY <3>1, <3>2, <4>1 DEF StepsOf
    <3>4. Len(steps) <= Len(message.batch)
      BY <3>1, <3>2, <3>3, KnownOfBatch DEF StepsOf
    <3>5. Len(message.batch) >= MaxSteps
      BY <3>1, <3>2, <3>3, <3>4, KnownOfBatch
    <3>6. LongBatch'
      BY <3>1, <3>3, <3>5 DEF LongBatch
    <3>7. run'.pc = "failing"
      BY <2>1, RunTypes DEF StepLimitReached, Fail, Reasons
    <3>8. QED BY <3>6, <3>7 DEF StepLimitOnlyCutsLongBatches
  <2>2. CASE SetFailureReason
    <3>1. run'.pc = "idle" /\ message' = message /\ failureReason' = run.reason
      BY <2>2 DEF SetFailureReason, NoRun, Run, transcript
    <3>2. QED BY <2>2, <3>1 DEF SetFailureReason, StepLimitOnlyCutsLongBatches, LongBatch
  \* Every other failure is for another reason.
  <2>3. CASE \E reason \in Reasons \ {"max_steps_exceeded"} : run' = Failing(reason)
    <3>1. run'.pc = "failing" /\ run'.reason # "max_steps_exceeded"
      BY <2>3, RunTypes
    <3>2. QED BY <3>1 DEF StepLimitOnlyCutsLongBatches
  <2>4. CASE run'.pc # "failing" /\ (run'.pc # "idle" \/ status' # "failed")
    BY <2>4 DEF StepLimitOnlyCutsLongBatches
  <2>5. CASE UNCHANGED <<status, failureReason, message, run>>
    BY <2>5 DEF StepLimitOnlyCutsLongBatches, LongBatch
  <2>6. ToolUnknown \/ NotApproved \/ AppealNotGranted \/ PiiBypassed =>
          \/ \E reason \in Reasons \ {"max_steps_exceeded"} : run' = Failing(reason)
          \/ run'.pc # "failing" /\ (run'.pc # "idle" \/ status' # "failed")
    BY DEF ToolUnknown, NotApproved, AppealNotGranted, PiiBypassed, Fail, Reasons, IInv,
           SessionTypes, Runs
  <2>7. SendMessage \/ RequestAppeal \/ PlanFinal \/ PlanToolCall \/ ToolOk \/ PiiBlocks \/ PiiPasses
          \/ Approved \/ AppealGranted =>
          run'.pc # "failing" /\ (run'.pc # "idle" \/ status' # "failed")
    <3>1. SendMessage \/ RequestAppeal \/ PlanToolCall \/ ToolOk => run'.pc \in {"loop", "gateway", "appeal"}
      BY DEF SendMessage, RequestAppeal, PlanToolCall, ToolOk, RunTool, Run
    <3>2. PlanFinal \/ PiiBlocks => run'.pc = "idle" /\ status' # "failed"
      BY DEF PlanFinal, PiiBlocks, NoRun, Run
    <3>3. PiiPasses \/ Approved \/ AppealGranted => run'.pc \in {"approval", "tool", "gateway"}
      BY DEF PiiPasses, Approved, AppealGranted, IInv, SessionTypes, Runs
    <3>4. QED BY <3>1, <3>2, <3>3
  <2>8. CASE Reset
    BY <2>8 DEF Reset, StepLimitOnlyCutsLongBatches
  <2>9. (\E i \in Items : Record(i)) \/ UNCHANGED vars => UNCHANGED <<status, failureReason, message, run>>
    BY DEF Record, vars, transcript
  <2>10. QED
    BY <2>1, <2>2, <2>3, <2>4, <2>5, <2>6, <2>7, <2>8, <2>9 DEF Next, Loop, Gateway, Humans
<1>3. QED BY <1>1, <1>2, Invariance, PTL DEF Spec, LimitInv

=============================================================================
