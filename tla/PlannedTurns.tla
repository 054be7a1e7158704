----------------------------- MODULE PlannedTurns -----------------------------
(***************************************************************************)
(* One session whose planner is the stub of services/llm-svc, together     *)
(* with the tools it calls, the transcript it plans from and the cost      *)
(* ledger that every call to LLMService is billed to.                      *)
(*                                                                         *)
(* OpsAgent models who may let a call through; here the gateway's answers  *)
(* are cut down to what decides the course of a turn, and the planner,     *)
(* which is free there, is the code.  A message is what the planner's      *)
(* patterns find in it.  The operator's invocations are served one at a    *)
(* time in some order, so the queue of the session is left out.            *)
(***************************************************************************)
EXTENDS Naturals, FiniteSets, SequencesExt

CONSTANTS
  Messages,   \* user messages: [batch, delivery, search, action, query, credit]
  CustomerOf, \* CustomerOf[d]: the customer of each delivery delivery-svc knows
  MerchantOf, \* MerchantOf[d]: the planner's own table of deliveries and merchants
  Personal,   \* ids and queries that look like a phone number to the PII stub
  MaxSteps,   \* MAX_STEPS
  MaxEntries, \* 200: entries a ledger keeps
  MaxPosts,   \* bound of the model: messages posted
  None

ASSUME StepsAssumption == {MaxSteps, MaxEntries, MaxPosts} \subseteq Nat \ {0}
ASSUME TablesAssumption == Personal \cap (DOMAIN CustomerOf \cup DOMAIN MerchantOf) = {}
ASSUME MessagesAssumption ==
  \A m \in Messages : /\ m.batch = None \/ m.batch \in Seq(ToSet(m.batch))
                      /\ m.search \in BOOLEAN /\ m.action \in BOOLEAN

VARIABLES
  status,        \* of the Session object; "busy" for every status of a turn
  failureReason, \* of the Session object
  pendingAppeal, \* of the Session object: the blocked call, or None
  message,       \* the last user message of the transcript, or None
  posts,         \* messages so far
  steps,         \* the tool messages of the transcript after it: [tool, result]
  run,           \* the running invocation and its tool call
  reply,         \* the last assistant reply to this message, or None
  ran,           \* tools that ran since this message, in order (history)
  inFlight,      \* inFlight[i]: sends of cost i to CostLedger that are not yet served
  ledger,        \* ledger[t]: the CostLedger object of tenant t
  used           \* used[p]: completions of LLMService for purpose p (history)

transcript == <<message, posts, steps, reply, ran>>
costs == <<inFlight, ledger, used>>
vars == <<status, failureReason, pendingAppeal, transcript, run, costs>>

-----------------------------------------------------------------------------
(* What LLMService answers and what it costs.                               *)

Purposes == {"agent-planning", "guardrail-pii", "semantic-search"}
Tenants == {"demo-tenant", "platform"}

\* The costs that may be sent to a ledger: those of LLMService, and what a
\* call of semantic_search would cost of itself.
Items == Purposes \cup {"tool"}

\* costCents of each stub, and the tenant of the identity it is called with.
CostCents(item) ==
  CASE item = "agent-planning" -> 2 [] item = "guardrail-pii" -> 1 [] OTHER -> 5
TenantOf(item) == IF item = "guardrail-pii" THEN "platform" ELSE "demo-tenant"

\* The order in which an investigation calls its tools.
Flow == <<"delivery_lookup", "escalation_history", "customer_lookup", "apply_credit",
          "customer_outreach">>
ToolNames == ToSet(Flow) \cup {"merchant_status", "semantic_search"}
Facts == {m.delivery : m \in Messages} \cup {m.query : m \in Messages}
         \cup {CustomerOf[d] : d \in DOMAIN CustomerOf} \cup {MerchantOf[d] : d \in DOMAIN MerchantOf}
Calls == [type : {"tool_call"}, tool : ToolNames, about : Facts]
Blocks == [call : Calls, post : Nat]

ASSUME NoneAssumption == None \notin Messages /\ None \notin Calls /\ None \notin Blocks /\ None # 0

Call(tool, about) == [type |-> "tool_call", tool |-> tool, about |-> about]
Final(text) == [type |-> "final", reply |-> text]

\* What a tool answers to cost, and what its registration says it costs.
AnsweredCents(tool) == 0
ConfiguredCents(tool) == IF tool = "semantic_search" THEN 5 ELSE 0

\* Mutant: an answer of 0 counts as no answer (|| in place of ??).
ToolCentsOr(tool) ==
  IF AnsweredCents(tool) # 0 THEN AnsweredCents(tool) ELSE ConfiguredCents(tool)

ToolCents(tool) ==
  IF AnsweredCents(tool) # None THEN AnsweredCents(tool) ELSE ConfiguredCents(tool)

\* The n-th number of a set, and the first.
Nth(S, n) == CHOOSE i \in S : Cardinality({j \in S : j < i}) = n - 1
Least(S) == CHOOSE i \in S : \A j \in S : i <= j

Of(list, tool) == {i \in DOMAIN list : list[i].tool = tool}
Called(list) == {list[i].tool : i \in DOMAIN list}

\* The report pairs the results with the batch.
BatchReply(m, list) ==
  LET rows == Of(list, "merchant_status")
  IN Final([kind |-> "merchants",
            rows |-> [n \in 1..Cardinality(rows) |-> <<m.batch[n], list[Nth(rows, n)].result>>]])

\* Mutant: skips merchants it has looked up already.
PlanBatchOnce(m, list) ==
  LET todo == {i \in DOMAIN m.batch : \A j \in Of(list, "merchant_status") :
                                       list[j].result # MerchantOf[m.batch[i]]}
  IN IF todo # {} THEN Call("merchant_status", MerchantOf[m.batch[Least(todo)]])
     ELSE BatchReply(m, list)

\* The merchants of a batch one after the other; deliveries the table does
\* not know are dropped.
PlanBatch(m, list) ==
  LET known == {i \in DOMAIN m.batch : m.batch[i] \in DOMAIN MerchantOf}
      calledCount == Cardinality(Of(list, "merchant_status"))
  IN IF calledCount < Cardinality(known)
       THEN Call("merchant_status", MerchantOf[m.batch[Nth(known, calledCount + 1)]])
       ELSE BatchReply(m, list)

PlanSearch(m, list) ==
  IF "semantic_search" \notin Called(list)
    THEN Call("semantic_search", m.query)
    ELSE Final([kind |-> "search"])

\* synthesizeDeliveryReport
Report(customer) == [kind |-> IF customer = None THEN "not_found" ELSE "report"]

ActionReport(list) ==
  [kind |-> "action", did |-> Called(list) \cap {"apply_credit", "customer_outreach"}]

\* The customer of the delivery, once it was looked up and found.
Customer(list) ==
  LET found == Of(list, "delivery_lookup")
  IN IF found = {} THEN None ELSE list[Least(found)].result

\* The steps of Flow that are still to be done: the customer is looked up if
\* the delivery was found, and acted for if the message asks for it.
Todo(m, list) ==
  {i \in 1..5 : /\ Flow[i] \notin Called(list)
                /\ i > 2 => Customer(list) # None
                /\ i > 3 => m.action}

PlanDelivery(m, list) ==
  IF Todo(m, list) # {}
    THEN LET i == Least(Todo(m, list))
         IN Call(Flow[i], IF i <= 2 THEN m.delivery ELSE Customer(list))
    ELSE Final(IF m.action THEN ActionReport(list) ELSE Report(Customer(list)))

PlanNext(m, list) ==
  IF m.batch # None THEN PlanBatch(m, list)
  ELSE IF m.delivery # None THEN PlanDelivery(m, list)
  ELSE IF m.search THEN PlanSearch(m, list)
  ELSE Final([kind |-> "help"])

\* What a tool puts into its result that anyone reads later.
DeliveryLookup(d) == IF d \in DOMAIN CustomerOf THEN CustomerOf[d] ELSE None
MerchantStatus(id) == id
ToolResult(call) == CASE call.tool = "delivery_lookup" -> DeliveryLookup(call.about)
                      [] call.tool = "merchant_status" -> MerchantStatus(call.about)
                      [] OTHER -> "done"

\* The PII stub looks at the parameters: ten digits are a phone number, the
\* amount of a credit among them.
Flagged(call) ==
  \/ call.about \in Personal
  \/ call.tool = "apply_credit" /\ message.credit >= 10^9

NeedsHuman(call) == call.tool = "apply_credit" /\ message.credit > 1000

-----------------------------------------------------------------------------
(* The session and its loop.                                                *)

\* reason is what a failing invocation has still to write.
Run(pc, step, call, bypass) ==
  [pc |-> pc, step |-> step, call |-> call, token |-> FALSE, bypass |-> bypass, reason |-> "none"]
NoRun == Run("idle", 0, None, FALSE)
Failing(reason) == [NoRun EXCEPT !.pc = "failing", !.reason = reason]
EmptyLedger == [total |-> 0, entries |-> <<>>]

Init ==
  /\ status = "idle" /\ failureReason = "none" /\ pendingAppeal = None
  /\ message = None /\ posts = 0
  /\ steps = <<>> /\ reply = None /\ ran = <<>>
  /\ run = NoRun
  /\ inFlight = [i \in Items |-> 0] /\ used = [p \in Purposes |-> 0]
  /\ ledger = [t \in Tenants |-> EmptyLedger]

\* Gateway.callLLM: LLMService completes, and its cost is sent to the ledger.
CallLLM(purpose) ==
  /\ used' = [used EXCEPT ![purpose] = @ + 1]
  /\ inFlight' = [inFlight EXCEPT ![purpose] = @ + 1]
  /\ UNCHANGED ledger

\* What running the tool is billed: the completion semantic_search asks for,
\* and the cost of the call.
ToolBilled(tool) ==
  LET asks == tool = "semantic_search" IN
  /\ used' = IF asks THEN [used EXCEPT !["semantic-search"] = @ + 1] ELSE used
  /\ inFlight' = [inFlight EXCEPT !["semantic-search"] = IF asks THEN @ + 1 ELSE @,
                                   !["tool"] = IF ToolCents(tool) > 0 THEN @ + 1 ELSE @]
  /\ UNCHANGED ledger

\* setStatus(ctx, "failed"), which then awaits the time of the change: until
\* setFailureReason follows, getState shows the reason of an earlier failure.
Fail(reason) ==
  /\ status' = "failed"
  /\ run' = Failing(reason)
  /\ UNCHANGED failureReason

\* Mutant: the reason of an earlier failure is kept.
SetFailureReasonOnce ==
  /\ run.pc = "failing"
  /\ failureReason' = IF failureReason = "none" THEN run.reason ELSE failureReason
  /\ run' = NoRun
  /\ UNCHANGED <<status, pendingAppeal, transcript, costs>>

SetFailureReason ==
  /\ run.pc = "failing"
  /\ failureReason' = run.reason
  /\ run' = NoRun
  /\ UNCHANGED <<status, pendingAppeal, transcript, costs>>

SendMessage ==
  /\ run.pc = "idle" /\ posts < MaxPosts
  /\ message' \in Messages
  /\ posts' = posts + 1
  /\ steps' = <<>> /\ reply' = None /\ ran' = <<>>
  /\ run' = Run("loop", 0, None, FALSE)
  /\ status' = "busy"
  /\ UNCHANGED <<failureReason, pendingAppeal, costs>>

Reset ==
  /\ run.pc = "idle"
  /\ status' = "idle" /\ failureReason' = "none" /\ pendingAppeal' = None
  /\ message' = None /\ steps' = <<>> /\ reply' = None /\ ran' = <<>>
  /\ UNCHANGED <<posts, run, costs>>

PlanFinal ==
  /\ run.pc = "loop" /\ run.step < MaxSteps
  /\ LET next == PlanNext(message, steps) IN next.type = "final" /\ reply' = next.reply
  /\ CallLLM("agent-planning")
  /\ run' = NoRun
  /\ status' = "complete"
  /\ UNCHANGED <<failureReason, pendingAppeal, message, posts, steps, ran>>

PlanToolCall ==
  /\ run.pc = "loop" /\ run.step < MaxSteps
  /\ LET next == PlanNext(message, steps) IN
       next.type = "tool_call" /\ run' = Run("gateway", run.step, next, FALSE)
  /\ CallLLM("agent-planning")
  /\ UNCHANGED <<status, failureReason, pendingAppeal, transcript>>

StepLimitReached ==
  /\ run.pc = "loop" /\ run.step >= MaxSteps
  /\ Fail("max_steps_exceeded")
  /\ UNCHANGED <<pendingAppeal, transcript, costs>>

\* The registry does not know the tool, because its service is not up yet.
ToolUnknown ==
  /\ run.pc = "gateway"
  /\ Fail(IF run.bypass THEN "appeal_retry_failed" ELSE "blocked")
  /\ pendingAppeal' = IF run.bypass THEN None ELSE pendingAppeal
  /\ UNCHANGED <<transcript, costs>>

\* Mutant: the first block of a session is kept.
PiiBlocksKeepsFirst ==
  /\ run.pc = "gateway" /\ ~run.bypass /\ Flagged(run.call)
  /\ CallLLM("guardrail-pii")
  /\ pendingAppeal' = IF pendingAppeal = None THEN [call |-> run.call, post |-> posts]
                      ELSE pendingAppeal
  /\ run' = NoRun /\ status' = "blocked_appealable"
  /\ UNCHANGED <<failureReason, transcript>>

PiiBlocks ==
  /\ run.pc = "gateway" /\ ~run.bypass /\ Flagged(run.call)
  /\ CallLLM("guardrail-pii")
  /\ pendingAppeal' = [call |-> run.call, post |-> posts]
  /\ run' = NoRun /\ status' = "blocked_appealable"
  /\ UNCHANGED <<failureReason, transcript>>

PiiPasses ==
  /\ run.pc = "gateway" /\ ~run.bypass /\ ~Flagged(run.call)
  /\ CallLLM("guardrail-pii")
  /\ run' = [run EXCEPT !.pc = IF NeedsHuman(run.call) /\ ~run.token THEN "approval" ELSE "tool"]
  /\ UNCHANGED <<status, failureReason, pendingAppeal, transcript>>

\* The retry of an appeal; a call that needs an approval as well fails it.
PiiBypassed ==
  /\ run.pc = "gateway" /\ run.bypass
  /\ IF NeedsHuman(run.call)
       THEN /\ Fail("appeal_retry_failed")
            /\ pendingAppeal' = None
       ELSE /\ run' = [run EXCEPT !.pc = "tool"]
            /\ UNCHANGED <<status, failureReason, pendingAppeal>>
  /\ UNCHANGED <<transcript, costs>>

Approved ==
  /\ run.pc = "approval"
  /\ run' = [run EXCEPT !.pc = "gateway", !.token = TRUE]
  /\ UNCHANGED <<status, failureReason, pendingAppeal, transcript, costs>>

NotApproved ==
  /\ run.pc = "approval"
  /\ \E reason \in {"approval_rejected", "approval_cancelled"} : Fail(reason)
  /\ UNCHANGED <<pendingAppeal, transcript, costs>>

\* The tool runs; the loop goes on, or starts again after an appeal.
RunTool(answer) ==
  /\ run.pc = "tool"
  /\ ran' = Append(ran, run.call.tool)
  /\ steps' = answer
  /\ ToolBilled(run.call.tool)
  /\ run' = Run("loop", IF run.bypass THEN 0 ELSE run.step + 1, None, FALSE)
  /\ pendingAppeal' = IF run.bypass THEN None ELSE pendingAppeal
  /\ UNCHANGED <<status, failureReason, message, posts, reply>>

ToolMessage == [tool |-> run.call.tool, result |-> ToolResult(run.call)]

\* Mutant: the result of an appealed call is not put into the transcript.
ToolOkUntold == RunTool(IF run.bypass THEN steps ELSE Append(steps, ToolMessage))

ToolOk == RunTool(Append(steps, ToolMessage))

RequestAppeal ==
  /\ run.pc = "idle" /\ pendingAppeal # None /\ status = "blocked_appealable"
  /\ run' = Run("appeal", 0, pendingAppeal.call, TRUE)
  /\ status' = "busy"
  /\ UNCHANGED <<failureReason, pendingAppeal, transcript, costs>>

AppealGranted ==
  /\ run.pc = "appeal"
  /\ run' = [run EXCEPT !.pc = "gateway"]
  /\ UNCHANGED <<status, failureReason, pendingAppeal, transcript, costs>>

AppealNotGranted ==
  /\ run.pc = "appeal"
  /\ \/ Fail("appeal_rejected") /\ pendingAppeal' = None
     \/ Fail("appeal_cancelled") /\ UNCHANGED pendingAppeal
  /\ UNCHANGED <<transcript, costs>>

-----------------------------------------------------------------------------
(* CostLedger.record, in whatever order the sends arrive.                   *)

\* Mutant: one entry too many is kept.
KeptAndOne(list) == IF Len(list) > MaxEntries + 1 THEN Tail(list) ELSE list

Kept(list) == IF Len(list) > MaxEntries THEN Tail(list) ELSE list

Record(item) ==
  LET t == TenantOf(item) IN
  /\ inFlight[item] > 0
  /\ inFlight' = [inFlight EXCEPT ![item] = @ - 1]
  /\ ledger' = [ledger EXCEPT ![t] =
       [total |-> @.total + CostCents(item), entries |-> Kept(Append(@.entries, item))]]
  /\ UNCHANGED <<status, failureReason, pendingAppeal, transcript, run, used>>

Loop == PlanFinal \/ PlanToolCall \/ StepLimitReached \/ ToolOk \/ SetFailureReason
Gateway == ToolUnknown \/ PiiBlocks \/ PiiPasses \/ PiiBypassed
Humans == Approved \/ NotApproved \/ AppealGranted \/ AppealNotGranted

Next == \/ SendMessage \/ Reset \/ RequestAppeal
        \/ Loop \/ Gateway \/ Humans
        \/ \E i \in Items : Record(i)

Spec == Init /\ [][Next]_vars

-----------------------------------------------------------------------------
(* Properties.                                                              *)

Reasons == {"none", "max_steps_exceeded", "blocked", "approval_rejected", "approval_cancelled",
            "appeal_rejected", "appeal_cancelled", "appeal_retry_failed"}
Places == {"idle", "loop", "gateway", "approval", "tool", "appeal", "failing"}
Runs == [pc : Places, step : 0..MaxSteps, call : Calls \cup {None},
         token : BOOLEAN, bypass : BOOLEAN, reason : Reasons]
ToolMessages == [tool : ToolNames, result : Facts \cup {None, "done"}]
Ledgers == [total : Nat, entries : Seq(Items)]

TypeOK ==
  /\ status \in {"idle", "busy", "complete", "failed", "blocked_appealable"}
  /\ failureReason \in Reasons /\ pendingAppeal \in Blocks \cup {None}
  /\ run \in Runs
  /\ message \in Messages \cup {None} /\ posts \in 0..MaxPosts
  /\ steps \in Seq(ToolMessages) /\ ran \in Seq(ToolNames)
  /\ inFlight \in [Items -> Nat] /\ used \in [Purposes -> Nat]
  /\ ledger \in [Tenants -> Ledgers] /\ \A t \in Tenants : Len(ledger[t].entries) <= MaxEntries

\* For one message no tool runs twice (but the calls of a batch), though turns
\* are cut by appeals and taken up again with a fresh count of steps; and the
\* apology for a credit is sent only after the credit was given.
ToolsRunOnceInOrder ==
  /\ \A i, j \in DOMAIN ran : i # j /\ ran[i] = ran[j] => ran[i] = "merchant_status"
  /\ \A i \in DOMAIN ran : ran[i] = "customer_outreach" =>
       \E j \in 1..i : ran[j] = "apply_credit"

\* The reply tells what was done: a batch of known deliveries gets one row per
\* delivery with the merchant of that delivery; the report of an action names
\* exactly the actions that ran; and no other turn has acted at all.
Actions == {"apply_credit", "customer_outreach"}
BatchReport == [i \in DOMAIN message.batch |-> <<message.batch[i], MerchantOf[message.batch[i]]>>]
ReplyTellsWhatWasDone ==
  reply # None =>
    /\ reply.kind = "merchants" /\ ToSet(message.batch) \subseteq DOMAIN MerchantOf =>
         reply.rows = BatchReport
    /\ ToSet(ran) \cap Actions = IF reply.kind = "action" THEN reply.did ELSE {}

\* Once its invocation is over, a session that failed on MAX_STEPS did so on a
\* batch that is as long: the limit cuts no other turn of the stub short, and
\* the reason left by an earlier failure is never taken for that of a later
\* one.  (Between setStatus and setFailureReason it can be: see Fail.)
StepLimitOnlyCutsLongBatches ==
  run.pc = "idle" /\ status = "failed" /\ failureReason = "max_steps_exceeded" =>
    message.batch # None /\ Len(message.batch) >= MaxSteps

\* The block that can be appealed was met by the message that was sent last:
\* the turn an appeal takes up goes on with the transcript it was cut from.
AppealIsOfLastMessage ==
  status = "blocked_appealable" => pendingAppeal # None /\ pendingAppeal.post = posts

\* Every completion is billed once, to the tenant it was made for, and nothing
\* else is, a search not a second time for its configured cost: what a ledger
\* holds and what is on its way to it add up to what was used; and until the
\* first entry is dropped, the entries are those of the total, one by one.
Served(p) == used[p] - inFlight[p]
Billed(p) == Served(p) * CostCents(p)
EntriesOf(t, item) == {i \in DOMAIN ledger[t].entries : ledger[t].entries[i] = item}
LedgerExact ==
  /\ ledger["platform"].total = Billed("guardrail-pii")
  /\ ledger["demo-tenant"].total = Billed("agent-planning") + Billed("semantic-search")
  /\ \A t \in Tenants, item \in Items :
       Len(ledger[t].entries) < MaxEntries =>
         Cardinality(EntriesOf(t, item)) =
           IF item \in Purposes /\ TenantOf(item) = t THEN Served(item) ELSE 0
=============================================================================
