---------------------------- MODULE OpsAgentProofs ----------------------------
(***************************************************************************)
(* What OpsAgent guarantees for every set of calls, whatever the guardrail *)
(* flags, and any number of steps, retries and posts.                      *)
(***************************************************************************)
EXTENDS OpsAgent, FiniteSetTheorems, TLAPS

\* A record that approvers approved when they were asked for this call.
Granted(i, kind, call) ==
  /\ i \in Ids /\ status[i] = "approved"
  /\ request[i].kind = kind /\ request[i].call = call

\* No call that reached its tool carried i.
Unspent(i) == \A n \in DOMAIN ran : ran[n].approvalToken # i /\ ran[n].appealToken # i

AtGateway == {"lookup", "verify", "pii-guardrail", "approval-policy", "dispatch"}
Asking == {"requesting", "waiting"}

\* What the running invocation carries, by the place it has come to.
RunInv ==
  /\ run.pc \in {"loop", "planning"} => run.handler = "turn" /\ run.approvalToken = None
  /\ run.handler = "turn" => run.appealToken = None
  /\ run.handler = "appeal" => run.approvalToken = None
  /\ run.pc \notin {"idle", "loop", "planning"} => run.call \in Calls /\ run.handler # "none"
  /\ run.pc = "verify" => run.appealToken # None
  /\ run.pc = "dispatch" /\ NeedsHuman(run.call) => run.approvalToken # None
  /\ run.pc \in {"approval-policy", "dispatch"} /\ run.call \in Flagged => run.appealToken # None
  /\ run.pc = "response" /\ run.resp = "needs_approval" => run.approvalToken = None

\* The tokens it carries were granted for its call and are not spent.
TokenInv ==
  run.pc \in AtGateway =>
    /\ run.approvalToken # None =>
         Granted(run.approvalToken, "approval", run.call) /\ Unspent(run.approvalToken)
    /\ run.appealToken # None =>
         Granted(run.appealToken, "appeal", run.call) /\ Unspent(run.appealToken)

\* The request it makes or waits for.
AskInv ==
  run.pc \in Asking =>
    /\ run.id \in Ids /\ Unspent(run.id)
    /\ run.approvalToken = None /\ run.appealToken = None
    /\ run.pc = "requesting" => status[run.id] = "none"
    /\ run.pc = "waiting" =>
         /\ status[run.id] # "none"
         /\ request[run.id].kind = IF run.handler = "appeal" THEN "appeal" ELSE "approval"
         /\ request[run.id].call = run.call

\* Who is asked is waited for, and who is woken hears what the record says.
RecordInv ==
  \A i \in Ids : /\ status[i] = "pending" => run.pc = "waiting" /\ run.id = i
                 /\ woken[i] # "open" => woken[i] = status[i]

\* The banner names the record that is asked for, and only a turn raises it.
BannerInv ==
  session.pendingApproval # None =>
    run.pc \in Asking /\ run.handler = "turn" /\ run.id = session.pendingApproval

\* What reached a tool had what it needed.
RanInv ==
  \A n \in DOMAIN ran :
    /\ ran[n].approvalToken # None => Granted(ran[n].approvalToken, "approval", ran[n].call)
    /\ ran[n].appealToken # None => Granted(ran[n].appealToken, "appeal", ran[n].call)
    /\ NeedsHuman(ran[n].call) => ran[n].approvalToken # None
    /\ ran[n].call \in Flagged => ran[n].appealToken # None

\* There is always an unused id: an invocation that has started may use up one
\* for its appeal and one for each step, and Asks are those it has still left.
Used == {i \in Ids : status[i] # "none"}
Asks ==
  IF run.pc = "idle" THEN 0
  ELSE IF run.handler = "appeal" THEN IF run.pc = "requesting" THEN MaxSteps + 1 ELSE MaxSteps
  ELSE IF run.pc = "waiting" \/ run.approvalToken # None THEN MaxSteps - run.step - 1
  ELSE MaxSteps - run.step
IdsInv ==
  /\ run.handler = "turn" /\ run.pc \notin {"idle", "loop"} => run.step < MaxSteps
  /\ Len(inbox) <= sent
  /\ Cardinality(Used) + Asks <= (sent - Len(inbox)) * (MaxSteps + 1)

IInv ==
  /\ TypeOK /\ RunInv /\ TokenInv /\ AskInv /\ RecordInv /\ BannerInv /\ RanInv /\ IdsInv
  /\ DecisionSpentOnce /\ SessionComesToRest

-----------------------------------------------------------------------------
(* Types.                                                                   *)

LEMMA InitTypeOK == Init => TypeOK
  BY StepsAssumption, InvocationsAssumption
     DEF Init, TypeOK, EmptySession, NoRun, Runs, Tokens, CallsOrNone, AtRest, Busy,
         Approval!Init, Approval!Decided

\* An action that touches neither the approvals, the page nor what ran, and
\* leaves a session and a run of the right type.
LEMMA SessionTypeOK ==
  ASSUME TypeOK, run' \in Runs,
         session' \in [status : AtRest \cup Busy, pendingApproval : Tokens, pendingAppeal : CallsOrNone],
         UNCHANGED <<inbox, approvals, view, sent, ran>>
  PROVE  TypeOK'
  BY DEF TypeOK, approvals

LEMMA NoRunType == NoRun \in Runs /\ NextStep \in Runs
<1>1. NoRun \in Runs
  BY StepsAssumption DEF NoRun, Runs, Tokens, CallsOrNone
<1>2. NextStep \in Runs
  BY <1>1 DEF NextStep, Runs
<1> QED
  BY <1>1, <1>2

LEMMA InvocationTypeOK ==
  ASSUME TypeOK, Invocation, RequestAppeal => FreshId \in Ids
  PROVE  TypeOK'
<1>1. inbox # <<>> /\ inbox' = Tail(inbox) /\ UNCHANGED <<approvals, view, sent, ran>>
  BY DEF Invocation, SendMessage, Reset, RequestAppeal, AppealIgnored, NextInvocation
<1>2. inbox' \in Seq({"message", "reset", "appeal"})
  BY <1>1 DEF TypeOK
<1>3. run' \in Runs
  <2>1. CASE SendMessage
    BY <2>1, NoRunType DEF SendMessage, Runs
  <2>2. CASE RequestAppeal
    <3>1. session.pendingAppeal \in CallsOrNone /\ FreshId \in Tokens
      BY <2>2 DEF TypeOK, Tokens
    <3> QED
      BY <2>2, <3>1, NoRunType DEF RequestAppeal, Runs
  <2> QED
    BY <2>1, <2>2 DEF Invocation, Reset, AppealIgnored, TypeOK
<1>4. session' \in [status : AtRest \cup Busy, pendingApproval : Tokens, pendingAppeal : CallsOrNone]
  BY DEF Invocation, SendMessage, Reset, RequestAppeal, AppealIgnored, EmptySession, SetStatus,
       TypeOK, Tokens, CallsOrNone, AtRest, Busy
<1> QED
  BY <1>1, <1>2, <1>3, <1>4 DEF TypeOK, approvals

LEMMA LoopTypeOK ==
  ASSUME TypeOK, Loop
  PROVE  TypeOK'
<1>1. run' \in Runs
  <2>1. CASE Think
    BY <2>1 DEF Think, GoTo, TypeOK, Runs
  <2>2. CASE \E call \in Calls : PlanToolCall(call)
    <3>1. PICK call \in Calls : PlanToolCall(call)
      BY <2>2
    <3>2. run \in Runs /\ call \in CallsOrNone /\ None \in Tokens /\ 0 \in 0..MaxApprovalRetries
      BY StepsAssumption DEF TypeOK, CallsOrNone, Tokens
    <3> QED
      BY <3>1, <3>2 DEF PlanToolCall, Runs
  <2> QED
    BY <2>1, <2>2, NoRunType DEF Loop, StepLimitReached, PlanFinal, End
<1>2. session' \in [status : AtRest \cup Busy, pendingApproval : Tokens, pendingAppeal : CallsOrNone]
  BY DEF Loop, Think, StepLimitReached, PlanFinal, PlanToolCall, SetStatus, End, TypeOK, AtRest, Busy
<1> QED
  BY <1>1, <1>2, SessionTypeOK
     DEF Loop, Think, StepLimitReached, PlanFinal, PlanToolCall, AgentUnchanged

LEMMA GatewayTypeOK ==
  ASSUME TypeOK, RunInv, Gateway
  PROVE  TypeOK'
<1>1. \/ \E pc \in {"verify", "pii-guardrail", "approval-policy", "dispatch"} : GoTo(pc)
      \/ \E resp \in {"ok", "blocked", "appealable", "needs_approval"} : Respond(resp)
  BY DEF Gateway, RegistryLookup, VerifyAppeal, PiiGuardrail, ApprovalPolicy, Dispatch
<1>2. run' \in Runs
  BY <1>1 DEF GoTo, Respond, TypeOK, Runs
<1>3. UNCHANGED <<session, inbox, approvals, view, sent>>
  BY DEF Gateway, RegistryLookup, VerifyAppeal, PiiGuardrail, ApprovalPolicy, Dispatch,
       GatewayOnly, AgentUnchanged
<1>4. ran' \in Seq([call : Calls, approvalToken : Tokens, appealToken : Tokens])
  <2>1. CASE Dispatch
    <3> DEFINE R == [call : Calls, approvalToken : Tokens, appealToken : Tokens]
               row == [call |-> run.call, approvalToken |-> run.approvalToken,
                       appealToken |-> run.appealToken]
    <3>1. row \in R /\ ran \in Seq(R)
      BY <2>1 DEF Dispatch, TypeOK, RunInv, Runs
    <3>2. ran' = ran \/ ran' = Append(ran, row)
      BY <2>1 DEF Dispatch
    <3> HIDE DEF R, row
    <3>3. ran' \in Seq(R)
      BY <3>1, <3>2
    <3> QED
      BY <3>3 DEF R
  <2>2. CASE ~Dispatch
    BY <2>2 DEF Gateway, RegistryLookup, VerifyAppeal, PiiGuardrail, ApprovalPolicy, TypeOK
  <2> QED
    BY <2>1, <2>2
<1> QED
  BY <1>2, <1>3, <1>4 DEF TypeOK, approvals

LEMMA HandleTypeOK ==
  ASSUME TypeOK, RunInv, IdsInv, ToolNeedsApproval => FreshId \in Ids,
         HandleResponse \/ HandleDecision
  PROVE  TypeOK'
<1> DEFINE Sessions == [status : AtRest \cup Busy, pendingApproval : Tokens, pendingAppeal : CallsOrNone]
<1>1. run' \in Runs /\ session' \in Sessions
  <2>1. CASE ToolOk \/ AppealRetryOk
    <3>1. run.step + 1 \in 0..MaxSteps \/ AppealRetryOk
      BY <2>1, StepsAssumption DEF ToolOk, OnResponse, IdsInv, TypeOK, Runs
    <3>2. run' \in Runs
      BY <2>1, <3>1, NoRunType DEF ToolOk, AppealRetryOk, Runs
    <3>3. session' \in Sessions
      BY <2>1 DEF ToolOk, AppealRetryOk, TypeOK, CallsOrNone
    <3> QED
      BY <3>2, <3>3
  <2>2. CASE ToolNeedsApproval
    BY <2>2 DEF ToolNeedsApproval, TypeOK, Runs, Tokens, Busy
  <2>3. CASE ApprovalGranted
    <3>1. run.id \in Tokens /\ run.attempt \in 0..MaxApprovalRetries /\ run \in Runs
      BY DEF TypeOK, Runs
    <3>2. run.attempt < MaxApprovalRetries => run.attempt + 1 \in 0..MaxApprovalRetries
      BY <3>1, StepsAssumption
    <3>3. run' \in Runs
      BY <2>3, <3>1, <3>2, NoRunType DEF ApprovalGranted, Runs
    <3> QED
      BY <2>3, <3>3 DEF ApprovalGranted, TypeOK, Tokens, AtRest, Busy
  <2>4. CASE AppealGranted
    BY <2>4 DEF AppealGranted, TypeOK, Runs
  <2>5. CASE \/ ToolBlocked \/ ToolBlockedAppealable \/ AppealRetryFailed \/ ApprovalRejected
             \/ ApprovalCancelled \/ AppealRejected \/ AppealCancelled
    <3>1. run' \in Runs
      BY <2>5, NoRunType
         DEF ToolBlocked, ToolBlockedAppealable, AppealRetryFailed, ApprovalRejected,
             ApprovalCancelled, AppealRejected, AppealCancelled, End
    <3>2. run.call \in CallsOrNone
      BY DEF TypeOK, Runs
    <3>3. session' \in Sessions
      BY <2>5, <3>2
         DEF ToolBlocked, ToolBlockedAppealable, AppealRetryFailed, ApprovalRejected,
             ApprovalCancelled, AppealRejected, AppealCancelled, End, SetStatus, TypeOK, Tokens,
             CallsOrNone, AtRest
    <3> QED
      BY <3>1, <3>3
  <2> QED
    BY <2>1, <2>2, <2>3, <2>4, <2>5 DEF HandleResponse, HandleDecision
<1>2. UNCHANGED <<inbox, approvals, view, sent, ran>>
  BY DEF HandleResponse, HandleDecision, ToolOk, ToolBlocked, ToolBlockedAppealable,
         ToolNeedsApproval, AppealRetryOk, AppealRetryFailed, ApprovalGranted, ApprovalRejected,
         ApprovalCancelled, AppealGranted, AppealRejected, AppealCancelled, OnResponse, Woken,
         AgentUnchanged
<1> QED
  BY <1>1, <1>2, SessionTypeOK

LEMMA RequestApprovalTypeOK ==
  ASSUME TypeOK, RunInv, AskInv, RequestApproval
  PROVE  TypeOK'
<1>1. run.id \in Ids /\ run.call \in Calls /\ run.pc = "requesting" /\ run \in Runs
  BY DEF RequestApproval, RunInv, AskInv, Asking, TypeOK
<1>2. run' \in Runs
  BY <1>1 DEF RequestApproval, GoTo, Runs
<1> DEFINE req == [kind |-> IF run.handler = "appeal" THEN "appeal" ELSE "approval",
                   group |-> IF run.handler = "appeal" THEN OpsManagers ELSE FinanceLeads,
                   call |-> run.call]
<1>3. req \in Requests /\ req # None
  BY <1>1, NoneAssumption DEF Requests
<1>4. status' = [status EXCEPT ![run.id] = "pending"] /\ request' = [request EXCEPT ![run.id] = req]
  BY DEF RequestApproval, Approval!Open
<1>5. UNCHANGED <<session, inbox, woken, view, sent, ran>>
  BY DEF RequestApproval, Approval!Open, AgentUnchanged
<1> QED
  BY <1>1, <1>2, <1>3, <1>4, <1>5 DEF TypeOK

LEMMA RecordTypeOK ==
  ASSUME TypeOK, NEW i \in Ids, Answer(i) \/ Wake(i)
  PROVE  TypeOK'
<1>1. CASE Answer(i)
  BY <1>1 DEF Answer, Approval!Decide, Approval!Decided, TypeOK
<1>2. CASE Wake(i)
  BY <1>2 DEF Wake, Approval!Wake, Approval!Decided, TypeOK
<1> QED
  BY <1>1, <1>2

LEMMA OperatorTypeOK ==
  ASSUME TypeOK, Operator
  PROVE  TypeOK'
<1>1. CASE Poll
  BY <1>1 DEF Poll, TypeOK, approvals
<1>2. ASSUME NEW op \in {"message", "reset", "appeal"}, Post(op) PROVE TypeOK'
  <2>1. inbox' \in Seq({"message", "reset", "appeal"}) /\ sent' \in 0..MaxInvocations
    BY <1>2, InvocationsAssumption DEF Post, TypeOK
  <2> QED
    BY <1>2, <2>1 DEF Post, TypeOK, approvals
<1> QED
  BY <1>1, <1>2 DEF Operator, PostMessage, ClickAppeal, CloseSession
-----------------------------------------------------------------------------
(* Fresh ids.                                                               *)

LEMMA UsedFinite ==
  /\ Ids \subseteq Nat /\ IsFiniteSet(Ids) /\ Cardinality(Ids) = MaxInvocations * (MaxSteps + 1)
  /\ IsFiniteSet(Used) /\ Cardinality(Used) \in Nat
<1>1. MaxInvocations * (MaxSteps + 1) \in Nat
  BY StepsAssumption, InvocationsAssumption
<1>2. IsFiniteSet(Ids) /\ Cardinality(Ids) = MaxInvocations * (MaxSteps + 1)
  BY <1>1, FS_Interval DEF Ids
<1>3. Used \subseteq Ids
  BY DEF Used
<1>4. IsFiniteSet(Used) /\ Cardinality(Used) \in Nat
  BY <1>2, <1>3, FS_Subset, FS_CardinalityType
<1>5. Ids \subseteq Nat
  <2> DEFINE n == MaxInvocations * (MaxSteps + 1)
  <2>1. n \in Nat
    BY <1>1
  <2> HIDE DEF n
  <2>2. 1..n \subseteq Nat
    BY <2>1
  <2> QED
    BY <2>2 DEF Ids, n
<1> QED
  BY <1>2, <1>4, <1>5

LEMMA FreshIdExists ==
  ASSUME Cardinality(Used) < MaxInvocations * (MaxSteps + 1)
  PROVE  FreshId \in Ids /\ status[FreshId] = "none"
<1>1. \E i \in Ids : status[i] = "none"
  <2>1. Used # Ids
    BY UsedFinite
  <2> QED
    BY <2>1 DEF Used
<1> QED
  BY <1>1 DEF FreshId

\* Budgets of whole invocations.
LEMMA Budget ==
  ASSUME NEW k \in Nat, NEW n \in Nat, k < n
  PROVE  /\ k * (MaxSteps + 1) \in Nat
         /\ (k + 1) * (MaxSteps + 1) = k * (MaxSteps + 1) + MaxSteps + 1
         /\ k * (MaxSteps + 1) + MaxSteps + 1 <= n * (MaxSteps + 1)
<1> DEFINE m == MaxSteps + 1
<1>1. m \in Nat
  BY StepsAssumption
<1>2. (k + 1) * m = k * m + m
  BY <1>1
<1>3. PICK d \in Nat : n = k + 1 + d
  <2>1. n - k - 1 \in Nat /\ n = k + 1 + (n - k - 1)
    OBVIOUS
  <2> QED
    BY <2>1
<1>4. n * m = (k + 1) * m + d * m /\ d * m \in Nat /\ k * m \in Nat
  BY <1>1, <1>3
<1> QED
  BY <1>1, <1>2, <1>4, StepsAssumption

\* How many ids are left to the running invocation.
LEMMA AsksType == TypeOK /\ RunInv /\ IdsInv => Asks \in Nat
  BY StepsAssumption DEF TypeOK, Runs, IdsInv, RunInv, Asks

LEMMA FreshIdForAppeal ==
  ASSUME TypeOK, IdsInv, run.pc = "idle", inbox # <<>>
  PROVE  FreshId \in Ids /\ status[FreshId] = "none"
<1>1. Len(inbox) \in Nat \ {0} /\ sent \in 0..MaxInvocations
  BY DEF TypeOK
<1>2. sent - Len(inbox) \in Nat /\ sent - Len(inbox) < MaxInvocations
  BY <1>1, InvocationsAssumption DEF IdsInv
<1>3. Cardinality(Used) <= (sent - Len(inbox)) * (MaxSteps + 1)
  BY UsedFinite DEF IdsInv, Asks
<1>4. (sent - Len(inbox)) * (MaxSteps + 1) < MaxInvocations * (MaxSteps + 1)
  <2>1. /\ (sent - Len(inbox)) * (MaxSteps + 1) \in Nat
        /\ (sent - Len(inbox)) * (MaxSteps + 1) + MaxSteps + 1 <= MaxInvocations * (MaxSteps + 1)
    BY <1>2, InvocationsAssumption, Budget
  <2>2. MaxInvocations * (MaxSteps + 1) \in Nat
    BY UsedFinite, FS_CardinalityType
  <2> QED
    BY <2>1, <2>2, StepsAssumption
<1>5. Cardinality(Used) < MaxInvocations * (MaxSteps + 1)
  <2>1. /\ Cardinality(Used) \in Nat /\ MaxInvocations * (MaxSteps + 1) \in Nat
        /\ (sent - Len(inbox)) * (MaxSteps + 1) \in Nat
    BY <1>2, UsedFinite, FS_CardinalityType, InvocationsAssumption, Budget
  <2> QED
    BY <1>3, <1>4, <2>1
<1> QED
  BY <1>5, FreshIdExists

LEMMA FreshIdForCall ==
  ASSUME TypeOK, RunInv, IdsInv, ToolNeedsApproval
  PROVE  FreshId \in Ids /\ status[FreshId] = "none"
<1>1. Asks >= 1
  BY StepsAssumption DEF ToolNeedsApproval, OnResponse, TypeOK, Runs, RunInv, IdsInv, Asks
<1> DEFINE k == sent - Len(inbox)
<1>2. k \in 0..MaxInvocations
  BY InvocationsAssumption DEF TypeOK, IdsInv
<1>3. k * (MaxSteps + 1) <= MaxInvocations * (MaxSteps + 1)
  <2>1. CASE k = MaxInvocations
    BY <2>1, StepsAssumption, InvocationsAssumption
  <2>2. CASE k < MaxInvocations
    <3>1. /\ k * (MaxSteps + 1) \in Nat
          /\ k * (MaxSteps + 1) + MaxSteps + 1 <= MaxInvocations * (MaxSteps + 1)
      BY <1>2, <2>2, InvocationsAssumption, Budget
    <3>2. MaxInvocations * (MaxSteps + 1) \in Nat
      BY UsedFinite, FS_CardinalityType
    <3> QED
      BY <3>1, <3>2, StepsAssumption
  <2> QED
    BY <1>2, <2>1, <2>2, InvocationsAssumption
<1>4. k * (MaxSteps + 1) \in Nat /\ MaxInvocations * (MaxSteps + 1) \in Nat
  BY <1>2, StepsAssumption, InvocationsAssumption
<1>5. Cardinality(Used) + Asks <= k * (MaxSteps + 1) /\ Cardinality(Used) \in Nat /\ Asks \in Nat
  BY UsedFinite, AsksType DEF IdsInv
<1>6. Cardinality(Used) < MaxInvocations * (MaxSteps + 1)
  <2> HIDE DEF k
  <2> QED
    BY <1>1, <1>3, <1>4, <1>5
<1> QED
  BY <1>6, FreshIdExists

-----------------------------------------------------------------------------
(* The steps of the agent.                                                  *)

LEMMA FreshIsUnspent ==
  ASSUME TypeOK, RanInv, NEW i \in Ids, status[i] # "approved"
  PROVE  Unspent(i)
  BY NoneAssumption DEF RanInv, Granted, Unspent, TypeOK

LEMMA InitIInv == Init => IInv
<1> SUFFICES ASSUME Init PROVE IInv
  OBVIOUS
<1>1. TypeOK
  BY InitTypeOK
<1>2. RunInv /\ TokenInv /\ AskInv /\ RecordInv /\ BannerInv /\ RanInv
  BY DEF Init, NoRun, EmptySession, Approval!Init, RunInv, TokenInv, AtGateway, AskInv, Asking,
         RecordInv, BannerInv, RanInv
<1>3. IdsInv
  <2>1. Used = {} /\ Asks = 0 /\ run.handler = "none" /\ Len(inbox) = 0 /\ sent = 0
    BY DEF Init, NoRun, Approval!Init, Used, Asks
  <2> QED
    BY <2>1, FS_EmptySet, StepsAssumption DEF IdsInv
<1>4. DecisionSpentOnce /\ SessionComesToRest
  BY DEF Init, NoRun, EmptySession, DecisionSpentOnce, SessionComesToRest, AtRest
<1> QED
  BY <1>1, <1>2, <1>3, <1>4 DEF IInv

LEMMA InvocationKeeps ==
  ASSUME IInv, Invocation
  PROVE  /\ RunInv' /\ TokenInv' /\ AskInv' /\ RecordInv' /\ BannerInv' /\ RanInv'
         /\ DecisionSpentOnce' /\ SessionComesToRest'
<1>1. UNCHANGED <<status, woken, request, ran>> /\ run.pc = "idle"
  BY DEF Invocation, SendMessage, Reset, RequestAppeal, AppealIgnored, NextInvocation, approvals
<1>2. session.pendingApproval = None
  BY <1>1 DEF IInv, SessionComesToRest
<1>3. CASE SendMessage
  BY <1>1, <1>2, <1>3
     DEF SendMessage, NoRun, IInv, RunInv, TokenInv, AtGateway, AskInv, Asking, RecordInv,
         BannerInv, RanInv, Granted, DecisionSpentOnce, SessionComesToRest
<1>4. CASE RequestAppeal
  <2>1. FreshId \in Ids /\ status[FreshId] = "none" /\ Unspent(FreshId)
    BY <1>1, <1>4, FreshIdForAppeal, FreshIsUnspent DEF RequestAppeal, NextInvocation, IInv
  <2>2. session.pendingAppeal \in Calls
    BY <1>4 DEF RequestAppeal, Appealable, IInv, TypeOK, CallsOrNone
  <2>3. /\ run' = [NoRun EXCEPT !.pc = "requesting", !.handler = "appeal", !.id = FreshId,
                                !.call = session.pendingAppeal]
        /\ session' = [session EXCEPT !.status = "appeal_pending"]
    BY <1>4 DEF RequestAppeal, SetStatus
  <2>4. /\ run'.pc = "requesting" /\ run'.handler = "appeal" /\ run'.id = FreshId
        /\ run'.call \in Calls /\ run'.approvalToken = None /\ run'.appealToken = None
    BY <2>2, <2>3 DEF NoRun
  <2>5. session'.pendingApproval = None
    BY <1>2, <2>3 DEF IInv, TypeOK
  <2>6. RunInv' /\ TokenInv' /\ BannerInv' /\ SessionComesToRest'
    BY <2>4, <2>5 DEF RunInv, TokenInv, AtGateway, BannerInv, SessionComesToRest
  <2>7. AskInv'
    BY <1>1, <2>1, <2>4 DEF AskInv, Asking, Unspent
  <2>8. RecordInv' /\ RanInv' /\ DecisionSpentOnce'
    BY <1>1 DEF IInv, RecordInv, RanInv, Granted, DecisionSpentOnce
  <2> QED
    BY <2>6, <2>7, <2>8
<1>5. CASE Reset \/ AppealIgnored
  <2>1. run' = run
    BY <1>5 DEF Reset, AppealIgnored
  <2> QED
    BY <1>1, <1>2, <1>5, <2>1
       DEF Reset, AppealIgnored, EmptySession, IInv, RunInv, TokenInv, AtGateway, AskInv, Asking,
           RecordInv, BannerInv, RanInv, Granted, DecisionSpentOnce, SessionComesToRest, AtRest
<1> QED
  BY <1>3, <1>4, <1>5 DEF Invocation

LEMMA LoopKeeps ==
  ASSUME IInv, Loop
  PROVE  /\ RunInv' /\ TokenInv' /\ AskInv' /\ RecordInv' /\ BannerInv' /\ RanInv'
         /\ DecisionSpentOnce' /\ SessionComesToRest'
<1>1. UNCHANGED <<status, woken, request, ran>> /\ run.pc \in {"loop", "planning"}
  BY DEF Loop, Think, StepLimitReached, PlanFinal, PlanToolCall, approvals
<1>2. /\ session.pendingApproval = None /\ run.handler = "turn"
      /\ run.approvalToken = None /\ run.appealToken = None
  BY <1>1 DEF IInv, BannerInv, Asking, RunInv
<1>3. session'.pendingApproval = None
  BY <1>2 DEF Loop, Think, StepLimitReached, PlanFinal, PlanToolCall, End, SetStatus, IInv, TypeOK
<1>4. \/ run' = NoRun /\ session'.status \in {"failed", "complete"}
      \/ run' = [run EXCEPT !.pc = "planning"]
      \/ \E call \in Calls : run' = [run EXCEPT !.pc = "lookup", !.call = call, !.attempt = 0,
                                                !.approvalToken = None]
  BY DEF Loop, Think, StepLimitReached, PlanFinal, PlanToolCall, End, SetStatus, GoTo, IInv, TypeOK
<1>5. /\ run'.pc \in {"idle", "planning", "lookup"} /\ run'.appealToken = None
      /\ run'.approvalToken = None
      /\ run'.pc = "lookup" => run'.call \in Calls
      /\ run'.pc # "idle" => run'.handler = "turn"
      /\ run'.pc = "idle" => run'.handler = "none" /\ session'.status \in {"failed", "complete"}
  <2>1. run \in Runs
    BY DEF IInv, TypeOK
  <2>2. CASE run' = NoRun /\ session'.status \in {"failed", "complete"}
    BY <2>2 DEF NoRun
  <2>3. CASE run' = [run EXCEPT !.pc = "planning"]
    BY <1>2, <2>1, <2>3 DEF Runs
  <2>4. ASSUME NEW call \in Calls,
               run' = [run EXCEPT !.pc = "lookup", !.call = call, !.attempt = 0, !.approvalToken = None]
        PROVE  /\ run'.pc = "lookup" /\ run'.appealToken = None /\ run'.approvalToken = None
               /\ run'.call \in Calls /\ run'.handler = "turn"
    BY <1>2, <2>1, <2>4 DEF Runs
  <2> QED
    BY <1>4, <2>2, <2>3, <2>4
<1>6. RunInv' /\ TokenInv' /\ AskInv'
  BY <1>5 DEF RunInv, TokenInv, AtGateway, AskInv, Asking
<1>7. BannerInv' /\ SessionComesToRest'
  BY <1>3, <1>5 DEF BannerInv, SessionComesToRest, AtRest
<1>8. RecordInv' /\ RanInv' /\ DecisionSpentOnce'
  BY <1>1 DEF IInv, RecordInv, RanInv, Granted, DecisionSpentOnce
<1> QED
  BY <1>6, <1>7, <1>8

\* The gateway changes where the run is, and a tool that runs spends the
\* tokens of its call.
LEMMA GatewayKeeps ==
  ASSUME IInv, Gateway
  PROVE  /\ RunInv' /\ TokenInv' /\ AskInv' /\ RecordInv' /\ BannerInv' /\ RanInv'
         /\ DecisionSpentOnce' /\ SessionComesToRest'
<1>1. UNCHANGED <<session, status, woken, request>> /\ run.pc \in AtGateway
  BY DEF Gateway, RegistryLookup, VerifyAppeal, PiiGuardrail, ApprovalPolicy, Dispatch, GatewayOnly,
         approvals, AtGateway
<1>2. \/ \E pc \in {"verify", "pii-guardrail", "approval-policy", "dispatch"} : GoTo(pc)
      \/ \E resp \in {"ok", "blocked", "appealable", "needs_approval"} : Respond(resp)
  BY DEF Gateway, RegistryLookup, VerifyAppeal, PiiGuardrail, ApprovalPolicy, Dispatch
<1>3. /\ run'.pc \in (AtGateway \ {"lookup"}) \cup {"response"}
      /\ run'.handler = run.handler /\ run'.call = run.call /\ run'.id = run.id
      /\ run'.approvalToken = run.approvalToken /\ run'.appealToken = run.appealToken
  BY <1>2 DEF GoTo, Respond, IInv, TypeOK, Runs, AtGateway
<1>4. session.pendingApproval = None
  BY <1>1 DEF IInv, BannerInv, Asking, AtGateway
<1>5. AskInv' /\ RecordInv' /\ BannerInv' /\ SessionComesToRest'
  BY <1>1, <1>3, <1>4
     DEF IInv, AskInv, Asking, AtGateway, RecordInv, BannerInv, SessionComesToRest
<1>6. RunInv'
  <2>1. /\ run'.handler = "turn" => run'.appealToken = None
        /\ run'.handler = "appeal" => run'.approvalToken = None
        /\ run'.call \in Calls /\ run'.handler # "none"
    BY <1>1, <1>3 DEF IInv, RunInv, AtGateway
  <2>2. run'.pc = "verify" => run'.appealToken # None
    BY <1>3 DEF Gateway, RegistryLookup, VerifyAppeal, PiiGuardrail, ApprovalPolicy, Dispatch, GoTo,
                Respond, IInv, TypeOK, Runs
  <2>3. run'.pc = "dispatch" /\ NeedsHuman(run'.call) => run'.approvalToken # None
    BY <1>3 DEF Gateway, RegistryLookup, VerifyAppeal, PiiGuardrail, ApprovalPolicy, Dispatch, GoTo,
                Respond, IInv, TypeOK, Runs
  <2>4. run'.pc = "response" /\ run'.resp = "needs_approval" => run'.approvalToken = None
    BY <1>3 DEF Gateway, RegistryLookup, VerifyAppeal, PiiGuardrail, ApprovalPolicy, Dispatch, GoTo,
                Respond, IInv, TypeOK, Runs
  <2>5. run'.pc \in {"approval-policy", "dispatch"} /\ run'.call \in Flagged => run'.appealToken # None
    BY <1>3 DEF Gateway, RegistryLookup, VerifyAppeal, PiiGuardrail, ApprovalPolicy, Dispatch, GoTo,
                Respond, Bypassed, IInv, TypeOK, Runs, RunInv
  <2> QED
    BY <1>3, <2>1, <2>2, <2>3, <2>4, <2>5 DEF RunInv, AtGateway
<1>7. ASSUME ran' = ran PROVE TokenInv' /\ RanInv' /\ DecisionSpentOnce'
  BY <1>1, <1>3, <1>7
     DEF IInv, TokenInv, RanInv, DecisionSpentOnce, Granted, Unspent, AtGateway
<1>8. ASSUME ran' # ran PROVE TokenInv' /\ RanInv' /\ DecisionSpentOnce'
  <2> DEFINE row == [call |-> run.call, approvalToken |-> run.approvalToken,
                     appealToken |-> run.appealToken]
             R == [call : Calls, approvalToken : Tokens, appealToken : Tokens]
  <2>1. Dispatch /\ ran' = Append(ran, row)
    BY <1>8 DEF Gateway, RegistryLookup, VerifyAppeal, PiiGuardrail, ApprovalPolicy, Dispatch
  <2>2. run'.pc = "response" /\ run.pc = "dispatch"
    BY <2>1 DEF Dispatch, Respond, IInv, TypeOK, Runs
  <2>3. TokenInv'
    BY <2>2 DEF TokenInv, AtGateway
  <2>4. ran \in Seq(R) /\ row \in R
    BY <2>2 DEF IInv, TypeOK, RunInv, Runs
  <2>5. /\ row.call = run.call /\ row.approvalToken = run.approvalToken
        /\ row.appealToken = run.appealToken
    OBVIOUS
  <2>6. /\ DOMAIN ran' = 1..Len(ran) + 1 /\ ran'[Len(ran) + 1] = row
        /\ \A n \in DOMAIN ran : ran'[n] = ran[n]
        /\ DOMAIN ran = 1..Len(ran) /\ Len(ran) \in Nat
    <3> HIDE DEF row, R
    <3> QED
      BY <2>1, <2>4
  <2> HIDE DEF row, R
  <2>7. \A n \in DOMAIN ran' : n \in DOMAIN ran \/ ran'[n] = row
    BY <2>6
  <2>8. /\ run.approvalToken # None =>
             Granted(run.approvalToken, "approval", run.call) /\ Unspent(run.approvalToken)
        /\ run.appealToken # None =>
             Granted(run.appealToken, "appeal", run.call) /\ Unspent(run.appealToken)
        /\ NeedsHuman(run.call) => run.approvalToken # None
        /\ run.call \in Flagged => run.appealToken # None
    BY <2>2 DEF IInv, TokenInv, RunInv, AtGateway
  <2>9. RanInv'
    BY <1>1, <2>5, <2>6, <2>7, <2>8 DEF IInv, RanInv, Granted
  <2>10. DecisionSpentOnce'
    <3> SUFFICES ASSUME NEW m \in DOMAIN ran', NEW n \in DOMAIN ran', m # n
                 PROVE  /\ ran'[m].approvalToken # None => ran'[m].approvalToken # ran'[n].approvalToken
                        /\ ran'[m].appealToken # None => ran'[m].appealToken # ran'[n].appealToken
      BY DEF DecisionSpentOnce
    <3>1. CASE m \in DOMAIN ran /\ n \in DOMAIN ran
      BY <2>6, <3>1 DEF IInv, DecisionSpentOnce
    <3>2. CASE m = Len(ran) + 1 /\ n \in DOMAIN ran
      BY <2>5, <2>6, <2>8, <3>2 DEF Unspent
    <3>3. CASE n = Len(ran) + 1 /\ m \in DOMAIN ran
      BY <2>5, <2>6, <2>8, <3>3 DEF Unspent
    <3> QED
      BY <2>6, <3>1, <3>2, <3>3
  <2> QED
    BY <2>3, <2>9, <2>10
<1> QED
  BY <1>5, <1>6, <1>7, <1>8

LEMMA ResponseKeeps ==
  ASSUME IInv, HandleResponse
  PROVE  /\ RunInv' /\ TokenInv' /\ AskInv' /\ RecordInv' /\ BannerInv' /\ RanInv'
         /\ DecisionSpentOnce' /\ SessionComesToRest'
<1>1. UNCHANGED <<status, woken, request, ran>> /\ run.pc = "response"
  BY DEF HandleResponse, ToolOk, ToolBlocked, ToolBlockedAppealable, ToolNeedsApproval,
         AppealRetryOk, AppealRetryFailed, OnResponse, approvals
<1>2. session.pendingApproval = None /\ run.call \in Calls
  BY <1>1 DEF IInv, BannerInv, Asking, RunInv
<1>3. RecordInv' /\ RanInv' /\ DecisionSpentOnce'
  BY <1>1 DEF IInv, RecordInv, RanInv, Granted, DecisionSpentOnce
<1>4. CASE ToolOk \/ AppealRetryOk
  <2>1. /\ run'.pc = "loop" /\ run'.handler = "turn"
        /\ run'.approvalToken = None /\ run'.appealToken = None
    BY <1>4 DEF ToolOk, AppealRetryOk, NextStep, NoRun
  <2>2. session'.pendingApproval = None
    BY <1>2, <1>4 DEF ToolOk, AppealRetryOk, IInv, TypeOK
  <2> QED
    BY <1>3, <2>1, <2>2
       DEF RunInv, TokenInv, AtGateway, AskInv, Asking, BannerInv, SessionComesToRest
<1>5. CASE ToolBlocked \/ ToolBlockedAppealable \/ AppealRetryFailed
  <2>1. run'.pc = "idle" /\ run'.handler = "none"
    BY <1>5 DEF ToolBlocked, ToolBlockedAppealable, AppealRetryFailed, End, NoRun
  <2>2. /\ session'.pendingApproval = None
        /\ session'.status = "failed" \/ session'.status = "blocked_appealable"
        /\ session'.status = "blocked_appealable" => session'.pendingAppeal # None
    BY <1>2, <1>5, CallsAssumption, NoneAssumption
       DEF ToolBlocked, ToolBlockedAppealable, AppealRetryFailed, End, SetStatus, IInv, TypeOK
  <2> QED
    BY <1>3, <2>1, <2>2
       DEF RunInv, TokenInv, AtGateway, AskInv, Asking, BannerInv, SessionComesToRest, AtRest
<1>6. CASE ToolNeedsApproval
  <2>1. FreshId \in Ids /\ status[FreshId] = "none" /\ Unspent(FreshId)
    BY <1>6, FreshIdForCall, FreshIsUnspent DEF IInv
  <2>2. run.handler = "turn" /\ run.approvalToken = None /\ run.appealToken = None
    BY <1>6 DEF ToolNeedsApproval, OnResponse, IInv, RunInv
  <2>3. /\ run'.pc = "requesting" /\ run'.handler = "turn" /\ run'.id = FreshId
        /\ run'.call = run.call /\ run'.approvalToken = None /\ run'.appealToken = None
        /\ session'.pendingApproval = FreshId
    BY <1>6, <2>2 DEF ToolNeedsApproval, IInv, TypeOK, Runs
  <2>4. RunInv' /\ TokenInv' /\ BannerInv' /\ SessionComesToRest'
    BY <1>2, <2>3 DEF RunInv, TokenInv, AtGateway, BannerInv, Asking, SessionComesToRest
  <2>5. AskInv'
    BY <1>1, <2>1, <2>3 DEF AskInv, Asking, Unspent
  <2> QED
    BY <1>3, <2>4, <2>5
<1> QED
  BY <1>4, <1>5, <1>6 DEF HandleResponse

LEMMA RequestApprovalKeeps ==
  ASSUME IInv, RequestApproval
  PROVE  /\ RunInv' /\ TokenInv' /\ AskInv' /\ RecordInv' /\ BannerInv' /\ RanInv'
         /\ DecisionSpentOnce' /\ SessionComesToRest'
<1>1. /\ run.pc = "requesting" /\ run.id \in Ids /\ Unspent(run.id) /\ status[run.id] = "none"
      /\ run.approvalToken = None /\ run.appealToken = None
  BY DEF RequestApproval, IInv, AskInv, Asking
<1>2. /\ run'.pc = "waiting" /\ run'.handler = run.handler /\ run'.call = run.call
      /\ run'.id = run.id /\ run'.approvalToken = None /\ run'.appealToken = None
      /\ run'.resp = run.resp
  BY <1>1 DEF RequestApproval, GoTo, IInv, TypeOK, Runs
<1>3. /\ status' = [status EXCEPT ![run.id] = "pending"]
      /\ UNCHANGED <<session, woken, ran>>
      /\ \A i \in Ids \ {run.id} : request'[i] = request[i]
      /\ request'[run.id].kind = IF run.handler = "appeal" THEN "appeal" ELSE "approval"
      /\ request'[run.id].call = run.call
  BY <1>1 DEF RequestApproval, Approval!Open, IInv, TypeOK
<1>4. RunInv' /\ TokenInv' /\ BannerInv' /\ SessionComesToRest'
  BY <1>1, <1>2, <1>3 DEF IInv, RunInv, TokenInv, AtGateway, BannerInv, Asking, SessionComesToRest
<1>5. AskInv'
  BY <1>1, <1>2, <1>3 DEF IInv, TypeOK, AskInv, Asking, Unspent
<1>6. RecordInv'
  <2>1. woken[run.id] = "open"
    BY <1>1 DEF IInv, RecordInv, TypeOK, Approval!Decided
  <2> QED
    BY <1>1, <1>2, <1>3, <2>1 DEF IInv, TypeOK, RecordInv
<1>7. RanInv' /\ DecisionSpentOnce'
  BY <1>1, <1>3 DEF IInv, TypeOK, RanInv, Granted, Unspent, DecisionSpentOnce
<1> QED
  BY <1>4, <1>5, <1>6, <1>7

LEMMA DecisionKeeps ==
  ASSUME IInv, HandleDecision
  PROVE  /\ RunInv' /\ TokenInv' /\ AskInv' /\ RecordInv' /\ BannerInv' /\ RanInv'
         /\ DecisionSpentOnce' /\ SessionComesToRest'
<1>1. /\ UNCHANGED <<status, woken, request, ran>> /\ run.pc = "waiting"
      /\ woken[run.id] \in {"approved", "rejected", "cancelled"}
  BY DEF HandleDecision, ApprovalGranted, ApprovalRejected, ApprovalCancelled, AppealGranted,
         AppealRejected, AppealCancelled, Woken, approvals
<1>2. /\ run.id \in Ids /\ Unspent(run.id) /\ run.approvalToken = None /\ run.appealToken = None
      /\ request[run.id].kind = IF run.handler = "appeal" THEN "appeal" ELSE "approval"
      /\ request[run.id].call = run.call /\ run.call \in Calls
  BY <1>1 DEF IInv, AskInv, Asking, RunInv
<1>3. status[run.id] = woken[run.id]
  BY <1>1, <1>2 DEF IInv, RecordInv
<1>4. RanInv' /\ DecisionSpentOnce'
  BY <1>1 DEF IInv, RanInv, Granted, DecisionSpentOnce
<1>5. RecordInv'
  BY <1>1, <1>2, <1>3 DEF IInv, RecordInv
<1>6. session'.pendingApproval = None
  <2>1. run.handler = "appeal" => session.pendingApproval = None
    BY DEF IInv, BannerInv
  <2> QED
    BY <2>1 DEF HandleDecision, ApprovalGranted, ApprovalRejected, ApprovalCancelled, AppealGranted,
         AppealRejected, AppealCancelled, Woken, End, SetStatus, IInv, TypeOK
<1>7. CASE run'.pc = "lookup"
  <2>1. \/ /\ run.handler = "turn" /\ woken[run.id] = "approved"
           /\ run'.handler = "turn" /\ run'.call = run.call
           /\ run'.approvalToken = run.id /\ run'.appealToken = None
        \/ /\ run.handler = "appeal" /\ woken[run.id] = "approved"
           /\ run'.handler = "appeal" /\ run'.call = run.call
           /\ run'.approvalToken = None /\ run'.appealToken = run.id
    <3>1. run \in Runs /\ NoRun.pc = "idle"
      BY DEF IInv, TypeOK, NoRun
    <3>2. CASE ApprovalGranted
      BY <1>2, <1>7, <3>1, <3>2 DEF ApprovalGranted, Woken, Runs
    <3>3. CASE AppealGranted
      BY <1>2, <3>1, <3>3 DEF AppealGranted, Woken, Runs
    <3>4. CASE ApprovalRejected \/ ApprovalCancelled \/ AppealRejected \/ AppealCancelled
      BY <1>7, <3>1, <3>4 DEF ApprovalRejected, ApprovalCancelled, AppealRejected, AppealCancelled, End
    <3> QED
      BY <3>2, <3>3, <3>4 DEF HandleDecision
  <2>2. RunInv' /\ AskInv' /\ BannerInv' /\ SessionComesToRest'
    BY <1>2, <1>6, <1>7, <2>1 DEF RunInv, AskInv, Asking, BannerInv, SessionComesToRest
  <2>3. TokenInv'
    BY <1>1, <1>2, <1>3, <2>1 DEF TokenInv, Granted, Unspent
  <2> QED
    BY <1>4, <1>5, <2>2, <2>3
<1>8. CASE run'.pc # "lookup"
  <2>1. run' = NoRun /\ session'.status = "failed"
    BY <1>8
       DEF HandleDecision, ApprovalGranted, ApprovalRejected, ApprovalCancelled, AppealGranted,
           AppealRejected, AppealCancelled, Woken, End, SetStatus, IInv, TypeOK, Runs
  <2>2. run'.pc = "idle" /\ run'.handler = "none"
    BY <2>1 DEF NoRun
  <2> QED
    BY <1>4, <1>5, <1>6, <2>1, <2>2
       DEF RunInv, TokenInv, AtGateway, AskInv, Asking, BannerInv, SessionComesToRest, AtRest
<1> QED
  BY <1>7, <1>8

LEMMA HumansKeep ==
  ASSUME IInv, Operator \/ \E i \in Ids : Answer(i) \/ Wake(i)
  PROVE  /\ RunInv' /\ TokenInv' /\ AskInv' /\ RecordInv' /\ BannerInv' /\ RanInv'
         /\ DecisionSpentOnce' /\ SessionComesToRest'
<1>1. UNCHANGED <<session, run, request, ran>>
  BY DEF Operator, Poll, PostMessage, ClickAppeal, CloseSession, Post, Answer, Wake, approvals
<1>2. RunInv' /\ BannerInv' /\ SessionComesToRest' /\ DecisionSpentOnce'
  BY <1>1 DEF IInv, RunInv, BannerInv, SessionComesToRest, DecisionSpentOnce
<1>3. CASE Operator
  <2>1. UNCHANGED <<status, woken>>
    BY <1>3 DEF Operator, Poll, PostMessage, ClickAppeal, CloseSession, Post, approvals
  <2> QED
    BY <1>1, <1>2, <2>1 DEF IInv, TokenInv, AskInv, RecordInv, RanInv, Granted, Unspent
<1>4. ASSUME NEW i \in Ids, Answer(i) \/ Wake(i)
      PROVE  TokenInv' /\ AskInv' /\ RecordInv' /\ RanInv'
  <2>1. CASE Answer(i)
    <3>1. /\ status[i] = "pending" /\ woken' = woken
          /\ \A j \in Ids \ {i} : status'[j] = status[j]
          /\ status'[i] \notin {"none", "pending"}
      BY <2>1 DEF Answer, Approval!Decide, Approval!Decided, IInv, TypeOK
    <3>2. \A j \in Ids : status[j] = "approved" => status'[j] = "approved"
      BY <3>1
    <3>3. woken[i] = "open"
      BY <3>1 DEF IInv, RecordInv, TypeOK, Approval!Decided
    <3> QED
      BY <1>1, <3>1, <3>2, <3>3 DEF IInv, TokenInv, AskInv, RecordInv, RanInv, Granted, Unspent
  <2>2. CASE Wake(i)
    BY <1>1, <2>2
       DEF Wake, Approval!Wake, Approval!Decided, IInv, TypeOK, TokenInv, AskInv, RecordInv, RanInv,
           Granted, Unspent
  <2> QED
    BY <1>4, <2>1, <2>2
<1> QED
  BY <1>2, <1>3, <1>4

\* An action that touches no record and leaves a run that may ask no more often.
LEMMA SameUsed ==
  ASSUME IInv, UNCHANGED <<status, inbox, sent>>, Asks' \in Nat, Asks' <= Asks,
         run'.handler = "turn" /\ run'.pc \notin {"idle", "loop"} => run'.step < MaxSteps
  PROVE  IdsInv'
<1>1. Used' = Used
  BY DEF Used
<1>2. /\ Asks \in Nat /\ Cardinality(Used) \in Nat
      /\ Len(inbox) <= sent /\ Len(inbox) \in Nat /\ sent \in Nat
  BY AsksType, UsedFinite, InvocationsAssumption DEF IInv, TypeOK, IdsInv
<1> DEFINE k == (sent - Len(inbox)) * (MaxSteps + 1)
<1>3. k \in Nat
  BY <1>2, StepsAssumption
<1>4. Cardinality(Used) + Asks <= k
  BY DEF IInv, IdsInv
<1>5. Cardinality(Used) + Asks' <= k
  <2> HIDE DEF k
  <2> QED
    BY <1>2, <1>3, <1>4
<1> QED
  BY <1>1, <1>2, <1>5 DEF IdsInv

LEMMA InvocationIds ==
  ASSUME IInv, Invocation
  PROVE  IdsInv'
<1>1. /\ inbox # <<>> /\ inbox' = Tail(inbox) /\ sent' = sent /\ status' = status /\ run.pc = "idle"
  BY DEF Invocation, SendMessage, Reset, RequestAppeal, AppealIgnored, NextInvocation, approvals
<1>2. /\ Asks = 0 /\ Used' = Used /\ Cardinality(Used) \in Nat
  BY <1>1, UsedFinite DEF Asks, Used
<1>3. /\ Len(inbox) \in Nat /\ Len(inbox') = Len(inbox) - 1 /\ Len(inbox) # 0
      /\ sent \in Nat /\ Len(inbox) <= sent
  BY <1>1, InvocationsAssumption DEF IInv, TypeOK, IdsInv
<1>4. /\ Asks' \in Nat /\ Asks' <= MaxSteps + 1
      /\ run'.handler = "turn" => run'.pc \in {"idle", "loop"}
  <2>1. CASE SendMessage
    BY <2>1, StepsAssumption DEF SendMessage, NoRun, Asks
  <2>2. CASE RequestAppeal
    BY <2>2, StepsAssumption DEF RequestAppeal, NoRun, Asks
  <2>3. CASE Reset \/ AppealIgnored
    BY <1>1, <2>3, StepsAssumption DEF Reset, AppealIgnored, Asks
  <2> QED
    BY <2>1, <2>2, <2>3 DEF Invocation
<1> DEFINE k == sent - Len(inbox)
<1>5. k \in Nat /\ sent' - Len(inbox') = k + 1
  BY <1>1, <1>3
<1>6. /\ k * (MaxSteps + 1) \in Nat
      /\ (k + 1) * (MaxSteps + 1) = k * (MaxSteps + 1) + MaxSteps + 1
  BY <1>5, Budget, k + 1 \in Nat /\ k < k + 1
<1>7. Cardinality(Used) <= k * (MaxSteps + 1)
  BY <1>2 DEF IInv, IdsInv
<1>8. Cardinality(Used) + Asks' <= (k + 1) * (MaxSteps + 1)
  <2> HIDE DEF k
  <2> QED
    BY <1>2, <1>4, <1>6, <1>7, StepsAssumption
<1>9. Cardinality(Used') + Asks' <= (sent' - Len(inbox')) * (MaxSteps + 1)
  BY <1>2, <1>5, <1>8
<1>10. Len(inbox') <= sent'
  BY <1>1, <1>3
<1> QED
  BY <1>4, <1>9, <1>10 DEF IdsInv

LEMMA AgentIds ==
  ASSUME IInv, Loop \/ Gateway \/ HandleResponse \/ HandleDecision
  PROVE  IdsInv'
<1>1. UNCHANGED <<status, inbox, sent>>
  BY DEF Loop, Think, StepLimitReached, PlanFinal, PlanToolCall, Gateway, RegistryLookup,
         VerifyAppeal, PiiGuardrail, ApprovalPolicy, Dispatch, GatewayOnly, AgentUnchanged, approvals,
         HandleResponse, ToolOk, ToolBlocked, ToolBlockedAppealable, ToolNeedsApproval, AppealRetryOk,
         AppealRetryFailed, OnResponse, HandleDecision, ApprovalGranted, ApprovalRejected,
         ApprovalCancelled, AppealGranted, AppealRejected, AppealCancelled, Woken
<1>2. /\ run \in Runs /\ run.step \in 0..MaxSteps /\ MaxSteps \in Nat
      /\ run.handler = "turn" /\ run.pc \notin {"idle", "loop"} => run.step < MaxSteps
      /\ Asks \in Nat
  BY AsksType, StepsAssumption DEF IInv, TypeOK, Runs, IdsInv
<1> DEFINE Fewer == /\ Asks' \in Nat /\ Asks' <= Asks
                    /\ run'.handler = "turn" /\ run'.pc \notin {"idle", "loop"} => run'.step < MaxSteps
<1>3. ASSUME run' = NoRun PROVE Fewer
  BY <1>2, <1>3 DEF NoRun, Asks
<1>4. CASE Loop
  <2>1. run.pc \in {"loop", "planning"} /\ run.handler = "turn" /\ run.approvalToken = None
    BY <1>4 DEF Loop, Think, StepLimitReached, PlanFinal, PlanToolCall, IInv, RunInv
  <2>2. ASSUME Think PROVE Fewer
    BY <1>2, <2>1, <2>2 DEF Think, GoTo, Runs, Asks
  <2>3. ASSUME NEW call \in Calls, PlanToolCall(call) PROVE Fewer
    BY <1>2, <2>1, <2>3 DEF PlanToolCall, Runs, Asks
  <2>4. Fewer
    BY <1>3, <1>4, <2>2, <2>3 DEF Loop, StepLimitReached, PlanFinal, End
  <2> QED
    BY <1>1, <2>4, SameUsed
<1>5. CASE Gateway
  <2>1. \/ \E pc \in {"verify", "pii-guardrail", "approval-policy", "dispatch"} : GoTo(pc)
        \/ \E resp \in {"ok", "blocked", "appealable", "needs_approval"} : Respond(resp)
    BY <1>5 DEF Gateway, RegistryLookup, VerifyAppeal, PiiGuardrail, ApprovalPolicy, Dispatch
  <2>2. run.pc \in AtGateway
    BY <1>5 DEF Gateway, RegistryLookup, VerifyAppeal, PiiGuardrail, ApprovalPolicy, Dispatch, AtGateway
  <2>3. /\ run'.pc \in AtGateway \cup {"response"} /\ run'.handler = run.handler
        /\ run'.step = run.step /\ run'.approvalToken = run.approvalToken
    BY <1>2, <2>1 DEF GoTo, Respond, Runs, AtGateway
  <2>4. Asks' = Asks
    BY <2>2, <2>3 DEF AtGateway, Asks
  <2>5. Fewer
    BY <1>2, <2>2, <2>3, <2>4 DEF AtGateway
  <2> QED
    BY <1>1, <2>5, SameUsed
<1>6. CASE HandleResponse
  <2>1. run.pc = "response" /\ (run.handler = "appeal" => run.approvalToken = None)
    BY <1>6 DEF HandleResponse, ToolOk, ToolBlocked, ToolBlockedAppealable, ToolNeedsApproval,
                AppealRetryOk, AppealRetryFailed, OnResponse, IInv, RunInv
  <2>2. ASSUME ToolOk \/ AppealRetryOk PROVE Fewer
    <3>1. /\ run'.pc = "loop" /\ run'.handler = "turn" /\ run'.approvalToken = None
          /\ run'.step = IF AppealRetryOk THEN 0 ELSE run.step + 1
      BY <2>2 DEF ToolOk, AppealRetryOk, OnResponse, NextStep, NoRun
    <3>2. Asks' = MaxSteps - run'.step
      BY <3>1 DEF Asks
    <3>3. CASE AppealRetryOk
      BY <1>2, <2>1, <3>1, <3>2, <3>3 DEF AppealRetryOk, OnResponse, Asks
    <3>4. CASE ~AppealRetryOk
      BY <1>2, <2>1, <2>2, <3>1, <3>2, <3>4 DEF ToolOk, OnResponse, Asks
    <3> QED
      BY <3>3, <3>4
  <2>3. ASSUME ToolNeedsApproval PROVE Fewer
    BY <1>2, <2>1, <2>3 DEF ToolNeedsApproval, OnResponse, Runs, IInv, RunInv, Asks
  <2>4. Fewer
    BY <1>3, <1>6, <2>2, <2>3
       DEF HandleResponse, ToolBlocked, ToolBlockedAppealable, AppealRetryFailed, End
  <2> QED
    BY <1>1, <2>4, SameUsed
<1>7. CASE HandleDecision
  <2>1. run.pc = "waiting" /\ run.approvalToken = None
    BY <1>7 DEF HandleDecision, ApprovalGranted, ApprovalRejected, ApprovalCancelled, AppealGranted,
                AppealRejected, AppealCancelled, Woken, IInv, AskInv, Asking
  <2>2. ASSUME ApprovalGranted, run' # NoRun PROVE Fewer
    <3>1. /\ run.handler = "turn" /\ run'.pc = "lookup" /\ run'.handler = "turn"
          /\ run'.step = run.step /\ run'.approvalToken = run.id /\ run.id # None
      BY <1>2, <2>1, <2>2, NoneAssumption DEF ApprovalGranted, Woken, Runs, IInv, AskInv, Asking
    <3>2. Asks' = MaxSteps - run.step - 1 /\ Asks = MaxSteps - run.step - 1
      BY <2>1, <3>1 DEF Asks
    <3> QED
      BY <1>2, <2>1, <3>1, <3>2
  <2>3. ASSUME AppealGranted PROVE Fewer
    BY <1>2, <2>1, <2>3 DEF AppealGranted, Woken, Runs, Asks
  <2>4. Fewer
    BY <1>3, <1>7, <2>2, <2>3
       DEF HandleDecision, ApprovalRejected, ApprovalCancelled, AppealRejected, AppealCancelled, End
  <2> QED
    BY <1>1, <2>4, SameUsed
<1> QED
  BY <1>4, <1>5, <1>6, <1>7

\* The id that is used up is one of those the run had left.
LEMMA RequestIds ==
  ASSUME IInv, RequestApproval
  PROVE  IdsInv'
<1>1. run.pc = "requesting" /\ run.id \in Ids /\ status[run.id] = "none" /\ run.approvalToken = None
  BY DEF RequestApproval, IInv, AskInv, Asking
<1>2. status' = [status EXCEPT ![run.id] = "pending"] /\ UNCHANGED <<inbox, sent>>
  BY DEF RequestApproval, Approval!Open, AgentUnchanged
<1>3. Used' = Used \cup {run.id} /\ run.id \notin Used
  BY <1>1, <1>2 DEF IInv, TypeOK, Used
<1>4. Cardinality(Used') = Cardinality(Used) + 1 /\ Cardinality(Used) \in Nat
  BY <1>3, UsedFinite, FS_AddElement
<1>5. /\ run'.pc = "waiting" /\ run'.handler = run.handler /\ run'.step = run.step
      /\ run'.approvalToken = None
  BY <1>1 DEF RequestApproval, GoTo, IInv, TypeOK, Runs
<1>6. /\ Asks' = Asks - 1 /\ Asks \in Nat
      /\ run'.handler = "turn" => run'.step < MaxSteps
  BY <1>1, <1>5, AsksType, StepsAssumption DEF IInv, TypeOK, Runs, IdsInv, Asks
<1>7. Cardinality(Used') + Asks' = Cardinality(Used) + Asks
  BY <1>4, <1>6
<1> QED
  BY <1>2, <1>6, <1>7 DEF IInv, IdsInv

LEMMA HumansIds ==
  ASSUME IInv, Operator \/ \E i \in Ids : Answer(i) \/ Wake(i)
  PROVE  IdsInv'
<1>1. run' = run /\ Asks' = Asks
  BY DEF Operator, Poll, PostMessage, ClickAppeal, CloseSession, Post, Answer, Wake, Asks
<1>2. Used' = Used
  <2>1. CASE Operator
    BY <2>1 DEF Operator, Poll, PostMessage, ClickAppeal, CloseSession, Post, approvals, Used
  <2>2. ASSUME NEW i \in Ids, Answer(i) \/ Wake(i) PROVE Used' = Used
    BY <2>2 DEF Answer, Wake, Approval!Decide, Approval!Wake, Approval!Decided, IInv, TypeOK, Used
  <2> QED
    BY <2>1, <2>2
<1>3. sent' - Len(inbox') = sent - Len(inbox) /\ Len(inbox') <= sent'
  <2>1. Len(inbox) \in Nat /\ sent \in Nat /\ Len(inbox) <= sent
    BY InvocationsAssumption DEF IInv, TypeOK, IdsInv
  <2>2. CASE UNCHANGED <<inbox, sent>>
    BY <2>1, <2>2
  <2>3. ASSUME NEW op \in {"message", "reset", "appeal"}, Post(op)
        PROVE  Len(inbox') = Len(inbox) + 1 /\ sent' = sent + 1
    BY <2>3 DEF Post, IInv, TypeOK
  <2> QED
    BY <2>1, <2>2, <2>3 DEF Operator, Poll, PostMessage, ClickAppeal, CloseSession, Answer, Wake
<1> QED
  BY <1>1, <1>2, <1>3 DEF IInv, IdsInv
-----------------------------------------------------------------------------
(* The invariant, and the properties that follow from it.                   *)

LEMMA NextIInv == IInv /\ [Next]_vars => IInv'
<1> SUFFICES ASSUME IInv, [Next]_vars PROVE IInv'
  OBVIOUS
<1> USE DEF IInv
<1>1. CASE Invocation
  <2>1. RequestAppeal => FreshId \in Ids
    BY FreshIdForAppeal DEF RequestAppeal, NextInvocation
  <2> QED
    BY <1>1, <2>1, InvocationTypeOK, InvocationKeeps, InvocationIds
<1>2. CASE Loop
  BY <1>2, LoopTypeOK, LoopKeeps, AgentIds
<1>3. CASE Gateway
  BY <1>3, GatewayTypeOK, GatewayKeeps, AgentIds
<1>4. CASE HandleResponse
  <2>1. ToolNeedsApproval => FreshId \in Ids
    BY FreshIdForCall
  <2> QED
    BY <1>4, <2>1, HandleTypeOK, ResponseKeeps, AgentIds
<1>5. CASE RequestApproval
  BY <1>5, RequestApprovalTypeOK, RequestApprovalKeeps, RequestIds
<1>6. CASE HandleDecision
  BY <1>6, FreshIdForCall, HandleTypeOK, DecisionKeeps, AgentIds
<1>7. CASE Operator
  BY <1>7, OperatorTypeOK, HumansKeep, HumansIds
<1>8. CASE \E i \in Ids : Answer(i) \/ Wake(i)
  BY <1>8, RecordTypeOK, HumansKeep, HumansIds
<1>9. CASE UNCHANGED vars
  BY <1>9 DEF vars, approvals, TypeOK, RunInv, TokenInv, AskInv, RecordInv, BannerInv, RanInv, IdsInv,
              Used, Asks, Granted, Unspent, DecisionSpentOnce, SessionComesToRest
<1> QED
  BY <1>1, <1>2, <1>3, <1>4, <1>5, <1>6, <1>7, <1>8, <1>9 DEF Next, Agent

\* Whatever the planner chooses and the humans decide, the session, its run,
\* the approvals and what reached the tools agree, and fresh ids never run out.
THEOREM AgentCorrect == Spec => []IInv
  BY InitIInv, NextIInv, PTL DEF Spec

\* Every value is of its type.
THEOREM AgentTypes == Spec => []TypeOK
<1>1. IInv => TypeOK
  BY DEF IInv
<1> QED
  BY <1>1, AgentCorrect, PTL

\* No call that needs a human reaches its tool but with an approval granted
\* for that very call; a granted appeal does not stand in for it.
THEOREM GatedApproved == Spec => []GatedCallsRunApproved
<1>1. IInv => GatedCallsRunApproved
  BY DEF IInv, RanInv, Granted, GatedCallsRunApproved
<1> QED
  BY <1>1, AgentCorrect, PTL

\* No call that the guardrail flags reaches its tool but with an appeal
\* granted for that very call.
THEOREM FlaggedAppealed == Spec => []FlaggedCallsRunAppealed
<1>1. IInv => FlaggedCallsRunAppealed
  BY DEF IInv, RanInv, Granted, FlaggedCallsRunAppealed
<1> QED
  BY <1>1, AgentCorrect, PTL

\* Though the gateway does not consume a token, no decision lets two calls through.
THEOREM SpentOnce == Spec => []DecisionSpentOnce
<1>1. IInv => DecisionSpentOnce
  BY DEF IInv
<1> QED
  BY <1>1, AgentCorrect, PTL

\* A pending request is always one a session waits for, and the banner names
\* the record that is asked for.
THEOREM RequestsAwaited == Spec => []PendingRequestIsAwaited
<1>1. IInv => PendingRequestIsAwaited
  BY DEF IInv, RecordInv, BannerInv, Asking, PendingRequestIsAwaited
<1> QED
  BY <1>1, AgentCorrect, PTL

\* When nothing runs on a session its page is usable: no busy status, no
\* banner, and a block that can be appealed has its call.
THEOREM ComesToRest == Spec => []SessionComesToRest
<1>1. IInv => SessionComesToRest
  BY DEF IInv
<1> QED
  BY <1>1, AgentCorrect, PTL

\* The gateway accepts the retry of every decision that woke the agent.
THEOREM RetryAccepted == Spec => []GrantedRetryAccepted
<1>1. IInv => GrantedRetryAccepted
  BY DEF IInv, RunInv, TokenInv, AtGateway, Granted, VerifyToken, GrantedRetryAccepted
<1> QED
  BY <1>1, AgentCorrect, PTL
=============================================================================
