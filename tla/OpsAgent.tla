------------------------------- MODULE OpsAgent -------------------------------
(***************************************************************************)
(* services/ops-agent (one Session object and its agent loop) composed     *)
(* with the gateway it calls (lookup, appeal check, pii-guardrail,         *)
(* approval-policy, dispatch), the approvals it waits for and the operator *)
(* page that watches it.                                                   *)
(*                                                                         *)
(* Sessions share nothing but the gateway and the approval service, which  *)
(* keep no state between calls of theirs that matters here, so one session *)
(* is modelled.  The planner is an LLM: it may pick any call or finish.    *)
(* The rate limiter only delays a call; RateLimit models it.  Messages,    *)
(* costs, failureReason and the call log are left out.                     *)
(***************************************************************************)
EXTENDS Integers, Sequences, Policies

CONSTANTS
  Calls,              \* the tool calls the planner may choose
  Flagged,            \* the calls the PII guardrail flags
  Doubtful,           \* the calls it may or may not flag (the live classifier)
  MaxSteps,           \* MAX_STEPS of the agent loop
  MaxApprovalRetries, \* MAX_APPROVAL_RETRIES
  MaxInvocations,     \* bound of the model: posts of the operator page
  None

ASSUME CallsAssumption == Flagged \subseteq Calls /\ Doubtful \subseteq Calls
ASSUME StepsAssumption == MaxSteps \in Nat \ {0} /\ MaxApprovalRetries \in Nat
ASSUME InvocationsAssumption == MaxInvocations \in Nat

\* Enough ids for every invocation: an appeal and then an approval per step.
Ids == 1..MaxInvocations * (MaxSteps + 1)

\* What requestApproval is called with.
Requests == [kind : {"approval", "appeal"}, group : {FinanceLeads, OpsManagers}, call : Calls]

ASSUME NoneAssumption == None \notin Calls /\ None \notin Ids /\ None \notin Requests

AtRest == {"idle", "complete", "failed", "blocked_appealable"}
Busy == {"thinking", "calling_tool", "needs_approval", "appeal_pending"}

VARIABLES
  session,  \* the Session object: status, pendingApproval (an id), pendingAppeal (a call)
  run,      \* the running invocation and the gateway call it is in
  inbox,    \* invocations queued at the Session object
  status,   \* status[i]: the record of ApprovalService/i
  woken,    \* woken[i]: what its awakeable was completed with, or "open"
  request,  \* request[i]: what was asked of the approvers
  view,     \* the state the operator page polled last
  sent,     \* posts of the operator page so far
  ran       \* guarded calls that reached their tool, with their tokens (history)

approvals == <<status, woken, request>>
vars == <<session, run, inbox, approvals, view, sent, ran>>

Approval == INSTANCE ApprovalVerdict WITH Approvals <- Ids, verdict <- status

EmptySession == [status |-> "idle", pendingApproval |-> None, pendingAppeal |-> None]
NoRun == [pc |-> "idle", handler |-> "none", step |-> 0, call |-> None, attempt |-> 0,
          id |-> None, approvalToken |-> None, appealToken |-> None, resp |-> "none"]

Init ==
  /\ session = EmptySession
  /\ run = NoRun
  /\ inbox = <<>>
  /\ Approval!Init
  /\ request = [i \in Ids |-> None]
  /\ view = [status |-> "idle", pendingAppeal |-> None]
  /\ sent = 0
  /\ ran = <<>>

\* The running invocation goes on at pc; it ends leaving the session in a status.
GoTo(pc) == run' = [run EXCEPT !.pc = pc]
SetStatus(s) == session' = [session EXCEPT !.status = s]
End(s) == run' = NoRun /\ SetStatus(s)

AgentUnchanged == UNCHANGED <<inbox, view, sent>>

-----------------------------------------------------------------------------
(* The invocations of the Session object, one at a time.                    *)

NextInvocation(op) ==
  /\ run.pc = "idle" /\ inbox # <<>> /\ Head(inbox) = op
  /\ inbox' = Tail(inbox)
  /\ UNCHANGED <<approvals, view, sent, ran>>

SendMessage ==
  /\ NextInvocation("message")
  /\ run' = [NoRun EXCEPT !.pc = "loop", !.handler = "turn"]
  /\ UNCHANGED session

Reset ==
  /\ NextInvocation("reset")
  /\ session' = EmptySession
  /\ UNCHANGED run

\* ctx.rand.uuidv4(): an id no one has used.
FreshId == CHOOSE i \in Ids : status[i] = "none"

Appealable == session.pendingAppeal # None /\ session.status = "blocked_appealable"

RequestAppeal ==
  /\ NextInvocation("appeal")
  /\ Appealable
  /\ SetStatus("appeal_pending")
  /\ run' = [NoRun EXCEPT !.pc = "requesting", !.handler = "appeal", !.id = FreshId,
                          !.call = session.pendingAppeal]

AppealIgnored ==
  /\ NextInvocation("appeal")
  /\ ~Appealable
  /\ UNCHANGED <<session, run>>

-----------------------------------------------------------------------------
(* runLoop                                                                  *)

\* Mutant: the loop runs once more than MAX_STEPS.
ThinkOnceMore ==
  /\ run.pc = "loop" /\ run.step <= MaxSteps
  /\ SetStatus("thinking")
  /\ GoTo("planning")
  /\ AgentUnchanged /\ UNCHANGED <<approvals, ran>>

Think ==
  /\ run.pc = "loop" /\ run.step < MaxSteps
  /\ SetStatus("thinking")
  /\ GoTo("planning")
  /\ AgentUnchanged /\ UNCHANGED <<approvals, ran>>

StepLimitReached ==
  /\ run.pc = "loop" /\ run.step >= MaxSteps
  /\ End("failed")
  /\ AgentUnchanged /\ UNCHANGED <<approvals, ran>>

PlanFinal ==
  /\ run.pc = "planning"
  /\ End("complete")
  /\ AgentUnchanged /\ UNCHANGED <<approvals, ran>>

PlanToolCall(call) ==
  /\ run.pc = "planning"
  /\ SetStatus("calling_tool")
  /\ run' = [run EXCEPT !.pc = "lookup", !.call = call, !.attempt = 0, !.approvalToken = None]
  /\ AgentUnchanged /\ UNCHANGED <<approvals, ran>>

-----------------------------------------------------------------------------
(* Gateway.callTool.  An appeal retry carries bypassMiddlewares =           *)
(* ["pii-guardrail"], the only source of an appealable block.               *)

Respond(resp) == run' = [run EXCEPT !.pc = "response", !.resp = resp]
GatewayOnly == AgentUnchanged /\ UNCHANGED <<session, approvals>>

VerifyToken(i, fingerprint) ==
  status[i] = "approved" /\ Fingerprint(request[i].call) = fingerprint

\* Tools register when their service starts and can be unregistered.
RegistryLookup ==
  /\ run.pc = "lookup"
  /\ \/ Respond("blocked")
     \/ GoTo(IF run.appealToken # None THEN "verify" ELSE "pii-guardrail")
  /\ GatewayOnly /\ UNCHANGED ran

VerifyAppeal ==
  /\ run.pc = "verify"
  /\ IF VerifyToken(run.appealToken, Fingerprint(run.call))
       THEN GoTo("pii-guardrail")
       ELSE Respond("blocked")
  /\ GatewayOnly /\ UNCHANGED ran

Bypassed == IF run.appealToken # None THEN {"pii-guardrail"} ELSE {}

PiiGuardrail ==
  /\ run.pc = "pii-guardrail"
  /\ \/ /\ "pii-guardrail" \in Bypassed \/ run.call \notin Flagged
        /\ GoTo("approval-policy")
     \/ /\ "pii-guardrail" \notin Bypassed
        /\ run.call \in Flagged \cup Doubtful
        /\ Respond("appealable")
  /\ GatewayOnly /\ UNCHANGED ran

\* Mutant: a granted appeal bypasses this middleware too.
ApprovalPolicyBypassed ==
  /\ run.pc = "approval-policy"
  /\ IF ~NeedsHuman(run.call) \/ run.appealToken # None THEN GoTo("dispatch")
     ELSE IF run.approvalToken = None THEN Respond("needs_approval")
     ELSE IF VerifyToken(run.approvalToken, Fingerprint(run.call)) THEN GoTo("dispatch")
     ELSE Respond("blocked")
  /\ GatewayOnly /\ UNCHANGED ran

ApprovalPolicy ==
  /\ run.pc = "approval-policy"
  /\ IF ~NeedsHuman(run.call) THEN GoTo("dispatch")
     ELSE IF run.approvalToken = None THEN Respond("needs_approval")
     ELSE IF VerifyToken(run.approvalToken, Fingerprint(run.call)) THEN GoTo("dispatch")
     ELSE Respond("blocked")
  /\ GatewayOnly /\ UNCHANGED ran

Guarded(call) == NeedsHuman(call) \/ call \in Flagged \cup Doubtful

\* The tool runs and answers; callTool returns ok.
Dispatch ==
  /\ run.pc = "dispatch"
  /\ ran' = IF Guarded(run.call)
              THEN Append(ran, [call |-> run.call, approvalToken |-> run.approvalToken,
                                appealToken |-> run.appealToken])
              ELSE ran
  /\ Respond("ok")
  /\ GatewayOnly

-----------------------------------------------------------------------------
(* dispatchToolCall, on each response of the gateway                        *)

OnResponse(handler, resp) ==
  /\ run.pc = "response" /\ run.handler = handler /\ run.resp = resp
  /\ AgentUnchanged /\ UNCHANGED <<approvals, ran>>

\* Mutant: the appeal of one call is sent along with the calls after it.
NextStepKeepsAppeal ==
  [NoRun EXCEPT !.pc = "loop", !.handler = "turn", !.appealToken = run.appealToken]

NextStep == [NoRun EXCEPT !.pc = "loop", !.handler = "turn"]

ToolOk ==
  /\ OnResponse("turn", "ok")
  /\ run' = [NextStep EXCEPT !.step = run.step + 1]
  /\ UNCHANGED session

ToolBlocked ==
  /\ OnResponse("turn", "blocked")
  /\ End("failed")

ToolBlockedAppealable ==
  /\ OnResponse("turn", "appealable")
  /\ session' = [session EXCEPT !.pendingAppeal = run.call, !.status = "blocked_appealable"]
  /\ run' = NoRun

ToolNeedsApproval ==
  /\ OnResponse("turn", "needs_approval")
  /\ session' = [session EXCEPT !.pendingApproval = FreshId, !.status = "needs_approval"]
  /\ run' = [run EXCEPT !.pc = "requesting", !.id = FreshId]

\* The call ApprovalService.requestApproval, of an approval and of an appeal.
RequestApproval ==
  /\ run.pc = "requesting"
  /\ Approval!Open(run.id)
  /\ request' = [request EXCEPT ![run.id] =
       [kind |-> IF run.handler = "appeal" THEN "appeal" ELSE "approval",
        group |-> IF run.handler = "appeal" THEN OpsManagers ELSE FinanceLeads,
        call |-> run.call]]
  /\ GoTo("waiting")
  /\ AgentUnchanged /\ UNCHANGED <<session, ran>>

\* The awakeable promise settles.
Woken(handler, outcome) ==
  /\ run.pc = "waiting" /\ run.handler = handler /\ woken[run.id] = outcome
  /\ AgentUnchanged /\ UNCHANGED <<approvals, ran>>

\* Mutant: the banner stays up while the approved call is retried.
ApprovalGrantedKeepsBanner ==
  /\ Woken("turn", "approved")
  /\ run' = [run EXCEPT !.pc = "lookup", !.approvalToken = run.id, !.attempt = 1, !.resp = "none"]
  /\ SetStatus("calling_tool")

ApprovalGranted ==
  /\ Woken("turn", "approved")
  /\ IF run.attempt < MaxApprovalRetries
       THEN /\ run' = [run EXCEPT !.pc = "lookup", !.approvalToken = run.id,
                                  !.attempt = @ + 1, !.resp = "none"]
            /\ session' = [session EXCEPT !.pendingApproval = None, !.status = "calling_tool"]
       ELSE /\ run' = NoRun
            /\ session' = [session EXCEPT !.pendingApproval = None, !.status = "failed"]

\* Mutant: a rejected turn returns without setting the status.
ApprovalRejectedNoStatus ==
  /\ Woken("turn", "rejected")
  /\ session' = [session EXCEPT !.pendingApproval = None]
  /\ run' = NoRun

ApprovalRejected ==
  /\ Woken("turn", "rejected")
  /\ session' = [session EXCEPT !.pendingApproval = None, !.status = "failed"]
  /\ run' = NoRun

ApprovalCancelled ==
  /\ Woken("turn", "cancelled")
  /\ session' = [session EXCEPT !.pendingApproval = None, !.status = "failed"]
  /\ run' = NoRun

-----------------------------------------------------------------------------
(* requestAppeal, after the decision                                        *)

AppealGranted ==
  /\ Woken("appeal", "approved")
  /\ run' = [run EXCEPT !.pc = "lookup", !.appealToken = run.id]
  /\ UNCHANGED session

AppealRejected ==
  /\ Woken("appeal", "rejected")
  /\ session' = [session EXCEPT !.pendingAppeal = None, !.status = "failed"]
  /\ run' = NoRun

\* Mutant: the rejection of the awakeable is not caught and tried for ever.
AppealCancelledUncaught ==
  /\ Woken("appeal", "cancelled")
  /\ UNCHANGED <<session, run>>

AppealCancelled ==
  /\ Woken("appeal", "cancelled")
  /\ End("failed")

AppealRetryOk ==
  /\ OnResponse("appeal", "ok")
  /\ session' = [session EXCEPT !.pendingAppeal = None]
  /\ run' = NextStep

AppealRetryFailed ==
  /\ \E resp \in {"blocked", "appealable", "needs_approval"} : OnResponse("appeal", resp)
  /\ session' = [session EXCEPT !.pendingAppeal = None, !.status = "failed"]
  /\ run' = NoRun

-----------------------------------------------------------------------------
(* The humans and the operator page.                                        *)

Answer(i) ==
  /\ \E outcome \in Approval!Decided : Approval!Decide(i, outcome)
  /\ UNCHANGED <<session, run, inbox, request, view, sent, ran>>

\* Mutant: the approval service wakes the agent before it writes its record.
WakeBeforeRecord(i) ==
  /\ status[i] = "pending" /\ woken[i] = "open"
  /\ \E outcome \in Approval!Decided : woken' = [woken EXCEPT ![i] = outcome]
  /\ UNCHANGED <<session, run, inbox, status, request, view, sent, ran>>

Wake(i) ==
  /\ Approval!Wake(i)
  /\ UNCHANGED <<session, run, inbox, request, view, sent, ran>>

Poll ==
  /\ view' = [status |-> session.status, pendingAppeal |-> session.pendingAppeal]
  /\ UNCHANGED <<session, run, inbox, approvals, sent, ran>>

Post(invocation) ==
  /\ sent < MaxInvocations
  /\ sent' = sent + 1
  /\ inbox' = Append(inbox, invocation)
  /\ UNCHANGED <<session, run, approvals, view, ran>>

\* The input is disabled while the status shown is a busy one.
PostMessage == view.status \notin Busy /\ Post("message")

\* The button of the blocked call that is shown.
ClickAppeal ==
  /\ view.status = "blocked_appealable" /\ view.pendingAppeal # None
  /\ Post("appeal")

CloseSession == Post("reset")

Invocation == SendMessage \/ Reset \/ RequestAppeal \/ AppealIgnored
Loop == Think \/ StepLimitReached \/ PlanFinal \/ \E call \in Calls : PlanToolCall(call)
Gateway == RegistryLookup \/ VerifyAppeal \/ PiiGuardrail \/ ApprovalPolicy \/ Dispatch
HandleResponse == \/ ToolOk \/ ToolBlocked \/ ToolBlockedAppealable \/ ToolNeedsApproval
                  \/ AppealRetryOk \/ AppealRetryFailed
HandleDecision == \/ ApprovalGranted \/ ApprovalRejected \/ ApprovalCancelled
                  \/ AppealGranted \/ AppealRejected \/ AppealCancelled

Agent == Invocation \/ Loop \/ Gateway \/ HandleResponse \/ RequestApproval \/ HandleDecision
Operator == Poll \/ PostMessage \/ ClickAppeal \/ CloseSession

Next == Agent \/ Operator \/ \E i \in Ids : Answer(i) \/ Wake(i)

\* The runtime runs every invocation to its end, across crashes, and wakes
\* it (ApprovalVerdict); humans and pages owe nothing.
Spec == Init /\ [][Next]_vars /\ WF_vars(Agent) /\ \A i \in Ids : WF_vars(Wake(i))

-----------------------------------------------------------------------------
(* Properties.                                                              *)

Tokens == Ids \cup {None}
CallsOrNone == Calls \cup {None}

Runs ==
  [pc : {"idle", "loop", "planning", "lookup", "verify", "pii-guardrail", "approval-policy",
         "dispatch", "response", "requesting", "waiting"},
   handler : {"none", "turn", "appeal"},
   step : 0..MaxSteps, call : CallsOrNone, attempt : 0..MaxApprovalRetries,
   id : Tokens, approvalToken : Tokens, appealToken : Tokens,
   resp : {"none", "ok", "blocked", "appealable", "needs_approval"}]

TypeOK ==
  /\ session \in [status : AtRest \cup Busy, pendingApproval : Tokens, pendingAppeal : CallsOrNone]
  /\ run \in Runs
  /\ inbox \in Seq({"message", "reset", "appeal"})
  /\ status \in [Ids -> {"none", "pending"} \cup Approval!Decided]
  /\ woken \in [Ids -> {"open"} \cup Approval!Decided]
  /\ request \in [Ids -> Requests \cup {None}]
  /\ \A i \in Ids : request[i] = None <=> status[i] = "none"
  /\ view \in [status : AtRest \cup Busy, pendingAppeal : CallsOrNone]
  /\ sent \in 0..MaxInvocations
  /\ ran \in Seq([call : Calls, approvalToken : Tokens, appealToken : Tokens])

\* A call that needs a human reaches its tool only with an approval that a
\* human granted for that very call; a granted appeal does not stand in for
\* it, so a call that is both gated and flagged never runs.
GatedCallsRunApproved ==
  \A n \in DOMAIN ran : NeedsHuman(ran[n].call) =>
    LET i == ran[n].approvalToken IN
      /\ i # None
      /\ status[i] = "approved"
      /\ request[i].kind = "approval" /\ request[i].call = ran[n].call

\* A call the guardrail flags reaches its tool only with an appeal that was
\* granted for that very call.
FlaggedCallsRunAppealed ==
  \A n \in DOMAIN ran : ran[n].call \in Flagged =>
    LET i == ran[n].appealToken IN
      /\ i # None
      /\ status[i] = "approved"
      /\ request[i].kind = "appeal" /\ request[i].call = ran[n].call

\* One decision lets at most one call through: no approval and no appeal is
\* spent twice, though verifyToken does not consume it.
DecisionSpentOnce ==
  \A m, n \in DOMAIN ran : m # n =>
    /\ ran[m].approvalToken # None => ran[m].approvalToken # ran[n].approvalToken
    /\ ran[m].appealToken # None => ran[m].appealToken # ran[n].appealToken

\* Approvers are never asked in vain: a pending request has a session that
\* waits for it and for nothing else, and the banner of a session that waits
\* for an approval names the record it waits for.
PendingRequestIsAwaited ==
  /\ \A i \in Ids : status[i] = "pending" => run.pc = "waiting" /\ run.id = i
  /\ session.pendingApproval # None =>
       run.pc \in {"requesting", "waiting"} /\ run.id = session.pendingApproval

\* When no invocation runs the page is usable: the status is not a busy one
\* (the input would stay disabled for good), no banner waits for an approval,
\* and a block that can be appealed still has its call.
SessionComesToRest ==
  run.pc = "idle" =>
    /\ session.status \in AtRest
    /\ session.pendingApproval = None
    /\ session.status = "blocked_appealable" => session.pendingAppeal # None

\* The gateway never refuses the retry of a decision that woke the agent: the
\* record is approved before the waiter hears of it, and the fingerprint fits.
\* (The code after the retry, "approval_retry_exhausted", is therefore dead.)
GrantedRetryAccepted ==
  /\ run.pc = "verify" => VerifyToken(run.appealToken, Fingerprint(run.call))
  /\ run.pc = "approval-policy" /\ run.approvalToken # None =>
       VerifyToken(run.approvalToken, Fingerprint(run.call))

\* Whatever the planner does, and whatever was posted, closed or appealed in
\* between, a running invocation ends, or waits for a request that approvers
\* have not answered yet: nothing but a human holds a session up.
OnlyHumansHoldUp ==
  (run.pc # "idle") ~> (run.pc = "idle" \/ \E i \in Ids : status[i] = "pending")
=============================================================================
