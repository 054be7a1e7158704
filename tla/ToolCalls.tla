------------------------------ MODULE ToolCalls ------------------------------
(***************************************************************************)
(* Gateway.callTool and the tool service behind it while processes die:    *)
(* the journaled steps of callTool with every path on which it returns,    *)
(* the log of recent calls in the memory of the gateway (calls-log.ts),    *)
(* the attempts at a tool with BUGGY_MODE and a retry policy               *)
(* (apply-credit.ts), and the registration of tools when their service     *)
(* starts (self-register.ts, ToolRegistry).                                *)
(*                                                                         *)
(* The Restate runtime journals a step once its outcome has arrived; an    *)
(* attempt that is lost is made again from the journal.  The runtime, its  *)
(* state and its journals survive.  What the middlewares decide is free    *)
(* here (OpsAgent and RateLimit model it).                                 *)
(***************************************************************************)
EXTENDS Naturals, Sequences, SequencesExt

CONSTANTS
  Calls,            \* calls of agents
  Owned,            \* the tools the service registers, in order
  ToolOf,           \* ToolOf[c]: the tool of call c
  Broken,           \* calls with an amount that BUGGY_MODE rejects
  Retried,          \* tools with a retry policy: maxAttempts, then pause
  MaxAttempts,      \* 3: maxAttempts of that policy
  RegisterAttempts, \* 30: MAX_ATTEMPTS of registerOne
  MAX,              \* 30: rows of the log of recent calls
  MaxFaults         \* bound of the model: crashes and lost connections

ASSUME OwnedAssumption == /\ Owned \in Seq(ToSet(Owned)) /\ IsInjective(Owned)
                          /\ ToolOf \in [Calls -> ToSet(Owned)]
ASSUME BoundsAssumption == {MaxAttempts, RegisterAttempts, MAX} \subseteq Nat \ {0} /\ MaxFaults \in Nat

VARIABLES
  up,       \* the processes that run, of "gateway" and "tools"
  buggy,    \* BUGGY_MODE in the environment of the tools process
  deployed, \* the runtime knows the gateway's deployment
  known,    \* tools in the ToolRegistry
  boot,     \* the tool the tools process registers next, and its attempts
  call,     \* call[c]: journal of callTool
  tool,     \* tool[c]: the invocation of the tool
  buf,      \* rows of recent calls: [call, status]
  missed,   \* calls that were answered in an earlier life of the gateway (history)
  faults    \* crashes and lost connections so far

vars == <<up, buggy, deployed, known, boot, call, tool, buf, missed, faults>>
services == <<up, buggy, deployed, known, boot>>

NoCall == [at |-> "idle", status |-> "none", ran |-> FALSE]
NoTool == [at |-> "none", tries |-> 0]
AtBoot == [next |-> 1, tries |-> 0]

\* Everything is started at once for the first time: nothing is deployed or
\* registered.
Init ==
  /\ up = {"gateway", "tools"} /\ buggy \in BOOLEAN
  /\ deployed = FALSE /\ known = {} /\ boot = AtBoot
  /\ call = [c \in Calls |-> NoCall] /\ tool = [c \in Calls |-> NoTool]
  /\ buf = <<>> /\ missed = {} /\ faults = 0

-----------------------------------------------------------------------------
(* callTool.  The gateway makes a step only while it runs.                   *)

Step(c, at) == "gateway" \in up /\ deployed /\ call[c].at = at

Call(c) ==
  /\ call[c].at = "idle"
  /\ call' = [call EXCEPT ![c].at = "lookup"]
  /\ UNCHANGED <<services, tool, buf, missed, faults>>

Goto(c, at) == call' = [call EXCEPT ![c].at = at]

\* Mutant: an unknown tool is answered without a row.
ReturnsUnlogged(c, status) == call' = [call EXCEPT ![c].at = IF status = "unknown" THEN "answered" ELSE "log", ![c].status = status]

\* Every path on which callTool returns goes through log.
Returns(c, status) == call' = [call EXCEPT ![c].at = "log", ![c].status = status]

RegistryLookup(c) ==
  /\ Step(c, "lookup")
  /\ IF ToolOf[c] \in known THEN Goto(c, "chain") ELSE Returns(c, "unknown")
  /\ UNCHANGED <<services, tool, buf, missed, faults>>

\* The check of an appeal token and the middleware chain.
MiddlewareChain(c) ==
  /\ Step(c, "chain")
  /\ Goto(c, "dispatch") \/ Returns(c, "blocked") \/ Returns(c, "needs_approval")
  /\ UNCHANGED <<services, tool, buf, missed, faults>>

Dispatch(c) ==
  /\ Step(c, "dispatch")
  /\ Goto(c, "suspended")
  /\ tool' = [tool EXCEPT ![c].at = "ready"]
  /\ UNCHANGED <<services, buf, missed, faults>>

ToolAnswered(c) ==
  /\ Step(c, "suspended") /\ tool[c].at = "done"
  /\ Returns(c, "ok")
  /\ UNCHANGED <<services, tool, buf, missed, faults>>

\* Mutant: no row is dropped.
RecordCallUnbounded(rows, row) == Append(rows, row)

\* recordCall: the oldest row makes room.
RecordCall(rows, row) == IF Len(rows) = MAX THEN Append(Tail(rows), row) ELSE Append(rows, row)

\* The closure of ctx.run in log.
LogCall(c) ==
  /\ Step(c, "log") /\ ~call[c].ran
  /\ buf' = RecordCall(buf, [call |-> c, status |-> call[c].status])
  /\ call' = [call EXCEPT ![c].ran = TRUE]
  /\ UNCHANGED <<services, tool, missed, faults>>

\* Its outcome reaches the journal and the call is answered.
LogJournaled(c) ==
  /\ Step(c, "log") /\ call[c].ran
  /\ call' = [call EXCEPT ![c].at = "answered", ![c].ran = FALSE]
  /\ UNCHANGED <<services, tool, buf, missed, faults>>

-----------------------------------------------------------------------------
(* The tool.                                                                *)

\* Mutant: the last attempt ends the invocation for good.
FailedForGood(t, c) ==
  IF ToolOf[c] \notin Retried THEN [t EXCEPT !.at = "ready"]
  ELSE [at |-> IF t.tries + 1 = MaxAttempts THEN "none" ELSE "ready", tries |-> t.tries + 1]

\* An attempt at the tool failed: with a retry policy it counts.
Failed(t, c) ==
  IF ToolOf[c] \notin Retried THEN [t EXCEPT !.at = "ready"]
  ELSE [at |-> IF t.tries + 1 = MaxAttempts THEN "paused" ELSE "ready", tries |-> t.tries + 1]

\* An attempt reaches the handler; with BUGGY_MODE it throws.
Execute(c) ==
  /\ "tools" \in up /\ tool[c].at = "ready"
  /\ tool' = [tool EXCEPT ![c] = IF buggy /\ c \in Broken THEN Failed(@, c) ELSE [@ EXCEPT !.at = "running"]]
  /\ UNCHANGED <<services, call, buf, missed, faults>>

\* ctx.run and the answer.
Executed(c) ==
  /\ "tools" \in up /\ tool[c].at = "running"
  /\ tool' = [tool EXCEPT ![c].at = "done"]
  /\ UNCHANGED <<services, call, buf, missed, faults>>

\* An attempt finds no process.
Unreachable(c) ==
  /\ "tools" \notin up /\ tool[c].at = "ready" /\ ToolOf[c] \in Retried
  /\ tool' = [tool EXCEPT ![c] = Failed(@, c)]
  /\ UNCHANGED <<services, call, buf, missed, faults>>

\* The operator resumes a paused invocation.
Resume(c) ==
  /\ tool[c].at = "paused"
  /\ tool' = [tool EXCEPT ![c] = [at |-> "ready", tries |-> 0]]
  /\ UNCHANGED <<services, call, buf, missed, faults>>

-----------------------------------------------------------------------------
(* Processes.                                                               *)

Fault == faults < MaxFaults /\ faults' = faults + 1

\* What was in the memory of the gateway is gone: the log, and the outcome of
\* a closure that is not journaled.
GatewayDies ==
  /\ Fault /\ "gateway" \in up
  /\ up' = up \ {"gateway"}
  /\ buf' = <<>>
  /\ missed' = {c \in Calls : call[c].at = "answered"}
  /\ call' = [c \in Calls |-> [call[c] EXCEPT !.ran = FALSE]]
  /\ UNCHANGED <<buggy, deployed, known, boot, tool>>

\* The connection that carries the outcome of the closure breaks; the gateway
\* lives on and keeps the row.
OutcomeLost(c) ==
  /\ Fault /\ call[c].ran
  /\ call' = [call EXCEPT ![c].ran = FALSE]
  /\ UNCHANGED <<services, tool, buf, missed>>

GatewayStarts ==
  /\ "gateway" \notin up
  /\ up' = up \cup {"gateway"}
  /\ UNCHANGED <<buggy, deployed, known, boot, call, tool, buf, missed, faults>>

ToolsStop ==
  /\ "tools" \in up
  /\ up' = up \ {"tools"}
  /\ tool' = [c \in Calls |-> IF tool[c].at = "running" THEN Failed(tool[c], c) ELSE tool[c]]
  /\ UNCHANGED <<deployed, known, boot, call, buf, missed>>

ToolsDie == Fault /\ ToolsStop /\ UNCHANGED buggy

\* The service is stopped to be started with the fix: no fault.
ToolsFixed == buggy /\ buggy' = FALSE /\ ToolsStop /\ UNCHANGED faults

ToolsStart ==
  /\ "tools" \notin up
  /\ up' = up \cup {"tools"}
  /\ boot' = AtBoot
  /\ UNCHANGED <<buggy, deployed, known, call, tool, buf, missed, faults>>

-----------------------------------------------------------------------------
(* Registration.                                                            *)

\* The supervisor announces the gateway to the runtime, once it listens.
Deploy ==
  /\ "gateway" \in up /\ ~deployed
  /\ deployed' = TRUE
  /\ UNCHANGED <<up, buggy, known, boot, call, tool, buf, missed, faults>>

Registering == "tools" \in up /\ boot.next \in DOMAIN Owned

\* Mutant: the first tool that is registered ends the loop over the tools.
RegisterFirst ==
  /\ Registering /\ deployed /\ "gateway" \in up
  /\ known' = known \cup {Owned[boot.next]}
  /\ boot' = [next |-> Len(Owned) + 1, tries |-> 0]
  /\ UNCHANGED <<up, buggy, deployed, call, tool, buf, missed, faults>>

\* registerOne of the next tool: ToolRegistry.register is served.
Register ==
  /\ Registering /\ deployed /\ "gateway" \in up
  /\ known' = known \cup {Owned[boot.next]}
  /\ boot' = [next |-> boot.next + 1, tries |-> 0]
  /\ UNCHANGED <<up, buggy, deployed, call, tool, buf, missed, faults>>

\* An attempt fails while the runtime does not know the registry; the last
\* one gives the turn to the next tool.
RegisterFails ==
  /\ Registering /\ ~deployed
  /\ boot' = IF boot.tries + 1 = RegisterAttempts THEN [next |-> boot.next + 1, tries |-> 0] ELSE [boot EXCEPT !.tries = @ + 1]
  /\ UNCHANGED <<up, buggy, deployed, known, call, tool, buf, missed, faults>>

-----------------------------------------------------------------------------

CallStep(c) ==
  \/ RegistryLookup(c) \/ MiddlewareChain(c) \/ Dispatch(c) \/ ToolAnswered(c)
  \/ LogCall(c) \/ LogJournaled(c)
ToolStep(c) == Execute(c) \/ Executed(c) \/ Resume(c)
BootStep == Deploy \/ Register
Restart == GatewayStarts \/ ToolsStart \/ ToolsFixed

Next ==
  \/ \E c \in Calls : Call(c) \/ CallStep(c) \/ ToolStep(c) \/ Unreachable(c) \/ OutcomeLost(c)
  \/ BootStep \/ RegisterFails \/ Restart \/ GatewayDies \/ ToolsDie

\* The runtime tries again and again, a process that died is started again,
\* and somebody switches BUGGY_MODE off and resumes what is paused.  Faults
\* are finitely many, so that weak fairness is enough.
Fairness ==
  /\ WF_vars(GatewayStarts) /\ WF_vars(ToolsStart) /\ WF_vars(ToolsFixed) /\ WF_vars(BootStep)
  /\ \A c \in Calls : WF_vars(CallStep(c)) /\ WF_vars(ToolStep(c))
Spec == Init /\ [][Next]_vars /\ Fairness

-----------------------------------------------------------------------------
(* Properties.                                                              *)

Answers == {"ok", "unknown", "blocked", "needs_approval"}

Journals == [at : {"idle", "lookup", "chain", "dispatch", "suspended", "log", "answered"},
             status : Answers \cup {"none"}, ran : BOOLEAN]
Invocations == [at : {"none", "ready", "running", "paused", "done"}, tries : 0..MaxAttempts]
Rows == [call : Calls, status : Answers]

TypeOK ==
  /\ up \subseteq {"gateway", "tools"} /\ buggy \in BOOLEAN /\ deployed \in BOOLEAN
  /\ known \subseteq ToSet(Owned)
  /\ boot \in [next : 1..Len(Owned) + 1, tries : 0..RegisterAttempts - 1]
  /\ call \in [Calls -> Journals] /\ tool \in [Calls -> Invocations]
  /\ buf \in Seq(Rows) /\ Len(buf) <= MAX
  /\ missed \subseteq Calls /\ faults \in 0..MaxFaults

\* "Every dispatch is recorded into a ring buffer" (README.md:89): whatever
\* path a call took and however its steps were repeated, once it is answered
\* its row is shown, with the status that was answered, until MAX rows are
\* there or the gateway dies.
Row(c) == [call |-> c, status |-> call[c].status]
AuditLogComplete ==
  \A c \in Calls \ missed : call[c].at = "answered" => Len(buf) = MAX \/ Row(c) \in ToSet(buf)

\* Every call is answered in the end, whatever dies meanwhile, with BUGGY_MODE
\* on at first and with invocations paused by the retry policy.
EveryCallEnds == \A c \in Calls : call[c].at = "lookup" ~> call[c].at = "answered"

\* Once the registry is deployed, a starting service registers every tool it
\* has not given up by then, whatever the order and the failures before.
RegistersOnceDeployed ==
  \A i \in DOMAIN Owned :
    deployed /\ Registering /\ boot.next <= i ~> Owned[i] \in known \/ "tools" \notin up
=============================================================================
