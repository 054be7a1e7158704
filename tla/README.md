# DashOps in TLA+

DashOps is a demonstration of an LLM agent that operates on customers and
deliveries through a gateway, with human approvals, appeals and rate limits. Its
services run on Restate: a *virtual object* has keyed state and runs one
exclusive handler at a time, every call, sleep and state change is journaled, an
invocation whose process dies is replayed and goes on, and an *awakeable* is a
durable promise that another service completes. This directory models the parts
of the system that decide something together: who may let a call through, how
often, what survives when a process dies, and what the operator, the approvers
and the supervisor see of it.

Paths below are relative to the repository.

## 1. Inventory

| Component | State | Operations | Talks to |
|---|---|---|---|
| Approval service (`services/approval-service`) | one `ApprovalService` object per approval: status, kind, group, fingerprint, awakeable id, decision; per group a `PendingApprovalsIndex` and a `DecidedApprovalsIndex` (200 newest) | `requestApproval`, `respond`, `cancel`, `verifyToken`, `getRecord`; index `add`, `remove`, `list` | called by session, gateway and BFF; completes awakeables; sends to its indexes |
| Session and agent loop (`services/ops-agent`) | one `Session` object per conversation: status, messages, `pendingApproval`, `pendingAppeal`, `failureReason` | `sendMessage`, `requestAppeal`, `reset`, `getState`; `runLoop`, `dispatchToolCall` | calls gateway and approval service; waits on awakeables |
| Gateway (`services/gateway`) | none in `callTool`; the process-local call log | `callTool` = lookup, appeal check, `pii-guardrail`, `approval-policy`, `rate-limit`, dispatch, cost, log; `callLLM` | registry, approval service, guardrails, buckets, tools, ledger |
| Token buckets (`token-bucket.ts`) | per key: tokens, last refill, capacity and rate of the last request | `acquire`, `state` | called by the rate-limit middleware |
| Tool registry (`tool-registry.ts`, `self-register.ts`) | tools by name with limit and cost | `register`, `unregister`, `get`, `list`, `updateRateLimit` | tools register at start; ops view edits limits |
| Calls log and cost ledger (`calls-log.ts`, `cost-ledger.ts`) | ring of 30 rows; per tenant a total and 200 entries | `recordCall`, `record`, `summary` | gateway writes, ops view reads |
| Supervisor (`services/supervisor`) | per service: child, pid, status; timers of the event loop | `start`, `stop`, `stopAll`, boot, `awaitListening`, `registerDeployment`, restart, quit, keys | spawns and signals process groups, is told of the exit of the leader of each; announces deployments to the runtime |
| Operator page (`web/operator`) | tabs and active tab (stored), per tab the last state and the ids painted, the chat, input, banner and appeal button | submit, appeal, add, switch, close, reload, poll | BFF |
| BFF and approver page (`services/bff`, `web/approver`) | nothing; the cards polled last | proxy routes, ops pages; decide, dismiss | the Restate ingress |
| LLM service, guardrails, tool services | tables, counters; `BUGGY_MODE` | answer a request, register their tools at start | called by the gateway, call the registry |

The hard behaviours are these. A decision is one handler but reaches four places
(record, awakeable, two indexes) by calls and one-way sends. Approvers and
cancellations race. A session waits for days on a human while messages, resets
and appeals of a page that is out of date queue behind it. Concurrent calls take
from the same buckets and sleep; limits change while they sleep; clocks go back.
Timers of the supervisor look at a process table that later keys have changed, and that
forgets a process group once its leader has exited.
Processes die between two journaled steps, or after a step and before its journal
entry. A page paints answers that overtake one another into whichever chat is shown.
`PROJECT.json` lists each under `hazards` with its line and the properties that
would catch it.

What makes each component correct:

* *Approvals*: a decision is final; who was told "ok" decided; the agent hears
  the verdict on record and not before it is on record; pending and decided
  lists agree with the records once sends have arrived.
* *Session and gateway*: whatever reaches a tool was allowed by a human where
  one is needed, for that very call and once; every turn ends and leaves a page
  that can be used; only a human can keep a turn waiting.
* *Planner and billing*: no tool acts twice for one message, however often the
  turn is cut and taken up again; the reply tells what was done; every completion
  is billed once, to the right tenant.
* *Rate limiting*: a bucket never grants more than its capacity plus what time
  refilled; the wait it answers is right to a millisecond; calls get through.
* *Supervisor*: no spawned leader is lost, none runs twice, a stopped child dies
  while its leader can be signalled, a service that is up becomes known to the runtime.
* *Tool calls over crashes*: every answered call is in the log, every call is
  answered, a starting service gets its tools registered.
* *Operator page*: the chat is the transcript, what was typed is shown once, and
  the page comes to show the session as it is.

## 2. Modules

| Module | What it is |
|---|---|
| `ApprovalVerdict` | abstract specification: a request opens, is decided once, and its waiter is woken with the decision |
| `ApprovalService` | the approval service with its indexes, clients and unordered one-way sends |
| `ApprovalServiceProofs` | theorems about `ApprovalService` |
| `Policies` | which calls need a human, and `fingerprint` |
| `OpsAgent` | one session, its loop, the gateway's decisions, the approvals as `ApprovalVerdict`, the operator page |
| `OpsAgentProofs` | theorems about `OpsAgent` |
| `PlannedTurns` | one session with the stub planner, its transcript, the tools, the PII stub and the cost ledgers |
| `PlannedTurnsProofs` | theorems about `PlannedTurns` |
| `BucketHandlers` | what `acquire` and `state` compute, as operators |
| `TokenBucket` | one bucket under arbitrary limits and a wayward clock |
| `TokenBucketProofs` | theorems about `TokenBucket` |
| `RateLimit` | concurrent calls through the middleware, with sleeps, edits and re-registrations |
| `RateLimitProofs` | theorems about `RateLimit` |
| `ToolCalls` | `callTool`, the log of calls, a tool with a retry policy and the registration of tools, while processes die |
| `ToolCallsProofs` | theorems about `ToolCalls` |
| `Supervisor` | process table, boot, announcements, timers and keys |
| `SupervisorProofs` | theorems about `Supervisor` |
| `OperatorPage` | one operator page over sessions that run, with lost and overtaking requests and answers |
| `OperatorPageProofs` | theorems about `OperatorPage` |
| `MC*` | constants for TLC |

How they compose: `OpsAgent` instantiates `ApprovalVerdict` for the records it
waits for, and `ApprovalService` is shown to implement `ApprovalVerdict` (run
`Approvals`, property `Verdicts`), so what the agent is checked against is
what the service was checked to do. `TokenBucket` and `RateLimit` share
`BucketHandlers`, so what the handlers compute is stated once.
`OperatorPage` and `ToolCalls` each take one side of an interface and leave the
other free: the page runs over sessions reduced to the messages and statuses it
can tell apart (`OpsAgent` and `PlannedTurns` have the whole turn), and the calls
of `ToolCalls` may be blocked or sent to approval at will (what the middlewares
decide is in `OpsAgent` and `RateLimit`). `Supervisor` starts and stops the
processes whose deaths `ToolCalls` suffers.

### ApprovalService
`status`, `approverGroup` and `decidedAt` are the record; `pc` is how far the
running handler is (a handler's sends happen one by one, so a reader or an index
may see it half done); `inbox` holds queued calls; `toPending` holds sends to the
pending index and `toDecided` those to the history: each approval's arrive in the
order they were sent, those of different approvals in any order; `pending` and `entries` are the
indexes. `shown` (cards a page has drawn), `acked` (`respond` calls answered ok) and
`arrived` (the rows that reached each history, in order, which the list must be the
newest of) exist for the clients and the properties. `Decide` is the approver's click on a card
that may be out of date, `CallCancel` an external cancellation. `decidedAt` is a
logical clock: only the order of decisions matters.

### OpsAgent
`session` is the Session object, `run` the running invocation together with the
gateway call it is in (`pc` is the next statement; the handlers run one after the
other, so one `pc` is enough), `inbox` the queue of the object, `status`/`woken`/
`request` the approval records, `view` the page. `ran` is a history of the guarded
calls that reached a tool and the tokens they carried. The planner is an LLM and
may do anything; guardrail verdicts are `Flagged` (always), `Doubtful` (maybe) or
never. Sessions share only the gateway and approval service, which keep no state
between them that matters here, so one session is enough. The rate limiter delays
a call and never refuses it; it is a model of its own.

### PlannedTurns
The counterpart of `OpsAgent`: there the planner may do anything and the question
is what the gateway lets through; here the gateway's answers are cut down to what
decides the course of a turn (`PiiBlocks`, `PiiPasses`, `ToolUnknown`, `Approved`,
`NotApproved`) and the planner is the code of `stubs.ts`. A message is the record
of what the planner's patterns find in it. The planner's filters and searches of the
transcript are sets of its indices (`Of`, `Called`, `Todo`, and `Nth` for the order
within one), which says what they find and leaves out how. `steps` are the tool messages of the
transcript since the last user message, all that the planner reads; `ran` is the
history of tools that ran, which an appeal could make differ from it. A call is
its tool and what it is `about`, an id, a customer or a query. `pendingAppeal`
carries the number of the message it was met by, for the property. The operator's
invocations are served one at a time in any order, so there is no queue. A tool
and the response it causes are one step: nothing else touches the transcript of
the session meanwhile. A failing turn sets `status` and, a journaled step
later, `failureReason` (`Fail`, `SetFailureReason`); the session at `failing` shows what a
reader sees in between. `inFlight` counts the one-way sends to the two ledgers,
which `Record` serves in any order; an entry of a ledger is the item that was billed
(its cost and tenant follow from it); `used` is what LLMService completed.
`LedgerExact` compares totals and entries with `used` while sends are still under way.

### BucketHandlers, TokenBucket, RateLimit
Tokens are integers: a token is `Unit` parts, a bucket of rate *r* gains *r* parts
a millisecond, so a model with `Unit` = 60 000 is the code with rates per minute,
and smaller units keep the same rounding. The source computes them in floating point
(a rate is `limit / 60` a second). Its errors stay far below one part, 1/60 000 of a
token, so they decide nothing between whole values; *at* a whole value they decide a
comparison or a `Math.ceil`, and there the model allows both outcomes. A sum that is
a whole number of tokens may be stored `short` of it by a hair, and is then refused a
token, to be told to come back in a millisecond. A wait of a whole number of
milliseconds may come out one longer: at 60 a minute, a bucket refused 700 ms after it
was empty answers 301 where 300 would do. `config` is the capacity and rate `acquire`
stores, from which `state` computes the countdown.

`RateLimit` makes time relative: `age` counts up from a refill and saturates at `Unit`,
a minute, when every bucket is full (an empty one, which may then still be a hair short,
a millisecond later); `sleeping` counts down. `Register` is a restarted service that
sends its registration again: the registry replaces the entry, and a limit that was
edited is back at `Declared`. `hindered` are the callers that met another call in their
buckets, or were refused a token that only rounding left incomplete.

### Supervisor
Children are numbered per service in order of spawning. A child is a process group:
the `leader` that was spawned (npm, or `docker compose`) and the `server` that opens the
port (the node process at the end of npm, sh and tsx, or the container). The `exit`
event is that of the leader (`LeaderExits`), and it clears the table; a server that
outlives it keeps its port and is in no table, so the timer of a stop no longer reaches
it and the next start spawns another beside it. A signal reaches the whole group, but no
container (`Contained`). The process table is `proc` and `status`; the model ends when the
supervisor does.

Every `setTimeout` is a record with the ticks left; `Tick` waits until due callbacks
ran, so callbacks are on time. `asked` and `forced` are who was sent SIGTERM and SIGKILL. A `listen`
timer is a run of `awaitListening`, a `deploy` timer one of `registerDeployment`;
both poll at shorter intervals than a tick, so they end at once when the ports
answer, and at zero when they give up. They ask the port: any child of the service
that listens will do, the one a restart is about to replace included. `deployed` is
the runtime's, kept over restarts of everything.

### OperatorPage
`server` is what `getState` answers for each session, with the status a turn is
about to set after it wrote a message (`next`): a poll may come in between. `posts`
are requests on their way, which may be served in any order, be lost (`failed`), or
look failed to the page though they are served (`FetchFails`); `open` says that the
page still waits for the answer. `polls` are answers on their way. `page` is the page:
`painted` are the chat's nodes that show a message, in their order, `bubbles` the
contents of its optimistic bubbles (an echo removes all bubbles of its content, so how
many there are does not matter) and `note` says that a failed request left its text;
`cache` is `sessionCache`, `button` the appeal action with the block it sits in and the
click that disabled it. `Turn` is a turn
reduced to what the page distinguishes: statuses, user messages, blocks and others;
a turn that fails and one that completes look alike but for the status. `RenderActive` is
the function of that name, in its order: the button is placed before the messages
are appended.

### ToolCalls
`call` is the journal of each `callTool` and `ran` says that the closure of its
`ctx.run` was executed and its outcome is not journaled yet: the gateway may die
then (the row is gone with the memory), or only the connection (`OutcomeLost`: the
row stays and the closure runs again). `tool` is the invocation of the tool with the
attempts its retry policy counts, `boot` the tool the service registers next and the
attempts at it. `missed` are the calls answered before the gateway last died, whose
rows nobody promises. A fault is a death or a lost connection; a service that is
stopped to be started with the fix is none.

## 3. Assumptions on what is outside

* *Restate.* Exclusive handlers of one object run one at a time in the order of
  arrival; handlers run to their end across crashes, so a crash is a pause; a
  one-way send is delivered in the end; the first completion of an awakeable
  wins; sends from one invocation to one object keep their order.
* *The journal.* A step of an invocation is done once its outcome has reached the
  journal; until then it may be executed again. An attempt that finds no process
  counts against a retry policy.
* *Humans* may decide or not, in every model. In `ToolCalls` somebody starts what
  died, switches `BUGGY_MODE` off and resumes what is paused; the repository's
  README asks the operator to do exactly that.
* *Processes of a child* obey SIGKILL and nothing else for sure; any of them may die by
  itself (`MaxCrashes` bounds how many do in a run) or outlive the others; a port has one
  listener.
* *Floating point* is wrong by less than one part of a bucket (1/60 000 of a token).

## 4. Runs

| Run | Bounds | Shows |
|---|---|---|
| `Approvals` | 2 approvals, 2 groups, 2 queued calls each, history of 1 | finality, acknowledgement, order of record and wake-up, refinement of `ApprovalVerdict`, lists that catch up |
| `Agent` | 3 posts, 2 steps a turn, calls that are gated, flagged, and both | what reaches a tool; where sessions come to rest; who can hold one up |
| `PlannedTurns` | 2 messages of 18 (every flow of the planner; known, unknown and flagged deliveries; credits below, above and flagged; batches of 0, 3 and 6), 6 steps a turn, ledgers of 3 entries | no tool repeated, replies tell what was done, step limit, appeals, billing |
| `BucketRate` | unit 6, limits to 4, clock to 14, both outcomes of every rounding | arithmetic of one bucket |
| `RateLimitSleep` | 2 callers, unit 2, limits 1/2/2, 4 checks, one edit that the clamp lowers, registrations that reset it | calls that meet nobody pass; all calls are dispatched |
| `SupervisorKeys` | 2 services, one in a container, 2 keys, 1 crash, delays 1/1/1/0/0 for 30 s (port), 30 s (deployment), 15 s, 1.5 s, 0.8 s | the table knows all living leaders; who is forced; stopped children die; services get deployed |
| `PageSafety` | 2 tabs, 3 clicks, 2 contents, 1 unanswered poll, `MaxMessages` 2 | what is typed is shown once |
| `PageLiveness` | 2 tabs, 2 clicks, 2 unanswered polls, `MaxMessages` 2 | the chat is the transcript; the page catches up |
| `ToolCalls` | 2 calls, 3 faults, log of 3, 3 attempts at a tool, 2 at a registration | log, answers and registrations over crashes |
| `FingerprintBinding` | 2 tools, 2 parameters, 2 values | *violated*: see §6 |
| `RateLimitFreePass` | 3 callers, unit 5, limits 2/2/1, 3 checks | *violated*: see §6 |
| `QuitLeavesNoChild` | as `SupervisorKeys` | *violated*: see §6 |

Why the bounds are enough. Approvals interact only through a group's lists, which
two approvals and a history of one already fill and overflow, in either order;
two queued calls give every race of respond with respond and with cancel. A turn of
two steps has a call after a call; three posts allow a block, an appeal for it and
a message or reset between. Six steps are the longest
investigation (five tools and the reply): the source's 16 leave more room, so what
is not cut at 6 is not cut at 16. Two messages let an appeal, a reset and a failure
of the first meet the second, and give a ledger of 3 more entries than it keeps.
A unit of 6 with limits up to 4 has rates that divide
the unit and one that does not (rounding both ways). In `RateLimitSleep` the
longest wait and the checks left over are what counts. With a unit of 2 and these
limits a call alone is refused at most three times, so its loop gets four checks where
the code's gets eight: that is no general bound (with limits of 2 and 1 and a unit of
4 such a call is refused four times), and how many checks are enough for any limits is
what `UncrowdedPasses` proves (§5). `BucketRate` has rates that do not divide the unit,
where `Math.ceil` rounds a fraction up; with a unit of 2 nearly every sum and wait is at
a whole value, where floating point decides.
The delays of the supervisor are never in the wrong order, and those that coincide (30 s
with 15 s, 1.5 s with 0.8 s) may end in either; a delay of 0 still leaves room for
keys, exits and other timers, and only keeps the clock from ticking. Two keys are a
stop and a start, two restarts, or a restart or a boot and a quit, each with children
of their own pace. One crash kills a leader that leaves its server behind, or a
server whose leader stays; whoever was signalled may die in any order besides.
Three clicks open a tab, post in it and switch or close it; two unanswered
polls are enough for an answer to be overtaken; a turn goes on while the transcript is
shorter than `MaxMessages` and then ends, which leaves room for a post, a block
and its appeal. (The invariants of the page are proved for any bounds; each run
checks those its bound is for.) Three faults kill the gateway between a closure
and its journal entry, lose the outcome of the next try and kill the tool; three
rows overflow once closures are repeated.

`Supervisor` and `ToolCalls` turn the deadlock check off: they really stop, when the
program has exited or no key is left to press, and when all calls are answered and
all tools registered.

Fairness. Handlers, deliveries and timers are weakly fair because Restate and the
event loop run what is ready. Nothing that a human or an LLM decides is fair. The
planner needs none: `MaxSteps` ends its turn. In `OperatorPage` only polling is
fair: `setInterval` asks for every tab for ever (strong fairness, for the bound on
unanswered polls may disable the question now and then) and answers keep arriving;
turns, requests and clicks may stop at any point. In `ToolCalls` faults are
finitely many, so weak fairness of every step, of the restarts and of the operator's
help is enough; the failing attempts (`RegisterFails`, `Unreachable`) are not fair.

`PROJECT.json` names for every property a mutant: a definition whose comment
begins "Mutant:" stands for a plausible bug (a dropped guard, a forgotten reset),
and with it in place of the right one the property is violated under the run's
own bounds. They are not part of any specification.

## 5. Proofs

Every theorem below holds for all values of the constants that satisfy the named
assumptions (which TLC evaluates in the runs). Each inductive invariant was first
checked by TLC as an invariant of its run, then proved in three steps: `Init`
implies it, every action keeps it, and it implies the property.

`ApprovalServiceProofs`:

* `HandlersCorrect`: `TypeOK /\ HandlerInv`. `HandlerInv` says of each handler
  position what the record, the awakeable and the acknowledged verdict are there.
  `WakeAgreesWithRecord` alone is not inductive: that the record is what the
  awakeable is about to be completed with is a fact about the position between two
  statements. `WakeAgrees` and `AckedStands` follow; `DecisionsAreFinal` is an action
  property shown from the same invariant: the two actions that write a verdict are
  guarded by a pending record.
* `PendingSettles`: `PendingIndexSettles` speaks of the moment when nothing is on its
  way. `PendingInv` says for every moment which queues of sends and which list go
  together: the sends still to come turn what is listed into what is recorded.
* `TrailFaithful`: `TrailInv` adds that an approval has one row on its way, or one in
  a list, or none, and none before it is decided: so a row that arrives is new, and
  trimming (lemma `NewestElements`) only drops rows.
* `ImplementsVerdict`: the refinement's safety half, `Verdict!Init` and a
  `Verdict!Next` step or a stutter for every step of the service, with the mapping the
  run `Approvals` uses.

`OpsAgentProofs`, by one invariant `IInv` with a conjunct for each thing that could
come apart while the session waits:

* `RunInv` is what the running invocation carries at each statement, `TokenInv` that
  its tokens were granted for its very call and are unspent, `AskInv` and `RecordInv`
  that exactly the request it waits for is pending, `BannerInv` that the banner names
  it, `RanInv` that what reached a tool had what it needed. The safety properties
  of the run (`GatedApproved`, `FlaggedAppealed`, `SpentOnce`, `RequestsAwaited`,
  `ComesToRest`, `RetryAccepted`) each follow from some of these; none is inductive
  alone, since a token is checked three statements before it is spent, and granted
  by another actor before that.
* `IdsInv` is the budget of fresh ids. The finite set `Ids` stands for UUIDs, and the
  model would get stuck, or reuse an id, if it ran out: an invocation asks at most
  once for its appeal and once for each step, so used ids and those still to be
  asked for are at most `MaxSteps + 1` for each invocation started. `FreshId` is
  therefore always an id not used before.

`TokenBucketProofs`:

* `BudgetKept`: `RateBudget`, an accounting invariant: granted tokens plus those
  left in the bucket are at most the capacity plus the rate times the time the
  clock spent going forward. It is inductive with the type invariant and the fact
  that an untouched bucket has granted nothing; `RateIsBounded` drops the tokens left.
* `WaitsTight`: `PromiseInv` says that a promised wait was computed from what the
  bucket still holds. Division that rounds up gives the least sufficient number
  (`CeilDivLeast`); where it divides evenly the answer may be one more, and the refill
  that ends there may be short, and the theorem says that these two add up to no more
  than a millisecond either way, for the wait and for the countdown. "Least sufficient"
  itself is false in the source (301 for 300, above).

`RateLimitProofs`:

* `UncrowdedPasses`: the eight checks of the loop suffice for a call that meets no
  other in its buckets, whatever the limits. A refused check keeps the tokens it got
  from earlier buckets and takes them again after its sleep, so a bucket may well
  refuse the same call more than once. But it does so only after it has granted and a
  later bucket has refused, and that one keeps its token until it is reached: the
  buckets that hold a token for the call are the digits of a binary counter of its
  refusals (`RefusalsCounted`), least significant first. Three digits, seven refusals;
  the eighth check passes. (A fourth bucket would double the bound.)
  A call that a bucket refuses although it holds a token but for a hair is left out
  (`hindered`): such a refusal moves no digit, and if floating point were free to do it at
  every whole value a ninth check could be needed. At the source's own limits the exact
  sums need five, so there is room; how many hairs doubles can really produce in a row is
  arithmetic on their bits, and not shown here.
  The theorem assumes `MaxChecks >= 8`; the runs use smaller numbers.

`SupervisorProofs`: `TableInv` (the table knows the youngest child of a service or none, and
exactly the one whose leader lives) and `TimerInv` (a kill timer was set by a stop that did signal
a child) give `LeadersTracked` and `OnlyStoppedForced`. Both are needed at once: a
start spawns where the table knows nobody, and a timer that is due looks at a
table that later keys have changed. Servers come and go as they like: nothing is proved
of those that outlived their leader, since nothing in the code looks after them.

`ToolCallsProofs`: `LogInv` (a closure that ran has left its row, and so has every
answer of this life of the gateway, unless the log is full) gives `LogComplete`: full
stays full, and rows are dropped only then or by a death, which makes every answered
call a missed one.

`PlannedTurnsProofs`, for any messages, tables of deliveries and merchants, and limits:

* `TypesCorrect`, `ToolsOnceInOrder`, `RepliesTrue` and `AppealsOfLastMessage` by one
  invariant, `IInv`. The planner keeps no state: after every tool it reads off the
  transcript how far it has got. So `StepsOf` says that the transcript is always a
  beginning of the one flow its message asks for, and `TurnInv` that the call under way
  is the one the planner would plan again. That is what carries a turn over a block: the
  appeal takes it up, days later, with a call that was planned before it was cut.
  `ReplyInv` says that a reply is the last thing that would be planned. None of the
  properties is inductive: that a tool has not run yet is a fact about which prefix of
  the flow the transcript is, not about the tools that ran. The lemmas `BatchNext`,
  `DeliveryNext` and `OtherNext` are the planner's half: one more result makes one more
  step of the flow.
* `NthExists`: the n-th number of a finite set exists. It would be an induction on n;
  a least counterexample (`NatHasLeast`, from the library's well-ordering) does instead.
* `LimitCutsLongBatches`: the step limit cuts no turn but a batch as long as the limit. A
  turn starts at step 0 again when an appeal takes it up, so the invariant relates steps
  to the transcript (`run.step <= Len(steps)`). The theorem assumes `MaxSteps > 5`, as
  many as the longest investigation has tools; the code has 16.
* `LedgersExact`: `BillInv` says of every moment that sends under way were completed
  before, so what was served is not negative, and that nothing is sent for the
  configured cost of a search. `RecordServes` counts the entries over a `Record`,
  whichever of the sends it serves.

`OperatorPageProofs`, for any number of sessions, clicks, contents and unanswered polls:

* A transcript only grows while its session has a tab: the one request that clears it is
  sent when its tab is closed, that tab never opens again, and a tab that is opened has a
  fresh id with nothing on its way. So an answer on its way, a cached state and the
  painted nodes are all beginnings of the transcript (`Behind`), however answers overtake
  one another. `WireInv` says so of answers, `TabsInv` of caches, `ChatInv` of the chat.
* `ChatsFaithful`: `TranscriptFaithful` says that the chat is a beginning of the active
  session's transcript. It is not inductive: `renderActive` goes by `renderedIds`, which
  must be exactly the ids painted, and after a switch by the cached state, which must
  have been true; an answer may come after its tab was left, closed or entered again.
* `BubblesOnTheirWay`: a bubble's message is on its way, known to have failed, or behind
  the painted ones in the transcript (`Awaited`). The last case is why `ChatInv` is
  needed: what is painted next includes the echo. (`TypesCorrect` also says that the
  appeal action sits in a painted block, at any bound.)

Only model-checked is everything temporal: `Verdicts` with its fairness, `IndexesCatchUp`,
`OnlyHumansHoldUp`, `EveryCallDispatched`, `StoppedChildDies`, `EveryServiceIsDeployed`,
`EveryCallEnds`, `RegistersOnceDeployed`, `PageCatchesUp`. They rest on fairness, that is
on when actions are enabled, which the prover does not reason about. Every invariant of
every passing run is stated by a theorem.

## 6. Where code and documentation differ

Three statements of the repository are refuted by a run (`findings` in
`PROJECT.json` has the lines):

1. `fingerprint` passes the names of the parameters as the replacer of
   `JSON.stringify`. An array replacer selects properties at every level, so
   `toolName` and `params` drop out: fingerprints do not tell calls apart. In the
   agent this does not surface, for it retries exactly the call it asked about
   (`GatedCallsRunApproved`, `FlaggedCallsRunAppealed` hold without relying on it).
2. The middleware loop gives up after 8 checks and the call goes on without a
   token. It takes competition: `UncrowdedCallPasses`.
3. Quitting while the boot or a restart is still to spawn a child leaves that
   child running: it is spawned after `stopAll` signalled the others.

Known without a run of their own:

* the kill timer of a stop looks at the service's current child, which after a
  restart is the new one (`procs.ts:153`); `OnlyStoppedServicesAreForced` says what
  remains true;
* the exit event is that of the leader: a server of its group that lives on, or a
  container, is no longer known, is not killed 15 s after its stop, and the next start
  spawns a second beside it (`procs.ts:108`), where the comments say that grandchildren
  die too and that a lingering group is killed (`procs.ts:91-95`, `149`).
  `StoppedChildDies` excepts such servers by name (`Abandoned`);
* a restart starts the service 1.5 s after SIGTERM; if the old child still runs,
  the start is ignored and the service stays down (`procs.ts:81`);
* a failing turn sets its status a journaled step before its reason
  (`agent.ts:80`, `146`, `200`, `214`): a reader in between sees `failed` with the reason
  of an earlier failure. `StepLimitOnlyCutsLongBatches` speaks of sessions at rest;
* `waitMs` may be a millisecond more than needed (`token-bucket.ts:54`), by rounding;
  `WaitsAreTight` says by how much it may be off;
* a row of the log is pushed inside `ctx.run`; if only the connection is lost before
  the outcome is journaled, it is pushed again, which `calls-log.ts:7` excludes.
  `AuditLogComplete` says that no row is missing;
* the ops view groups consecutive rows of a trace (`bff/src/index.ts:524`): with two
  sessions at work a turn is several groups, not "one contiguous cluster"
  (`README.md:96`);
* attempts that find no process use up the three attempts of `apply_credit`, so
  killing customer-svc can pause a credit until somebody resumes it
  (`README.md:39` lets such calls "resolve normally"); this rests on what the runtime
  counts as an attempt;
* `verifyToken` does not consume a token (`README.md:92` says single-use): that a
  decision is spent once is the agent's doing (`DecisionSpentOnce`);
* on the operator page: a tab without a polled state keeps the disabled input and the
  banner of the tab before (`app.js:137`); a failed request leaves its note in
  whichever chat is shown, and an error status leaves none (`app.js:101`); the appeal
  button is placed before new messages are painted, one poll late (`app.js:281`); an
  echo removes all bubbles of its content (`app.js:319`); a late answer puts a closed
  session back into the cache (`app.js:227`);
* the buttons of the ops view send the limit they show, each over its own request:
  quick clicks may be served in another order (`bff/src/index.ts:452-472`);
* the report of a batch pairs the deliveries of the message with the merchants
  that were found (`stubs.ts:107`): with an unknown delivery among them the rows
  after it name the wrong delivery. `ReplyTellsWhatWasDone` therefore speaks of
  batches of known deliveries;
* a request to credit an unknown delivery is answered "Action complete"
  (`stubs.ts:209`) although nothing was done;
* `customer-outreach.ts:4` calls the tool approval-gated; `policies.ts:15` says
  why it no longer is;
* an appeal has no call id: a page that polled before another call was blocked
  appeals for the later one (`session.ts:54`). `AppealIsOfLastMessage` says that
  it is at least one of the message that was sent last;
* the history is in order of arrival, and decisions of different approvals may
  arrive in another order than they were made (`decided-index.ts:32` says newest
  first);
* a cancelled appeal leaves `pendingAppeal` set (`session.ts:103-112`) where a
  rejected one clears it; nothing offers it while the status is `failed`;
* `tool-registry.ts:46` says the rate-limit middleware reads the registration on
  every call; it does, but a call that sleeps keeps the one it looked up.

## 7. Not modelled, and why

The text of messages, prompts, summaries and log rows (data no property is
about); the HTML of the ops pages, most of `bff/src/index.ts`, and of cards, tabs
and messages; log rings and painting of the supervisor; the guardrail's patterns
(`Personal` and the size of an amount stand for what they match) and the live
planner, a remote model; the tables the lookup tools answer from; the process-local
counters of executions, which no one reads back; `unregister`, which nothing calls;
the rows `callLLM` writes, alike those of `callTool`; the shell scripts, which
start the processes the supervisor manages. `OperatorPage` has one page: a second
page on the same session, whose messages would appear without a bubble, is left out.
`MaxMessages` ends turns before a transcript holds a second block, so the button that
moves to it is in the model and not reached; a larger bound takes TLC too long.

## 8. Plan

Done, in this order: approvals; session and gateway over them; buckets and their
proofs; the middleware under concurrency; the supervisor; the stub planner with
its transcript and the ledgers; the operator page; calls, log and registration over
crashes; announcements of deployments; re-registration against live edits.

Proved, in this order: handlers of the approval service; the rate of a bucket; the
agent; the indexes and the refinement of the approval service; the supervisor; the
calls and their log; the waits of a bucket; the checks of the rate limiter; the stub
planner and its ledgers; the operator page.

What is left is temporal and stays with TLC.
