------------------------------ MODULE Supervisor ------------------------------
(***************************************************************************)
(* services/supervisor: the process table (procs.ts), the boot sequence,   *)
(* the restart and quit handlers (index.ts) and the keys of the TUI.       *)
(*                                                                         *)
(* Timers count down in ticks and fire on time.  A child is a process      *)
(* group: the leader that was spawned (npm, docker), whose exit the        *)
(* supervisor is told of, and the server that opens the port.  Each        *)
(* decides by itself when it crashes and how long it takes to obey         *)
(* SIGTERM, if ever, and a server may outlive its leader.  The logs and    *)
(* the painting are left out, and the model ends when the supervisor does. *)
(***************************************************************************)
EXTENDS Naturals, Sequences

CONSTANTS
  Services,     \* services of config.ts
  First,        \* "restate-server", booted before the others
  Deployable,   \* services with registerDeployment
  Contained,    \* services of docker: the server is a container, which no
                \* signal to the group reaches
  BootDelay,    \* ticks of awaitListening's 30 s
  DeployDelay,  \* ticks of registerDeployment's 30 attempts
  KillDelay,    \* ticks of the 15 s before SIGKILL
  RestartDelay, \* ticks of the 1.5 s between stop and start of a restart
  QuitDelay,    \* ticks of the 0.8 s between stopAll and process.exit
  MaxKeys,      \* bound of the model: keys pressed
  MaxCrashes    \* bound of the model: processes that exit without being asked

ASSUME ServicesAssumption == First \in Services /\ Deployable \subseteq Services \ {First}
                             /\ Contained \subseteq Services
ASSUME DelaysAssumption == {BootDelay, DeployDelay, KillDelay, RestartDelay, QuitDelay, MaxKeys, MaxCrashes} \subseteq Nat

VARIABLES
  child,  \* child[s]: every child spawned for s, in order: whether its
          \* leader lives, and what its server does
  proc,   \* proc[s]: state.proc, the number of a child of s, 0 if undefined
  status, \* status[s]: state.status
  asked,  \* children <<s, n>> that were sent SIGTERM
  forced, \* children <<s, n>> that were sent SIGKILL
  timers, \* pending setTimeouts: [kind, service, left, key]
  boot,   \* "first", "await" or "done"
  quit,   \* "no", "flushing" or "exited"
  keys,   \* keys pressed so far
  crashes, \* exits so far of processes that were not asked
  deployed \* services the runtime knows; it keeps them over restarts

table == <<child, proc, status>>
signals == <<asked, forced>>
vars == <<table, signals, timers, boot, quit, keys, crashes, deployed>>

Init ==
  /\ child = [s \in Services |-> <<>>]
  /\ proc = [s \in Services |-> 0]
  /\ status = [s \in Services |-> "stopped"]
  /\ asked = {} /\ forced = {} /\ timers = {}
  /\ boot = "first" /\ quit = "no" /\ keys = 0 /\ crashes = 0
  /\ deployed = {}

Spawned == [leader |-> TRUE, server |-> "starting"]
Listening(s) == \E n \in DOMAIN child[s] : child[s][n].server = "listening"

SetTimer(kind, s, delay) == [kind |-> kind, service |-> s, left |-> delay, key |-> keys]
Answered(t) == Listening(First) /\ Listening(t.service)
Due(t, kind) == t \in timers /\ t.kind = kind /\ t.left = 0

-----------------------------------------------------------------------------
(* procs.ts                                                                 *)

\* Mutant: a second process is spawned beside the first.
StartBeside(S) ==
  /\ child' = [s \in Services |-> IF s \in S THEN Append(child[s], Spawned) ELSE child[s]]
  /\ proc' = [s \in Services |-> IF s \in S THEN Len(child[s]) + 1 ELSE proc[s]]
  /\ status' = [s \in Services |-> IF s \in S THEN "running" ELSE status[s]]

\* start, of each service of S: ignored where there is a process already.
Start(S) ==
  LET new == {s \in S : proc[s] = 0} IN
  /\ child' = [s \in Services |-> IF s \in new THEN Append(child[s], Spawned) ELSE child[s]]
  /\ proc' = [s \in Services |-> IF s \in new THEN Len(child[s]) + 1 ELSE proc[s]]
  /\ status' = [s \in Services |-> IF s \in new THEN "running" ELSE status[s]]

\* Mutant: a service without a process is signalled too.
GroupsUnchecked(S) == {<<s, proc[s]>> : s \in S}

\* signalGroup, of the current process of each service of S.  The leader is
\* reaped and its exit reported in one callback, so the group is never gone
\* while its pid is known, and the signal to the leader alone is not needed.
Groups(S) == {<<s, proc[s]>> : s \in {r \in S : proc[r] # 0}}

\* Mutant: the look back without the signal.
StopUnsignalled(s, more) ==
  /\ status' = [status EXCEPT ![s] = IF proc[s] # 0 THEN "stopped" ELSE @]
  /\ timers' = timers \cup more \cup
       (IF proc[s] # 0 THEN {SetTimer("kill", s, KillDelay)} ELSE {})
  /\ UNCHANGED <<child, proc, signals>>

\* stop: SIGTERM to the group, and a look back after KillDelay.
Stop(s, more) ==
  /\ status' = [status EXCEPT ![s] = IF proc[s] # 0 THEN "stopped" ELSE @]
  /\ asked' = asked \cup Groups({s})
  /\ timers' = timers \cup more \cup
       (IF proc[s] # 0 THEN {SetTimer("kill", s, KillDelay)} ELSE {})
  /\ UNCHANGED <<child, proc, forced>>

\* Mutant: SIGTERM again instead of SIGKILL.
KillTimerPolite(t) ==
  /\ Due(t, "kill")
  /\ timers' = timers \ {t}
  /\ asked' = asked \cup Groups({t.service})
  /\ UNCHANGED <<table, forced, boot, quit, keys, crashes, deployed>>

\* The callback of stop's setTimeout.
KillTimer(t) ==
  /\ Due(t, "kill")
  /\ timers' = timers \ {t}
  /\ forced' = forced \cup Groups({t.service})
  /\ UNCHANGED <<table, asked, boot, quit, keys, crashes, deployed>>

\* A process of child n exits, as it was told to or by itself.
Dies(s, n) ==
  /\ quit # "exited"
  /\ IF <<s, n>> \in asked \cup forced THEN UNCHANGED crashes
       ELSE crashes < MaxCrashes /\ crashes' = crashes + 1
  /\ UNCHANGED <<signals, timers, boot, quit, keys, deployed>>

\* The leader exits, and the exit event clears the table; the others of its
\* group are not asked.
LeaderExits(s, n) ==
  /\ Dies(s, n)
  /\ child[s][n].leader
  /\ child' = [child EXCEPT ![s][n].leader = FALSE]
  /\ proc' = [proc EXCEPT ![s] = 0]
  /\ status' = [status EXCEPT ![s] = "exited"]

\* The server is gone; its leader may take a while to notice.
ServerExits(s, n) ==
  /\ Dies(s, n)
  /\ child[s][n].server # "dead"
  /\ child' = [child EXCEPT ![s][n].server = "dead"]
  /\ UNCHANGED <<proc, status>>

\* The server opens its port, which no other may hold.
Listens(s, n) ==
  /\ quit # "exited"
  /\ child[s][n].server = "starting" /\ ~Listening(s)
  /\ child' = [child EXCEPT ![s][n].server = "listening"]
  /\ UNCHANGED <<proc, status, signals, timers, boot, quit, keys, crashes, deployed>>

-----------------------------------------------------------------------------
(* index.ts                                                                 *)

\* The rest of startAndRegister, for each service of S that is to be announced
\* to the runtime: it waits until the port is open, then posts the deployment.
\* It goes on whether start was ignored or not, and asks the port, not the child.
Register(S) == {SetTimer("listen", s, BootDelay) : s \in S \cap Deployable}

\* Mutant: a service that listens is not announced.
AwaitListeningOnly(t) ==
  /\ t \in timers /\ t.kind = "listen"
  /\ Listening(t.service) \/ t.left = 0
  /\ timers' = timers \ {t}
  /\ UNCHANGED <<table, signals, boot, quit, keys, crashes, deployed>>

\* awaitListening
AwaitListening(t) ==
  /\ t \in timers /\ t.kind = "listen"
  /\ Listening(t.service) \/ t.left = 0
  /\ timers' = (timers \ {t}) \cup
       (IF Listening(t.service) THEN {[t EXCEPT !.kind = "deploy", !.left = DeployDelay]} ELSE {})
  /\ UNCHANGED <<table, signals, boot, quit, keys, crashes, deployed>>

\* registerDeployment: the runtime takes it once it and the service are up.
RegisterDeployment(t) ==
  /\ t \in timers /\ t.kind = "deploy"
  /\ Answered(t) \/ t.left = 0
  /\ timers' = timers \ {t}
  /\ deployed' = IF Answered(t) THEN deployed \cup {t.service} ELSE deployed
  /\ UNCHANGED <<table, signals, boot, quit, keys, crashes>>

\* startAll: the runtime first; the others once it listens, or after 30 s.
BootFirst ==
  /\ boot = "first" /\ quit # "exited"
  /\ Start({First})
  /\ boot' = "await"
  /\ timers' = timers \cup {SetTimer("boot", First, BootDelay)}
  /\ UNCHANGED <<signals, quit, keys, crashes, deployed>>

BootRest ==
  /\ boot = "await" /\ quit # "exited"
  /\ Listening(First) \/ \E t \in timers : Due(t, "boot")
  /\ Start(Services \ {First})
  /\ boot' = "done"
  /\ timers' = {t \in timers : t.kind # "boot"} \cup Register(Services \ {First})
  /\ UNCHANGED <<signals, quit, keys, crashes, deployed>>

\* startAll spawns the runtime before the TUI reads its first key.
Press ==
  /\ boot # "first" /\ quit = "no" /\ keys < MaxKeys
  /\ keys' = keys + 1
  /\ UNCHANGED <<boot, crashes>>

KeyStart(s) ==
  /\ Press
  /\ Start({s})
  /\ timers' = timers \cup Register({s})
  /\ UNCHANGED <<signals, quit, deployed>>

KeyKill(s) ==
  /\ Press
  /\ Stop(s, {})
  /\ UNCHANGED <<quit, deployed>>

KeyRestart(s) ==
  /\ Press
  /\ Stop(s, {SetTimer("restart", s, RestartDelay)})
  /\ UNCHANGED <<quit, deployed>>

\* onRestart, after its wait.
RestartTimer(t) ==
  /\ Due(t, "restart")
  /\ Start({t.service})
  /\ timers' = (timers \ {t}) \cup Register({t.service})
  /\ UNCHANGED <<signals, boot, quit, keys, crashes, deployed>>

\* shutdown: stopAll, a moment to flush, process.exit.
KeyQuit ==
  /\ Press
  /\ asked' = asked \cup Groups(Services)
  /\ timers' = timers \cup {SetTimer("quit", First, QuitDelay)}
  /\ quit' = "flushing"
  /\ UNCHANGED <<table, forced, deployed>>

ProcessExit(t) ==
  /\ Due(t, "quit")
  /\ quit' = "exited"
  /\ timers' = {}
  /\ UNCHANGED <<table, signals, boot, keys, crashes, deployed>>

\* Time waits for the timers that are due, and for the ports that are asked
\* at shorter intervals than a tick.
Waits(t) == t.left > 0 /\ ~(t.kind = "listen" /\ Listening(t.service)) /\ ~(t.kind = "deploy" /\ Answered(t))
Tick ==
  /\ timers # {} /\ \A t \in timers : Waits(t)
  /\ timers' = {[t EXCEPT !.left = @ - 1] : t \in timers}
  /\ UNCHANGED <<table, signals, boot, quit, keys, crashes, deployed>>

TimerStep == \E t \in timers : KillTimer(t) \/ RestartTimer(t) \/ ProcessExit(t) \/ AwaitListening(t) \/ RegisterDeployment(t)
BootStep == BootFirst \/ BootRest
Key == KeyQuit \/ \E s \in Services : KeyStart(s) \/ KeyKill(s) \/ KeyRestart(s)
ChildStep(s) == \E n \in DOMAIN child[s] : LeaderExits(s, n) \/ ServerExits(s, n) \/ Listens(s, n)

Next == TimerStep \/ BootStep \/ Tick \/ Key \/ \E s \in Services : ChildStep(s)

\* The event loop runs every callback that is due and SIGKILL is obeyed by all
\* of the group; SIGTERM may be ignored, and keys need not be pressed.
Killed(s) ==
  \E n \in DOMAIN child[s] :
    /\ <<s, n>> \in forced
    /\ LeaderExits(s, n) \/ (s \notin Contained /\ ServerExits(s, n))
Fairness == /\ WF_vars(TimerStep) /\ WF_vars(BootStep) /\ WF_vars(Tick)
            /\ \A s \in Services : WF_vars(Killed(s))
Spec == Init /\ [][Next]_vars /\ Fairness

-----------------------------------------------------------------------------
(* Properties.                                                              *)

Timers == [kind : {"kill", "restart", "boot", "quit", "listen", "deploy"},
           service : Services, left : Nat, key : 0..MaxKeys]

TypeOK ==
  /\ child \in [Services -> Seq([leader : BOOLEAN, server : {"starting", "listening", "dead"}])]
  /\ proc \in [Services -> Nat] /\ \A s \in Services : proc[s] \in 0..Len(child[s])
  /\ status \in [Services -> {"stopped", "running", "exited"}]
  /\ \A p \in asked \cup forced : p \in Services \X Nat /\ p[2] \in 1..Len(child[p[1]])
  /\ timers \subseteq Timers
  /\ boot \in {"first", "await", "done"} /\ quit \in {"no", "flushing", "exited"}
  /\ keys \in 0..MaxKeys /\ crashes \in 0..MaxCrashes
  /\ deployed \subseteq Deployable

\* Whatever keys are pressed while restarts and boots are under way: every
\* service has at most one living leader, the one the table knows and can
\* signal, and the table knows no dead one.  A server that outlived its leader
\* is not in the table; nothing tells the supervisor of it.
EveryLeaderIsTracked ==
  \A s \in Services : {n \in DOMAIN child[s] : child[s][n].leader} = {proc[s]} \ {0}

\* SIGKILL is only sent to the children of a service that was stopped before;
\* that it may hit a later child than the one that lingered is a finding.
OnlyStoppedServicesAreForced ==
  \A p \in forced : \E n \in 1..p[2] : <<p[1], n>> \in asked

\* A stopped child is gone in the end, leader and server, even if it ignores
\* SIGTERM and whatever keys follow, unless the operator quits first.  The
\* exception is a server whose leader went before the group was sent SIGKILL,
\* or which no signal reaches: nobody stops it any more.
Abandoned(s, n) == ~child[s][n].leader /\ (<<s, n>> \notin forced \/ s \in Contained)
Lingers(s) ==
  \E n \in DOMAIN child[s] :
    /\ <<s, n>> \in asked
    /\ child[s][n].leader \/ child[s][n].server # "dead"
    /\ ~Abandoned(s, n)
StoppedChildDies == \A s \in Services : Lingers(s) ~> (~Lingers(s) \/ quit # "no")

\* A service that is to be announced becomes known to the runtime while both
\* are up, in whatever order they came up and whatever was restarted before.
Announced(s) == \E t \in timers : t.service = s /\ t.kind \in {"listen", "deploy"}
Up(s) == Listening(First) /\ Listening(s)
EveryServiceIsDeployed ==
  \A s \in Deployable : Announced(s) /\ Up(s) ~> (s \in deployed \/ ~Up(s) \/ quit = "exited")

\* "Quit it with q and every child shuts down cleanly with it" (README.md:43):
\* a child that outlives the supervisor was told to stop.
QuitLeavesNoChild ==
  quit = "exited" =>
    \A s \in Services : \A n \in DOMAIN child[s] : child[s][n].leader => <<s, n>> \in asked
=============================================================================
