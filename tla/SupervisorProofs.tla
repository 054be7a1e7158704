--------------------------- MODULE SupervisorProofs ---------------------------
(***************************************************************************)
(* What the process table of Supervisor guarantees for any services,       *)
(* delays and number of keys.                                              *)
(***************************************************************************)
EXTENDS Supervisor, TLAPS, SequenceTheorems

States == [leader : BOOLEAN, server : {"starting", "listening", "dead"}]

\* The table knows the youngest child of a service or none, and exactly the
\* child whose leader lives.
TableInv ==
  /\ \A s \in Services : proc[s] \in {0, Len(child[s])}
  /\ \A s \in Services : \A n \in 1..Len(child[s]) : child[s][n].leader <=> n = proc[s]

\* A kill timer was set by a stop that did signal a child; only services that
\* are deployed by the supervisor are announced.
Rightful(t) ==
  /\ t.kind = "kill" => \E n \in 1..Len(child[t.service]) : <<t.service, n>> \in asked
  /\ t.kind \in {"listen", "deploy"} => t.service \in Deployable
TimerInv == \A t \in timers : Rightful(t)

IInv == TypeOK /\ TableInv /\ TimerInv /\ OnlyStoppedServicesAreForced

LEMMA Delays ==
  /\ BootDelay \in Nat /\ DeployDelay \in Nat /\ KillDelay \in Nat
  /\ RestartDelay \in Nat /\ QuitDelay \in Nat /\ MaxKeys \in Nat /\ MaxCrashes \in Nat
  BY DelaysAssumption

LEMMA InitIInv == Init => IInv
  BY Delays DEF Init, IInv, TypeOK, TableInv, TimerInv, OnlyStoppedServicesAreForced

\* Children are only added, signals only sent: what asked, forced and the
\* timers refer to stays where it was.
LEMMA Lasting ==
  ASSUME IInv, child' \in [Services -> Seq(States)],
         \A s \in Services : Len(child[s]) <= Len(child'[s]),
         asked \subseteq asked'
  PROVE  /\ \A t \in timers : Rightful(t)'
         /\ \A p \in asked \cup forced : p \in Services \X Nat /\ p[2] \in 1..Len(child'[p[1]])
         /\ \A p \in forced : \E n \in 1..p[2] : <<p[1], n>> \in asked'
<1>1. \A s \in Services : /\ Len(child[s]) \in Nat /\ Len(child'[s]) \in Nat
                          /\ 1..Len(child[s]) \subseteq 1..Len(child'[s])
  BY DEF IInv, TypeOK, States
<1>2. \A t \in timers : Rightful(t) /\ t.service \in Services
  BY DEF IInv, TimerInv, TypeOK, Timers
<1>3. \A t \in timers : Rightful(t)'
  BY <1>1, <1>2 DEF Rightful
<1>4. \A p \in asked \cup forced : p \in Services \X Nat /\ p[2] \in 1..Len(child'[p[1]])
  BY <1>1 DEF IInv, TypeOK
<1>5. \A p \in forced : \E n \in 1..p[2] : <<p[1], n>> \in asked'
  BY DEF IInv, OnlyStoppedServicesAreForced
<1> QED
  BY <1>3, <1>4, <1>5

\* start spawns a child only where the table knows none.
LEMMA StartTable ==
  ASSUME IInv, NEW S \in SUBSET Services, Start(S)
  PROVE  /\ child' \in [Services -> Seq(States)]
         /\ \A s \in Services : Len(child[s]) <= Len(child'[s])
         /\ proc' \in [Services -> Nat] /\ \A s \in Services : proc'[s] \in 0..Len(child'[s])
         /\ status' \in [Services -> {"stopped", "running", "exited"}]
         /\ TableInv'
<1> DEFINE new == {s \in S : proc[s] = 0}
<1>1. \A s \in Services : child[s] \in Seq(States) /\ Len(child[s]) \in Nat
  <2>1. child \in [Services -> Seq(States)]
    BY DEF IInv, TypeOK, States
  <2> QED
    BY <2>1
<1>2. /\ child' = [s \in Services |-> IF s \in new THEN Append(child[s], Spawned) ELSE child[s]]
      /\ proc' = [s \in Services |-> IF s \in new THEN Len(child[s]) + 1 ELSE proc[s]]
      /\ status' = [s \in Services |-> IF s \in new THEN "running" ELSE status[s]]
  BY DEF Start
<1>3. \A s \in Services :
        /\ Append(child[s], Spawned) \in Seq(States)
        /\ Len(Append(child[s], Spawned)) = Len(child[s]) + 1
        /\ \A n \in 1..Len(child[s]) : Append(child[s], Spawned)[n] = child[s][n]
        /\ Append(child[s], Spawned)[Len(child[s]) + 1] = Spawned
  <2> SUFFICES ASSUME NEW s \in Services
               PROVE  /\ Append(child[s], Spawned) \in Seq(States)
                      /\ Len(Append(child[s], Spawned)) = Len(child[s]) + 1
                      /\ \A n \in 1..Len(child[s]) : Append(child[s], Spawned)[n] = child[s][n]
                      /\ Append(child[s], Spawned)[Len(child[s]) + 1] = Spawned
    OBVIOUS
  <2>1. Spawned \in States
    BY DEF States, Spawned
  <2> QED
    BY <1>1, <2>1, AppendProperties
<1>4. child' \in [Services -> Seq(States)]
  BY <1>1, <1>2, <1>3
<1>5. \A s \in Services : Len(child[s]) <= Len(child'[s])
  BY <1>1, <1>2, <1>3
<1>6. \A s \in Services : proc'[s] \in {0, Len(child'[s])}
  BY <1>1, <1>2, <1>3 DEF IInv, TableInv
<1>7. ASSUME NEW s \in Services, NEW n \in 1..Len(child'[s])
      PROVE  child'[s][n].leader <=> n = proc'[s]
  <2>1. \A m \in 1..Len(child[s]) : child[s][m].leader <=> m = proc[s]
    BY DEF IInv, TableInv
  <2>2. CASE s \in new
    <3>1. n \in 1..(Len(child[s]) + 1) /\ proc'[s] = Len(child[s]) + 1 /\ proc[s] = 0
      BY <1>1, <1>2, <1>3, <1>7, <2>2
    <3>2. Spawned.leader = TRUE
      BY DEF Spawned
    <3> QED
      BY <1>1, <1>2, <1>3, <2>1, <2>2, <3>1, <3>2
  <2>3. CASE s \notin new
    BY <1>2, <1>7, <2>1, <2>3
  <2> QED
    BY <2>2, <2>3
<1>8. proc' \in [Services -> Nat] /\ \A s \in Services : proc'[s] \in 0..Len(child'[s])
  <2>1. \A s \in Services : Len(child'[s]) \in Nat
    BY <1>4
  <2> QED
    BY <1>2, <1>6, <2>1
<1>9. status' \in [Services -> {"stopped", "running", "exited"}]
  BY <1>2 DEF IInv, TypeOK
<1> QED
  BY <1>4, <1>5, <1>6, <1>7, <1>8, <1>9 DEF TableInv

\* A started service: the table, and timers that are rightful, make the rest.
LEMMA StartIInv ==
  ASSUME IInv, NEW S \in SUBSET Services, Start(S), UNCHANGED <<signals, quit>>,
         NEW more \in SUBSET Timers, timers' \subseteq timers \cup more,
         \A t \in more : t.kind # "kill" /\ (t.kind \in {"listen", "deploy"} => t.service \in Deployable),
         boot' \in {"first", "await", "done"}, keys' \in 0..MaxKeys,
         UNCHANGED <<crashes, deployed>>
  PROVE  IInv'
<1>1. /\ child' \in [Services -> Seq(States)]
      /\ \A s \in Services : Len(child[s]) <= Len(child'[s])
      /\ proc' \in [Services -> Nat] /\ \A s \in Services : proc'[s] \in 0..Len(child'[s])
      /\ status' \in [Services -> {"stopped", "running", "exited"}]
      /\ TableInv'
  BY StartTable
<1>2. /\ \A t \in timers : Rightful(t)'
      /\ \A p \in asked \cup forced : p \in Services \X Nat /\ p[2] \in 1..Len(child'[p[1]])
      /\ \A p \in forced : \E n \in 1..p[2] : <<p[1], n>> \in asked'
  BY <1>1, Lasting DEF signals
<1>3. \A t \in more : Rightful(t)'
  BY DEF Rightful
<1>4. TimerInv'
  BY <1>2, <1>3 DEF TimerInv
<1>5. OnlyStoppedServicesAreForced'
  BY <1>2 DEF OnlyStoppedServicesAreForced, signals
<1>6. TypeOK'
  BY <1>1, <1>2 DEF IInv, TypeOK, States, signals
<1> QED
  BY <1>1, <1>4, <1>5, <1>6 DEF IInv

\* startAndRegister sets timers of one kind only.
LEMMA RegisterTimers ==
  ASSUME IInv, NEW S \in SUBSET Services
  PROVE  /\ Register(S) \subseteq Timers
         /\ \A t \in Register(S) : t.kind = "listen" /\ t.service \in Deployable
  BY Delays DEF Register, SetTimer, Timers, IInv, TypeOK

\* The groups that are signalled are those of children the table knows.
LEMMA GroupsKnown ==
  ASSUME IInv, NEW S \in SUBSET Services
  PROVE  \A p \in Groups(S) : /\ p \in Services \X Nat
                              /\ p[1] \in S /\ p[2] = proc[p[1]]
                              /\ p[2] \in 1..Len(child[p[1]]) /\ p[2] = Len(child[p[1]])
<1> SUFFICES ASSUME NEW s \in S, proc[s] # 0
             PROVE  proc[s] \in Nat /\ proc[s] \in 1..Len(child[s]) /\ proc[s] = Len(child[s])
  BY DEF Groups
<1>1. proc[s] \in 0..Len(child[s]) /\ proc[s] \in Nat /\ Len(child[s]) \in Nat
  BY DEF IInv, TypeOK
<1>2. proc[s] \in {0, Len(child[s])}
  BY DEF IInv, TableInv
<1> QED
  BY <1>1, <1>2

\* Steps that leave the children to themselves.
LEMMA SignalIInv ==
  ASSUME IInv, UNCHANGED <<child, proc, crashes>>,
         status' \in [Services -> {"stopped", "running", "exited"}],
         asked \subseteq asked', forced \subseteq forced',
         \A p \in (asked' \cup forced') \ (asked \cup forced) :
           p \in Services \X Nat /\ p[2] \in 1..Len(child[p[1]]),
         \A p \in forced' \ forced : \E n \in 1..p[2] : <<p[1], n>> \in asked',
         \A t \in timers' \ timers : t \in Timers /\ Rightful(t)',
         boot' \in {"first", "await", "done"}, quit' \in {"no", "flushing", "exited"},
         keys' \in 0..MaxKeys, deployed' \subseteq Deployable
  PROVE  IInv'
<1>1. child' \in [Services -> Seq(States)] /\ \A s \in Services : Len(child[s]) <= Len(child'[s])
  <2>1. \A s \in Services : Len(child[s]) \in Nat
    BY DEF IInv, TypeOK
  <2> QED
    BY <2>1 DEF IInv, TypeOK, States
<1>2. /\ \A t \in timers : Rightful(t)'
      /\ \A p \in asked \cup forced : p \in Services \X Nat /\ p[2] \in 1..Len(child'[p[1]])
      /\ \A p \in forced : \E n \in 1..p[2] : <<p[1], n>> \in asked'
  BY <1>1, Lasting
<1>3. TypeOK'
  BY <1>2 DEF IInv, TypeOK
<1>4. TimerInv'
  BY <1>2 DEF TimerInv
<1>5. OnlyStoppedServicesAreForced'
  BY <1>2 DEF OnlyStoppedServicesAreForced
<1>6. TableInv'
  BY DEF IInv, TableInv
<1> QED
  BY <1>3, <1>4, <1>5, <1>6 DEF IInv

LEMMA StopIInv ==
  ASSUME IInv, NEW s \in Services, NEW more \in SUBSET Timers, Stop(s, more),
         \A t \in more : t.kind \notin {"kill", "listen", "deploy"},
         UNCHANGED <<boot, quit, crashes, deployed>>, keys' \in 0..MaxKeys
  PROVE  IInv'
<1> DEFINE kill == SetTimer("kill", s, KillDelay)
<1>1. \A p \in Groups({s}) : p \in Services \X Nat /\ p[2] \in 1..Len(child[p[1]])
  BY GroupsKnown
<1>2. asked' = asked \cup Groups({s}) /\ UNCHANGED <<child, proc, forced>>
  BY DEF Stop
<1>3. \A t \in timers' \ timers : t \in Timers /\ Rightful(t)'
  <2> SUFFICES ASSUME NEW t \in timers' \ timers
               PROVE  t \in Timers /\ Rightful(t)'
    OBVIOUS
  <2>1. CASE t \in more
    BY <2>1 DEF Rightful
  <2>2. CASE t \notin more
    <3>1. t = kill /\ proc[s] # 0
      BY <2>2 DEF Stop
    <3>2. t \in Timers /\ t.kind = "kill" /\ t.service = s
      BY <3>1, Delays DEF SetTimer, Timers, IInv, TypeOK
    <3>3. <<s, proc[s]>> \in Groups({s})
      BY <3>1 DEF Groups
    <3>4. proc[s] \in 1..Len(child[s])
      BY <1>1, <3>3
    <3> QED
      BY <1>2, <3>2, <3>3, <3>4 DEF Rightful
  <2> QED
    BY <2>1, <2>2
<1>4. status' \in [Services -> {"stopped", "running", "exited"}]
  BY DEF Stop, IInv, TypeOK
<1>5. /\ boot' \in {"first", "await", "done"} /\ quit' \in {"no", "flushing", "exited"}
      /\ deployed' \subseteq Deployable
  BY DEF IInv, TypeOK
<1> QED
  BY <1>1, <1>2, <1>3, <1>4, <1>5, SignalIInv

LEMMA KillTimerIInv ==
  ASSUME IInv, NEW t \in timers, KillTimer(t)
  PROVE  IInv'
<1>1. t.kind = "kill" /\ t.service \in Services
  BY DEF KillTimer, Due, IInv, TypeOK, Timers
<1>2. PICK n \in 1..Len(child[t.service]) : <<t.service, n>> \in asked
  BY <1>1 DEF IInv, TimerInv, Rightful
<1>3. \A p \in Groups({t.service}) : /\ p \in Services \X Nat /\ p[2] \in 1..Len(child[p[1]])
                                     /\ p[1] = t.service /\ p[2] = Len(child[t.service])
  BY <1>1, GroupsKnown
<1>4. forced' = forced \cup Groups({t.service}) /\ UNCHANGED <<asked, child, proc>>
  BY DEF KillTimer, table
<1>5. \A p \in forced' \ forced : \E m \in 1..p[2] : <<p[1], m>> \in asked'
  BY <1>2, <1>3, <1>4
<1>6. /\ status' \in [Services -> {"stopped", "running", "exited"}]
      /\ boot' \in {"first", "await", "done"} /\ quit' \in {"no", "flushing", "exited"}
      /\ keys' \in 0..MaxKeys /\ deployed' \subseteq Deployable
      /\ timers' \subseteq timers /\ UNCHANGED <<quit, crashes>>
  BY DEF KillTimer, table, IInv, TypeOK
<1> QED
  BY <1>3, <1>4, <1>5, <1>6, SignalIInv

\* A process of a child exits: the record of the child stays one, the table is
\* all there is to check.
LEMMA ChildIInv ==
  ASSUME IInv, NEW s \in Services, NEW n \in DOMAIN child[s], NEW next \in States,
         child' = [child EXCEPT ![s] = [child[s] EXCEPT ![n] = next]],
         \A r \in Services : proc'[r] \in {0, proc[r]},
         \A r \in Services \ {s} : proc'[r] = proc[r],
         \/ next.leader = child[s][n].leader /\ proc'[s] = proc[s]
         \/ child[s][n].leader /\ next.leader = FALSE /\ proc'[s] = 0,
         proc' \in [Services -> Nat],
         status' \in [Services -> {"stopped", "running", "exited"}],
         crashes' \in 0..MaxCrashes,
         UNCHANGED <<asked, forced, timers, boot, quit, keys, deployed>>
  PROVE  IInv'
<1>1. /\ child \in [Services -> Seq(States)] /\ child[s] \in Seq(States)
      /\ \A r \in Services : Len(child[r]) \in Nat /\ DOMAIN child[r] = 1..Len(child[r])
  BY DEF IInv, TypeOK, States
<1>2. /\ [child[s] EXCEPT ![n] = next] \in Seq(States)
      /\ Len([child[s] EXCEPT ![n] = next]) = Len(child[s])
      /\ \A m \in 1..Len(child[s]) :
           [child[s] EXCEPT ![n] = next][m] = IF m = n THEN next ELSE child[s][m]
  BY <1>1, ExceptSeq
<1>3. /\ child' \in [Services -> Seq(States)] /\ \A r \in Services : Len(child'[r]) = Len(child[r])
      /\ \A r \in Services \ {s} : child'[r] = child[r]
      /\ \A m \in 1..Len(child[s]) : child'[s][m] = IF m = n THEN next ELSE child[s][m]
  BY <1>1, <1>2
<1>4. /\ \A t \in timers : Rightful(t)'
      /\ \A p \in asked \cup forced : p \in Services \X Nat /\ p[2] \in 1..Len(child'[p[1]])
      /\ \A p \in forced : \E m \in 1..p[2] : <<p[1], m>> \in asked'
  <2>1. \A r \in Services : Len(child[r]) <= Len(child'[r])
    BY <1>1, <1>3
  <2>2. asked \subseteq asked'
    OBVIOUS
  <2> QED
    BY <1>3, <2>1, <2>2, Lasting
<1>5. TableInv'
  <2>1. \A r \in Services : proc'[r] \in {0, Len(child'[r])}
    BY <1>3 DEF IInv, TableInv
  <2>2. \A r \in Services : \A m \in 1..Len(child[r]) : child[r][m].leader <=> m = proc[r]
    BY DEF IInv, TableInv
  <2>3. ASSUME NEW m \in 1..Len(child[s]) PROVE child'[s][m].leader <=> m = proc'[s]
    <3>1. m # 0 /\ n \in 1..Len(child[s])
      BY <1>1
    <3>2. child'[s][m] = IF m = n THEN next ELSE child[s][m]
      BY <1>3
    <3>3. (child[s][m].leader <=> m = proc[s]) /\ (child[s][n].leader <=> n = proc[s])
      BY <2>2, <3>1
    <3> QED
      BY <3>1, <3>2, <3>3
  <2>4. ASSUME NEW r \in Services, NEW m \in 1..Len(child[r])
        PROVE  child'[r][m].leader <=> m = proc'[r]
    BY <1>3, <2>2, <2>3
  <2> QED
    BY <1>3, <2>1, <2>4 DEF TableInv
<1>6. \A r \in Services : proc'[r] \in 0..Len(child'[r])
  <2> SUFFICES ASSUME NEW r \in Services PROVE proc'[r] \in 0..Len(child[r])
    BY <1>3
  <2>1. proc[r] \in 0..Len(child[r]) /\ Len(child[r]) \in Nat
    BY <1>1 DEF IInv, TypeOK
  <2> QED
    BY <2>1
<1>7. TypeOK'
  BY <1>3, <1>4, <1>6 DEF IInv, TypeOK, States
<1> QED
  BY <1>4, <1>5, <1>7 DEF IInv, TimerInv, OnlyStoppedServicesAreForced

\* What a child is, and what it becomes.
LEMMA ChildIs ==
  ASSUME IInv, NEW s \in Services, NEW n \in DOMAIN child[s]
  PROVE  /\ child[s][n] \in States
         /\ [child[s][n] EXCEPT !.leader = FALSE] \in States
         /\ [child[s][n] EXCEPT !.leader = FALSE].leader = FALSE
         /\ \A server \in {"listening", "dead"} :
              /\ [child[s][n] EXCEPT !.server = server] \in States
              /\ [child[s][n] EXCEPT !.server = server].leader = child[s][n].leader
         /\ child \in [Services -> Seq(States)]
<1>1. child[s] \in Seq(States) /\ child \in [Services -> Seq(States)]
  BY DEF IInv, TypeOK, States
<1>2. child[s][n] \in States
  BY <1>1
<1> QED
  BY <1>1, <1>2 DEF States

LEMMA DiesTypes ==
  ASSUME IInv, NEW s, NEW n, Dies(s, n)
  PROVE  /\ crashes' \in 0..MaxCrashes
         /\ UNCHANGED <<asked, forced, timers, boot, quit, keys, deployed>>
<1>1. crashes \in 0..MaxCrashes
  BY DEF IInv, TypeOK
<1>2. crashes' = crashes \/ (crashes < MaxCrashes /\ crashes' = crashes + 1)
  BY DEF Dies
<1>3. crashes' \in 0..MaxCrashes
  BY <1>1, <1>2, Delays
<1> QED
  BY <1>3 DEF Dies, signals

\* The leader that exits is the one the table knew.
LEMMA ExitIInv ==
  ASSUME IInv, NEW s \in Services, NEW n \in DOMAIN child[s],
         LeaderExits(s, n) \/ ServerExits(s, n) \/ Listens(s, n)
  PROVE  IInv'
<1>1. /\ proc \in [Services -> Nat] /\ status \in [Services -> {"stopped", "running", "exited"}]
      /\ crashes \in 0..MaxCrashes
  BY DEF IInv, TypeOK
<1>2. CASE LeaderExits(s, n)
  <2> DEFINE next == [child[s][n] EXCEPT !.leader = FALSE]
  <2>1. next \in States /\ next.leader = FALSE
    BY ChildIs
  <2>2. /\ child' = [child EXCEPT ![s] = [child[s] EXCEPT ![n] = next]] /\ child[s][n].leader
        /\ proc' = [proc EXCEPT ![s] = 0] /\ status' = [status EXCEPT ![s] = "exited"]
        /\ Dies(s, n)
    BY <1>2 DEF LeaderExits
  <2> HIDE DEF next
  <2>3. /\ proc' \in [Services -> Nat] /\ proc'[s] = 0
        /\ \A r \in Services \ {s} : proc'[r] = proc[r]
        /\ status' \in [Services -> {"stopped", "running", "exited"}]
    BY <1>1, <2>2
  <2> QED
    BY <2>1, <2>2, <2>3, DiesTypes, ChildIInv
<1>3. ASSUME NEW server \in {"listening", "dead"},
             child' = [child EXCEPT ![s][n].server = server],
             crashes' \in 0..MaxCrashes,
             UNCHANGED <<proc, status, asked, forced, timers, boot, quit, keys, deployed>>
      PROVE  IInv'
  <2> DEFINE next == [child[s][n] EXCEPT !.server = server]
  <2>1. next \in States /\ next.leader = child[s][n].leader
    BY ChildIs
  <2>2. child' = [child EXCEPT ![s] = [child[s] EXCEPT ![n] = next]]
    BY <1>3
  <2> HIDE DEF next
  <2>3. /\ proc' = proc /\ proc' \in [Services -> Nat] /\ proc'[s] = proc[s]
        /\ \A r \in Services : proc'[r] \in {0, proc[r]}
        /\ \A r \in Services \ {s} : proc'[r] = proc[r]
        /\ status' \in [Services -> {"stopped", "running", "exited"}]
        /\ UNCHANGED <<asked, forced, timers, boot, quit, keys, deployed>>
    BY <1>1, <1>3
  <2>4. crashes' \in 0..MaxCrashes
    BY <1>3
  <2> QED
    BY <2>1, <2>2, <2>3, <2>4, ChildIInv
<1>4. CASE ServerExits(s, n)
  BY <1>3, <1>4, DiesTypes DEF ServerExits
<1>5. CASE Listens(s, n)
  BY <1>1, <1>3, <1>5 DEF Listens, signals
<1> QED
  BY <1>2, <1>4, <1>5

\* Time passes: the timers stay what they are for.
LEMMA TickIInv ==
  ASSUME IInv, Tick
  PROVE  IInv'
<1>1. \A t \in timers : t \in Timers /\ Rightful(t) /\ t.left > 0
  BY DEF IInv, TypeOK, TimerInv, Tick, Waits
<1>2. timers' = {[t EXCEPT !.left = @ - 1] : t \in timers}
  BY DEF Tick
<1>3. UNCHANGED <<child, proc, status, asked, forced, boot, quit, keys, crashes, deployed>>
  BY DEF Tick, table, signals
<1>4. \A t \in timers' : t \in Timers /\ Rightful(t)'
  <2> SUFFICES ASSUME NEW t \in timers
               PROVE  [t EXCEPT !.left = @ - 1] \in Timers /\ Rightful([t EXCEPT !.left = @ - 1])'
    BY <1>2
  <2> DEFINE later == [t EXCEPT !.left = @ - 1]
  <2>1. t.left - 1 \in Nat
    BY <1>1 DEF Timers
  <2>2. later \in Timers /\ later.kind = t.kind /\ later.service = t.service
    BY <1>1, <2>1 DEF Timers
  <2>3. Rightful(t)
    BY <1>1
  <2> HIDE DEF later
  <2>4. Rightful(later)'
    BY <1>3, <2>2, <2>3 DEF Rightful
  <2> QED
    BY <2>2, <2>4 DEF later
<1> QED
  BY <1>3, <1>4 DEF IInv, TypeOK, TableInv, TimerInv, OnlyStoppedServicesAreForced

LEMMA TimerStepIInv ==
  ASSUME IInv, NEW t \in timers,
         RestartTimer(t) \/ ProcessExit(t) \/ AwaitListening(t) \/ RegisterDeployment(t)
  PROVE  IInv'
<1>1. t \in Timers /\ Rightful(t)
  BY DEF IInv, TypeOK, TimerInv
<1>2. CASE RestartTimer(t)
  <2>1. t.service \in Services
    BY <1>1 DEF Timers
  <2>2. /\ Register({t.service}) \subseteq Timers
        /\ \A u \in Register({t.service}) : u.kind = "listen" /\ u.service \in Deployable
    BY <2>1, RegisterTimers
  <2>3. /\ Start({t.service}) /\ timers' \subseteq timers \cup Register({t.service})
        /\ UNCHANGED <<signals, boot, quit, keys, crashes, deployed>>
    BY <1>2 DEF RestartTimer
  <2>4. boot \in {"first", "await", "done"} /\ keys \in 0..MaxKeys
    BY DEF IInv, TypeOK
  <2> QED
    BY <2>1, <2>2, <2>3, <2>4, StartIInv
<1>3. CASE ProcessExit(t)
  BY <1>3 DEF ProcessExit, table, signals, IInv, TypeOK, TableInv, TimerInv,
              OnlyStoppedServicesAreForced
<1>4. CASE AwaitListening(t)
  <2> DEFINE next == [t EXCEPT !.kind = "deploy", !.left = DeployDelay]
  <2>1. t.kind = "listen" /\ t.service \in Deployable
    BY <1>1, <1>4 DEF AwaitListening, Rightful
  <2>2. next \in Timers /\ next.kind = "deploy" /\ next.service = t.service
    BY <1>1, Delays DEF Timers
  <2>3. timers' \subseteq timers \cup {next}
    BY <1>4 DEF AwaitListening
  <2>4. UNCHANGED <<child, proc, status, asked, forced, boot, quit, keys, crashes, deployed>>
    BY <1>4 DEF AwaitListening, table, signals
  <2>5. Rightful(next)'
    <3> HIDE DEF next
    <3> QED
      BY <2>1, <2>2 DEF Rightful
  <2> HIDE DEF next
  <2>6. timers' \subseteq Timers
    BY <2>2, <2>3 DEF IInv, TypeOK
  <2>7. TimerInv'
    BY <2>3, <2>4, <2>5 DEF IInv, TimerInv, Rightful
  <2> QED
    BY <2>4, <2>6, <2>7 DEF IInv, TypeOK, TableInv, OnlyStoppedServicesAreForced
<1>5. CASE RegisterDeployment(t)
  <2>1. t.service \in Deployable
    BY <1>1, <1>5 DEF RegisterDeployment, Rightful
  <2>2. /\ timers' \subseteq timers /\ deployed' \subseteq deployed \cup {t.service}
        /\ UNCHANGED <<child, proc, status, asked, forced, boot, quit, keys, crashes>>
    BY <1>5 DEF RegisterDeployment, table, signals
  <2>3. TypeOK'
    BY <2>1, <2>2 DEF IInv, TypeOK
  <2>4. TableInv'
    BY <2>2 DEF IInv, TableInv
  <2>5. TimerInv'
    BY <2>2 DEF IInv, TimerInv, Rightful
  <2>6. OnlyStoppedServicesAreForced'
    BY <2>2 DEF IInv, OnlyStoppedServicesAreForced
  <2> QED
    BY <2>3, <2>4, <2>5, <2>6 DEF IInv
<1> QED
  BY <1>2, <1>3, <1>4, <1>5

LEMMA BootIInv ==
  ASSUME IInv, BootFirst \/ BootRest
  PROVE  IInv'
<1>1. keys \in 0..MaxKeys
  BY DEF IInv, TypeOK
<1>2. CASE BootFirst
  <2> DEFINE await == SetTimer("boot", First, BootDelay)
  <2>1. await \in Timers /\ await.kind = "boot"
    BY <1>1, Delays, ServicesAssumption DEF SetTimer, Timers
  <2>2. /\ Start({First}) /\ timers' = timers \cup {await} /\ boot' = "await"
        /\ UNCHANGED <<signals, quit, keys, crashes, deployed>>
    BY <1>2 DEF BootFirst
  <2> HIDE DEF await
  <2>3. {First} \in SUBSET Services /\ {await} \in SUBSET Timers /\ timers' \subseteq timers \cup {await}
    BY <2>1, <2>2, ServicesAssumption
  <2>4. \A t \in {await} : t.kind # "kill" /\ (t.kind \in {"listen", "deploy"} => t.service \in Deployable)
    BY <2>1
  <2> QED
    BY <1>1, <2>2, <2>3, <2>4, StartIInv
<1>3. CASE BootRest
  <2> DEFINE S == Services \ {First}
  <2>1. S \in SUBSET Services
    OBVIOUS
  <2>2. /\ Start(S) /\ timers' \subseteq timers \cup Register(S) /\ boot' = "done"
        /\ UNCHANGED <<signals, quit, keys, crashes, deployed>>
    BY <1>3 DEF BootRest
  <2> HIDE DEF S
  <2>3. /\ Register(S) \subseteq Timers
        /\ \A u \in Register(S) : u.kind = "listen" /\ u.service \in Deployable
    BY <2>1, RegisterTimers
  <2> QED
    BY <1>1, <2>1, <2>2, <2>3, StartIInv
<1> QED
  BY <1>2, <1>3

LEMMA KeyIInv ==
  ASSUME IInv, Key
  PROVE  IInv'
<1>1. /\ keys \in 0..MaxKeys /\ keys' \in 0..MaxKeys /\ quit = "no"
      /\ boot' = boot /\ boot \in {"first", "await", "done"}
  <2>1. Press
    BY DEF Key, KeyQuit, KeyStart, KeyKill, KeyRestart
  <2>2. keys \in 0..MaxKeys /\ boot \in {"first", "await", "done"}
    BY DEF IInv, TypeOK
  <2> QED
    BY <2>1, <2>2, Delays DEF Press
<1>2. CASE KeyQuit
  <2> DEFINE exit == SetTimer("quit", First, QuitDelay)
  <2>1. exit \in Timers /\ exit.kind = "quit"
    BY <1>1, Delays, ServicesAssumption DEF SetTimer, Timers
  <2>2. /\ timers' = timers \cup {exit} /\ asked' = asked \cup Groups(Services)
        /\ quit' = "flushing" /\ UNCHANGED <<child, proc, status, forced, crashes, deployed>>
    BY <1>2 DEF KeyQuit, Press, table
  <2> HIDE DEF exit
  <2>3. \A t \in timers' \ timers : t \in Timers /\ Rightful(t)'
    BY <2>1, <2>2 DEF Rightful
  <2>4. \A p \in Groups(Services) : p \in Services \X Nat /\ p[2] \in 1..Len(child[p[1]])
    BY GroupsKnown
  <2>5. /\ status' \in [Services -> {"stopped", "running", "exited"}]
        /\ deployed' \subseteq Deployable
    BY <2>2 DEF IInv, TypeOK
  <2> QED
    BY <1>1, <2>2, <2>3, <2>4, <2>5, SignalIInv
<1>3. ASSUME NEW s \in Services, KeyStart(s) PROVE IInv'
  <2>1. /\ Start({s}) /\ timers' = timers \cup Register({s})
        /\ UNCHANGED <<signals, quit, crashes, deployed>>
    BY <1>3 DEF KeyStart, Press
  <2>2. /\ Register({s}) \subseteq Timers
        /\ \A u \in Register({s}) : u.kind = "listen" /\ u.service \in Deployable
    BY RegisterTimers
  <2> QED
    BY <1>1, <2>1, <2>2, StartIInv
<1>4. ASSUME NEW s \in Services, KeyKill(s) PROVE IInv'
  BY <1>1, <1>4, StopIInv DEF KeyKill, Press
<1>5. ASSUME NEW s \in Services, KeyRestart(s) PROVE IInv'
  <2> DEFINE again == SetTimer("restart", s, RestartDelay)
  <2>1. again \in Timers /\ again.kind = "restart"
    BY <1>1, Delays DEF SetTimer, Timers
  <2>2. Stop(s, {again}) /\ UNCHANGED <<quit, crashes, deployed>>
    BY <1>5 DEF KeyRestart, Press
  <2> HIDE DEF again
  <2> QED
    BY <1>1, <2>1, <2>2, StopIInv
<1> QED
  BY <1>2, <1>3, <1>4, <1>5 DEF Key

LEMMA NextIInv == IInv /\ [Next]_vars => IInv'
<1> SUFFICES ASSUME IInv, [Next]_vars
             PROVE  IInv'
  OBVIOUS
<1>1. CASE TimerStep
  BY <1>1, KillTimerIInv, TimerStepIInv DEF TimerStep
<1>2. CASE BootStep
  BY <1>2, BootIInv DEF BootStep
<1>3. CASE \E s \in Services : ChildStep(s)
  BY <1>3, ExitIInv DEF ChildStep
<1>4. CASE UNCHANGED vars
  BY <1>4 DEF vars, table, signals, IInv, TypeOK, TableInv, TimerInv, Rightful,
              OnlyStoppedServicesAreForced
<1> QED
  BY <1>1, <1>2, <1>3, <1>4, TickIInv, KeyIInv DEF Next

\* The invariant on which the others rest.
THEOREM TableCorrect == Spec => []IInv
  BY InitIInv, NextIInv, PTL DEF Spec

\* Every reachable state is well typed; in particular every signal went to a
\* child that was spawned, and only deployable services are ever announced.
THEOREM SupervisorTypes == Spec => []TypeOK
<1>1. IInv => TypeOK
  BY DEF IInv
<1> QED
  BY <1>1, TableCorrect, PTL

\* However starts, restarts, crashes and the boot sequence interleave, a
\* service has at most one living leader, and it is the one the table knows.
THEOREM LeadersTracked == Spec => []EveryLeaderIsTracked
<1>1. IInv => EveryLeaderIsTracked
  <2> SUFFICES ASSUME IInv, NEW s \in Services
               PROVE  {n \in DOMAIN child[s] : child[s][n].leader} = {proc[s]} \ {0}
    BY DEF EveryLeaderIsTracked
  <2>1. /\ DOMAIN child[s] = 1..Len(child[s]) /\ Len(child[s]) \in Nat
        /\ proc[s] \in 0..Len(child[s])
    BY DEF IInv, TypeOK
  <2>2. \A n \in 1..Len(child[s]) : child[s][n].leader <=> n = proc[s]
    BY DEF IInv, TableInv
  <2> QED
    BY <2>1, <2>2
<1> QED
  BY <1>1, TableCorrect, PTL

\* SIGKILL only reaches the children of a service that was told to stop, this
\* child or an earlier one, whenever the look back of a stop happens.
THEOREM OnlyStoppedForced == Spec => []OnlyStoppedServicesAreForced
<1>1. IInv => OnlyStoppedServicesAreForced
  BY DEF IInv
<1> QED
  BY <1>1, TableCorrect, PTL
=============================================================================
