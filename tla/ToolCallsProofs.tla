--------------------------- MODULE ToolCallsProofs ---------------------------
(***************************************************************************)
(* What ToolCalls guarantees for any calls, tools, attempts, size of the   *)
(* log and number of faults.                                               *)
(***************************************************************************)
EXTENDS ToolCalls, TLAPS, SequenceTheorems

\* The row of a call is shown, unless the log is full.
Shown(c) == Len(buf) = MAX \/ \E i \in DOMAIN buf : buf[i] = Row(c)

\* A closure that ran has left its row, and so has every answer of this life
\* of the gateway.
LogInv ==
  \A c \in Calls :
    /\ call[c].at \in {"log", "answered"} => call[c].status \in Answers
    /\ call[c].ran => call[c].at = "log" /\ Shown(c)
    /\ call[c].at = "answered" /\ c \notin missed => Shown(c)

\* The tool is called once the chain has let the call pass, and an attempt is
\* only made while the policy has one left.
ToolInv ==
  \A c \in Calls :
    /\ call[c].at \in {"idle", "lookup", "chain", "dispatch"} => tool[c] = NoTool
    /\ tool[c].at \in {"ready", "running"} => tool[c].tries < MaxAttempts

IInv == TypeOK /\ LogInv /\ ToolInv

LEMMA Bounds ==
  /\ MaxAttempts \in Nat \ {0} /\ RegisterAttempts \in Nat \ {0} /\ MAX \in Nat \ {0}
  /\ MaxFaults \in Nat
  BY BoundsAssumption

LEMMA InitIInv == Init => IInv
<1> SUFFICES ASSUME Init PROVE IInv
  OBVIOUS
<1>1. NoCall \in Journals /\ NoTool \in Invocations
  BY Bounds DEF NoCall, NoTool, Journals, Invocations
<1>2. AtBoot \in [next : 1..Len(Owned) + 1, tries : 0..RegisterAttempts - 1]
  <2>1. Len(Owned) \in Nat
    BY OwnedAssumption
  <2> QED
    BY <2>1, Bounds DEF AtBoot
<1>3. <<>> \in Seq(Rows) /\ Len(<<>>) <= MAX
  BY Bounds
<1>4. TypeOK
  <2>1. call \in [Calls -> Journals] /\ tool \in [Calls -> Invocations]
    BY <1>1 DEF Init
  <2>2. buf \in Seq(Rows) /\ Len(buf) <= MAX
    BY <1>3 DEF Init
  <2>3. missed \subseteq Calls /\ faults \in 0..MaxFaults
    BY Bounds DEF Init
  <2> QED
    BY <1>2, <2>1, <2>2, <2>3 DEF Init, TypeOK
<1>5. LogInv
  BY DEF Init, LogInv, NoCall
<1>6. ToolInv
  BY DEF Init, ToolInv, NoCall, NoTool
<1> QED
  BY <1>4, <1>5, <1>6 DEF IInv

-----------------------------------------------------------------------------
(* What a step of one process leaves alone.                                 *)

\* The journals: a call that moves on without having written its row.
LEMMA JournalIInv ==
  ASSUME IInv, NEW c \in Calls, NEW j \in Journals, call' = [call EXCEPT ![c] = j],
         ~j.ran, j.at = "log" => j.status \in Answers, j.at # "answered",
         UNCHANGED <<buf, missed>>
  PROVE  LogInv' /\ call' \in [Calls -> Journals]
<1>1. call \in [Calls -> Journals]
  BY DEF IInv, TypeOK
<1>2. call' \in [Calls -> Journals] /\ call'[c] = j /\ \A d \in Calls \ {c} : call'[d] = call[d]
  BY <1>1
<1>3. \A d \in Calls \ {c} : Shown(d)' = Shown(d)
  BY <1>2 DEF Shown, Row
<1> QED
  BY <1>2, <1>3 DEF IInv, LogInv

\* A failed attempt is counted, and the last one pauses the invocation.
LEMMA FailedType ==
  ASSUME NEW t \in Invocations, NEW c \in Calls, t.tries < MaxAttempts
  PROVE  /\ Failed(t, c) \in Invocations /\ Failed(t, c).at # "none"
         /\ Failed(t, c).at \in {"ready", "running"} => Failed(t, c).tries < MaxAttempts
<1>1. t.tries \in 0..MaxAttempts /\ t.tries + 1 \in 0..MaxAttempts
  BY Bounds DEF Invocations
<1>2. CASE ToolOf[c] \notin Retried
  BY <1>2 DEF Failed, Invocations
<1>3. CASE ToolOf[c] \in Retried /\ t.tries + 1 = MaxAttempts
  BY <1>1, <1>3 DEF Failed, Invocations
<1>4. CASE ToolOf[c] \in Retried /\ t.tries + 1 # MaxAttempts
  <2>1. t.tries + 1 < MaxAttempts
    BY <1>1, <1>4, Bounds
  <2> QED
    BY <1>1, <1>4, <2>1 DEF Failed, Invocations
<1> QED
  BY <1>2, <1>3, <1>4

\* The tool of one call moves on.
LEMMA InvocationIInv ==
  ASSUME IInv, NEW c \in Calls, NEW t \in Invocations, tool' = [tool EXCEPT ![c] = t],
         call[c].at \notin {"idle", "lookup", "chain", "dispatch"} \/ call'[c].at = "suspended",
         t.at \in {"ready", "running"} => t.tries < MaxAttempts,
         \A d \in Calls \ {c} : call'[d] = call[d],
         call'[c] = call[c] \/ call'[c].at = "suspended"
  PROVE  ToolInv' /\ tool' \in [Calls -> Invocations]
<1>1. tool \in [Calls -> Invocations]
  BY DEF IInv, TypeOK
<1>2. tool' \in [Calls -> Invocations] /\ tool'[c] = t /\ \A d \in Calls \ {c} : tool'[d] = tool[d]
  BY <1>1
<1> QED
  BY <1>2 DEF IInv, ToolInv

\* An invocation that is under way was dispatched.
LEMMA UnderWay ==
  ASSUME IInv, NEW c \in Calls, tool[c].at # "none"
  PROVE  call[c].at \notin {"idle", "lookup", "chain", "dispatch"}
  BY DEF IInv, ToolInv, NoTool

\* The log keeps its bound and shows the newest row.
LEMMA RecordCallRows ==
  ASSUME NEW rows \in Seq(Rows), Len(rows) <= MAX, NEW row \in Rows
  PROVE  /\ RecordCall(rows, row) \in Seq(Rows) /\ Len(RecordCall(rows, row)) <= MAX
         /\ \E i \in DOMAIN RecordCall(rows, row) : RecordCall(rows, row)[i] = row
         /\ \/ Len(RecordCall(rows, row)) = MAX
            \/ \A i \in DOMAIN rows : /\ i \in DOMAIN RecordCall(rows, row)
                                      /\ RecordCall(rows, row)[i] = rows[i]
<1>1. Len(rows) \in Nat /\ DOMAIN rows = 1..Len(rows)
  OBVIOUS
<1>2. \A s \in Seq(Rows) : /\ Append(s, row) \in Seq(Rows)
                           /\ Len(s) \in Nat
                           /\ Len(Append(s, row)) = Len(s) + 1
                           /\ DOMAIN Append(s, row) = 1..Len(s) + 1
                           /\ \A i \in 1..Len(s) : Append(s, row)[i] = s[i]
                           /\ Append(s, row)[Len(s) + 1] = row
  <2> SUFFICES ASSUME NEW s \in Seq(Rows)
               PROVE  /\ Append(s, row) \in Seq(Rows)
                      /\ Len(s) \in Nat
                      /\ Len(Append(s, row)) = Len(s) + 1
                      /\ DOMAIN Append(s, row) = 1..Len(s) + 1
                      /\ \A i \in 1..Len(s) : Append(s, row)[i] = s[i]
                      /\ Append(s, row)[Len(s) + 1] = row
    OBVIOUS
  <2>1. Append(s, row) \in Seq(Rows) /\ Len(s) \in Nat /\ Len(Append(s, row)) = Len(s) + 1
    BY AppendProperties
  <2>2. DOMAIN Append(s, row) = 1..Len(s) + 1
    BY <2>1, LenProperties
  <2>3. \A i \in 1..Len(s) : Append(s, row)[i] = s[i]
    BY AppendProperties
  <2>4. Append(s, row)[Len(s) + 1] = row
    BY AppendProperties
  <2> QED
    BY <2>1, <2>2, <2>3, <2>4
<1>3. CASE Len(rows) = MAX
  <2>1. rows # <<>>
    BY <1>3, Bounds
  <2>2. Tail(rows) \in Seq(Rows) /\ Len(Tail(rows)) = MAX - 1
    BY <1>3, <2>1
  <2>3. RecordCall(rows, row) = Append(Tail(rows), row)
    BY <1>3 DEF RecordCall
  <2>4. /\ Append(Tail(rows), row) \in Seq(Rows) /\ Len(Append(Tail(rows), row)) = MAX
        /\ DOMAIN Append(Tail(rows), row) = 1..MAX
        /\ Append(Tail(rows), row)[MAX] = row
    BY <1>2, <2>2, Bounds
  <2> QED
    BY <2>3, <2>4, Bounds
<1>4. CASE Len(rows) # MAX
  <2>1. Len(rows) + 1 <= MAX
    <3> DEFINE n == Len(rows)
    <3>1. n \in Nat /\ MAX \in Nat /\ n <= MAX /\ n # MAX
      BY <1>1, <1>4, Bounds
    <3> HIDE DEF n
    <3>2. n + 1 <= MAX
      BY <3>1
    <3> QED
      BY <3>2 DEF n
  <2>2. RecordCall(rows, row) = Append(rows, row)
    BY <1>4 DEF RecordCall
  <2> QED
    BY <1>1, <1>2, <2>1, <2>2
<1> QED
  BY <1>3, <1>4

-----------------------------------------------------------------------------
(* The steps.                                                               *)

\* A journal that is only moved on before its row is written.
LEMMA GotoIInv ==
  ASSUME IInv, NEW c \in Calls, NEW at \in {"lookup", "chain", "dispatch", "suspended"},
         Goto(c, at), call[c].at # "log", UNCHANGED <<buf, missed>>
  PROVE  LogInv' /\ call' \in [Calls -> Journals] /\ call'[c].at = at
         /\ \A d \in Calls \ {c} : call'[d] = call[d]
<1> DEFINE j == [call[c] EXCEPT !.at = at]
<1>1. j \in Journals /\ j.at = at /\ j.ran = call[c].ran
  BY DEF IInv, TypeOK, Journals
<1>2. ~call[c].ran
  BY DEF IInv, LogInv
<1>3. call' = [call EXCEPT ![c] = j]
  BY DEF Goto
<1>4. call \in [Calls -> Journals]
  BY DEF IInv, TypeOK
<1> HIDE DEF j
<1>5. LogInv' /\ call' \in [Calls -> Journals]
  BY <1>1, <1>2, <1>3, JournalIInv
<1> QED
  BY <1>1, <1>3, <1>4, <1>5

LEMMA ReturnsIInv ==
  ASSUME IInv, NEW c \in Calls, NEW status \in Answers, Returns(c, status),
         call[c].at # "log", UNCHANGED <<buf, missed>>
  PROVE  LogInv' /\ call' \in [Calls -> Journals] /\ call'[c].at = "log"
         /\ \A d \in Calls \ {c} : call'[d] = call[d]
<1> DEFINE j == [call[c] EXCEPT !.at = "log", !.status = status]
<1>1. j \in Journals /\ j.at = "log" /\ j.ran = call[c].ran /\ j.status = status
  BY DEF IInv, TypeOK, Journals
<1>2. ~call[c].ran
  BY DEF IInv, LogInv
<1>3. call' = [call EXCEPT ![c] = j]
  BY DEF Returns
<1>4. call \in [Calls -> Journals]
  BY DEF IInv, TypeOK
<1> HIDE DEF j
<1>5. LogInv' /\ call' \in [Calls -> Journals]
  BY <1>1, <1>2, <1>3, JournalIInv
<1> QED
  BY <1>1, <1>3, <1>4, <1>5

\* The tool's side when no invocation changes.
LEMMA SameTools ==
  ASSUME IInv, NEW c \in Calls, UNCHANGED tool, \A d \in Calls \ {c} : call'[d] = call[d],
         call'[c].at \in {"idle", "lookup", "chain", "dispatch"} =>
           call[c].at \in {"idle", "lookup", "chain", "dispatch"}
  PROVE  ToolInv'
  BY DEF IInv, ToolInv

LEMMA CallIInv ==
  ASSUME IInv, NEW c \in Calls,
         Call(c) \/ RegistryLookup(c) \/ MiddlewareChain(c) \/ ToolAnswered(c)
  PROVE  IInv'
<1>1. UNCHANGED <<up, buggy, deployed, known, boot, tool, buf, missed, faults>>
  BY DEF Call, RegistryLookup, MiddlewareChain, ToolAnswered, services
<1>2. call[c].at # "log" /\ "ok" \in Answers /\ "unknown" \in Answers
      /\ "blocked" \in Answers /\ "needs_approval" \in Answers
  BY DEF Call, RegistryLookup, MiddlewareChain, ToolAnswered, Step, Answers
<1>3. \/ Goto(c, "lookup") /\ call[c].at = "idle"
      \/ Goto(c, "chain") /\ call[c].at = "lookup"
      \/ Goto(c, "dispatch") /\ call[c].at = "chain"
      \/ \E status \in Answers : Returns(c, status)
  BY <1>2 DEF Call, RegistryLookup, MiddlewareChain, ToolAnswered, Step, Goto
<1>4. /\ LogInv' /\ call' \in [Calls -> Journals]
      /\ \A d \in Calls \ {c} : call'[d] = call[d]
      /\ call'[c].at \in {"idle", "lookup", "chain", "dispatch"} =>
           call[c].at \in {"idle", "lookup", "chain", "dispatch"}
  <2>1. CASE \E status \in Answers : Returns(c, status)
    BY <1>1, <1>2, <2>1, ReturnsIInv
  <2>2. CASE \/ Goto(c, "lookup") /\ call[c].at = "idle"
             \/ Goto(c, "chain") /\ call[c].at = "lookup"
             \/ Goto(c, "dispatch") /\ call[c].at = "chain"
    BY <1>1, <1>2, <2>2, GotoIInv
  <2> QED
    BY <1>3, <2>1, <2>2
<1>5. ToolInv'
  BY <1>1, <1>4, SameTools
<1>6. TypeOK'
  BY <1>1, <1>4 DEF IInv, TypeOK
<1> QED
  BY <1>4, <1>5, <1>6 DEF IInv

LEMMA DispatchIInv ==
  ASSUME IInv, NEW c \in Calls, Dispatch(c)
  PROVE  IInv'
<1> DEFINE t == [tool[c] EXCEPT !.at = "ready"]
<1>1. /\ UNCHANGED <<up, buggy, deployed, known, boot, buf, missed, faults>>
      /\ call[c].at = "dispatch" /\ Goto(c, "suspended")
      /\ tool' = [tool EXCEPT ![c] = t]
  BY DEF Dispatch, Step, services
<1>2. /\ LogInv' /\ call' \in [Calls -> Journals] /\ call'[c].at = "suspended"
      /\ \A d \in Calls \ {c} : call'[d] = call[d]
  BY <1>1, GotoIInv
<1>3. t \in Invocations /\ t.at = "ready" /\ t.tries < MaxAttempts
  BY <1>1, Bounds DEF IInv, ToolInv, NoTool, Invocations
<1> HIDE DEF t
<1>4. ToolInv' /\ tool' \in [Calls -> Invocations]
  BY <1>1, <1>2, <1>3, InvocationIInv
<1>5. TypeOK'
  BY <1>1, <1>2, <1>4 DEF IInv, TypeOK
<1> QED
  BY <1>2, <1>4, <1>5 DEF IInv

\* The closure runs: its row is the newest, whatever made room for it.
LEMMA LogCallIInv ==
  ASSUME IInv, NEW c \in Calls, LogCall(c)
  PROVE  IInv'
<1> DEFINE j == [call[c] EXCEPT !.ran = TRUE]
<1>1. /\ UNCHANGED <<up, buggy, deployed, known, boot, tool, missed, faults>>
      /\ call[c].at = "log" /\ call' = [call EXCEPT ![c] = j]
      /\ buf' = RecordCall(buf, Row(c))
  BY DEF LogCall, Step, services, Row
<1>2. call \in [Calls -> Journals] /\ buf \in Seq(Rows) /\ Len(buf) <= MAX
  BY DEF IInv, TypeOK
<1>3. j \in Journals /\ j.at = "log" /\ j.status = call[c].status
  BY <1>1, <1>2 DEF Journals
<1>4. Row(c) \in Rows
  BY <1>1 DEF IInv, LogInv, Row, Rows
<1> HIDE DEF j
<1>5. /\ call' \in [Calls -> Journals] /\ call'[c] = j
      /\ \A d \in Calls \ {c} : call'[d] = call[d]
  BY <1>1, <1>2, <1>3
<1>6. /\ buf' \in Seq(Rows) /\ Len(buf') <= MAX
      /\ \E i \in DOMAIN buf' : buf'[i] = Row(c)
      /\ Len(buf') = MAX \/ \A i \in DOMAIN buf : i \in DOMAIN buf' /\ buf'[i] = buf[i]
  BY <1>1, <1>2, <1>4, RecordCallRows
<1>7. \A d \in Calls : Row(d)' = Row(d)
  BY <1>3, <1>5 DEF Row
<1>8. Shown(c)' /\ \A d \in Calls : Shown(d) => Shown(d)'
  <2>1. Len(buf) = MAX => Len(buf') = MAX
    <3> SUFFICES ASSUME Len(buf) = MAX PROVE Len(buf') = MAX
      OBVIOUS
    <3>1. CASE \A i \in DOMAIN buf : i \in DOMAIN buf' /\ buf'[i] = buf[i]
      <4>1. MAX \in DOMAIN buf
        BY <1>2, Bounds
      <4>2. MAX \in 1..Len(buf') /\ Len(buf') \in Nat
        BY <1>6, <3>1, <4>1
      <4> QED
        BY <1>6, <4>2, Bounds
    <3> QED
      BY <1>6, <3>1
  <2> QED
    BY <1>6, <1>7, <2>1 DEF Shown
<1>9. LogInv'
  BY <1>1, <1>3, <1>5, <1>8 DEF IInv, LogInv
<1>10. ToolInv'
  BY <1>1, <1>3, <1>5, SameTools
<1>11. TypeOK'
  BY <1>1, <1>5, <1>6 DEF IInv, TypeOK
<1> QED
  BY <1>9, <1>10, <1>11 DEF IInv

LEMMA LogJournaledIInv ==
  ASSUME IInv, NEW c \in Calls, LogJournaled(c) \/ OutcomeLost(c)
  PROVE  IInv'
<1>1. /\ UNCHANGED <<up, buggy, deployed, known, boot, tool, buf, missed>>
      /\ call[c].ran /\ faults' \in 0..MaxFaults
  BY Bounds DEF LogJournaled, OutcomeLost, Fault, services, IInv, TypeOK
<1>2. call \in [Calls -> Journals]
  BY DEF IInv, TypeOK
<1>3. call[c].at = "log" /\ Shown(c) /\ call[c].status \in Answers
  BY <1>1 DEF IInv, LogInv
<1>4. /\ call' \in [Calls -> Journals] /\ \A d \in Calls \ {c} : call'[d] = call[d]
      /\ call'[c].status = call[c].status /\ ~call'[c].ran
      /\ call'[c].at \in {"log", "answered"}
  <2>1. CASE LogJournaled(c)
    <3> DEFINE j == [call[c] EXCEPT !.at = "answered", !.ran = FALSE]
    <3>1. j \in Journals /\ j.status = call[c].status /\ ~j.ran /\ j.at = "answered"
      BY <1>2 DEF Journals
    <3>2. call' = [call EXCEPT ![c] = j]
      BY <2>1 DEF LogJournaled
    <3> HIDE DEF j
    <3> QED
      BY <1>2, <3>1, <3>2
  <2>2. CASE OutcomeLost(c)
    <3> DEFINE j == [call[c] EXCEPT !.ran = FALSE]
    <3>1. j \in Journals /\ j.status = call[c].status /\ ~j.ran /\ j.at = "log"
      BY <1>2, <1>3 DEF Journals
    <3>2. call' = [call EXCEPT ![c] = j]
      BY <2>2 DEF OutcomeLost
    <3> HIDE DEF j
    <3> QED
      BY <1>2, <3>1, <3>2
  <2> QED
    BY <2>1, <2>2
<1>5. \A d \in Calls : Shown(d)' = Shown(d)
  BY <1>1, <1>4 DEF Shown, Row
<1>6. LogInv'
  BY <1>1, <1>3, <1>4, <1>5 DEF IInv, LogInv
<1>7. ToolInv'
  BY <1>1, <1>4, SameTools
<1>8. TypeOK'
  BY <1>1, <1>4 DEF IInv, TypeOK
<1> QED
  BY <1>6, <1>7, <1>8 DEF IInv

LEMMA InvocationSteps ==
  ASSUME IInv, NEW c \in Calls, ToolStep(c) \/ Unreachable(c)
  PROVE  IInv'
<1>1. UNCHANGED <<up, buggy, deployed, known, boot, call, buf, missed, faults>>
  BY DEF ToolStep, Execute, Executed, Resume, Unreachable, services
<1>2. tool[c].at # "none" /\ tool[c] \in Invocations
  BY DEF ToolStep, Execute, Executed, Resume, Unreachable, IInv, TypeOK
<1>3. \E t \in Invocations : /\ tool' = [tool EXCEPT ![c] = t]
                             /\ t.at \in {"ready", "running"} => t.tries < MaxAttempts
  <2>1. CASE Execute(c) \/ Unreachable(c)
    <3>1. tool[c].at = "ready" /\ tool[c].tries < MaxAttempts
      BY <2>1 DEF Execute, Unreachable, IInv, ToolInv
    <3>2. \/ tool' = [tool EXCEPT ![c] = Failed(tool[c], c)]
          \/ tool' = [tool EXCEPT ![c] = [tool[c] EXCEPT !.at = "running"]]
      BY <2>1 DEF Execute, Unreachable
    <3>3. /\ [tool[c] EXCEPT !.at = "running"] \in Invocations
          /\ [tool[c] EXCEPT !.at = "running"].tries = tool[c].tries
      BY <1>2 DEF Invocations
    <3> QED
      BY <1>2, <3>1, <3>2, <3>3, FailedType
  <2>2. CASE Executed(c)
    <3>1. /\ [tool[c] EXCEPT !.at = "done"] \in Invocations
          /\ [tool[c] EXCEPT !.at = "done"].at = "done"
      BY <1>2 DEF Invocations
    <3> QED
      BY <2>2, <3>1 DEF Executed
  <2>3. CASE Resume(c)
    <3>1. [at |-> "ready", tries |-> 0] \in Invocations /\ 0 < MaxAttempts
      BY Bounds DEF Invocations
    <3>2. tool' = [tool EXCEPT ![c] = [at |-> "ready", tries |-> 0]]
      BY <2>3 DEF Resume
    <3> QED
      BY <3>1, <3>2
  <2> QED
    BY <2>1, <2>2, <2>3 DEF ToolStep
<1>4. call[c].at \notin {"idle", "lookup", "chain", "dispatch"}
  BY <1>2, UnderWay
<1>5. ToolInv' /\ tool' \in [Calls -> Invocations]
  BY <1>1, <1>3, <1>4, InvocationIInv
<1>6. LogInv' /\ TypeOK'
  BY <1>1, <1>5 DEF IInv, LogInv, TypeOK, Shown, Row
<1> QED
  BY <1>5, <1>6 DEF IInv

\* The memory of the gateway is gone, and with it the rows and the claim that
\* the answered calls are shown.
LEMMA GatewayDiesIInv ==
  ASSUME IInv, GatewayDies
  PROVE  IInv'
<1>1. /\ UNCHANGED <<buggy, deployed, known, boot, tool>>
      /\ up' \subseteq {"gateway", "tools"} /\ faults' \in 0..MaxFaults
      /\ buf' = <<>> /\ missed' = {c \in Calls : call[c].at = "answered"}
      /\ call' = [c \in Calls |-> [call[c] EXCEPT !.ran = FALSE]]
  BY Bounds DEF GatewayDies, Fault, IInv, TypeOK
<1>2. \A c \in Calls : /\ call'[c] \in Journals /\ ~call'[c].ran
                       /\ call'[c].at = call[c].at /\ call'[c].status = call[c].status
  BY <1>1 DEF IInv, TypeOK, Journals
<1>3. call' \in [Calls -> Journals]
  BY <1>1, <1>2
<1>4. buf' \in Seq(Rows) /\ Len(buf') <= MAX
  BY <1>1, Bounds
<1>5. LogInv'
  BY <1>1, <1>2 DEF IInv, LogInv
<1>6. ToolInv'
  BY <1>1, <1>2 DEF IInv, ToolInv
<1>7. TypeOK'
  BY <1>1, <1>3, <1>4 DEF IInv, TypeOK
<1> QED
  BY <1>5, <1>6, <1>7 DEF IInv

LEMMA ToolsStopIInv ==
  ASSUME IInv, ToolsDie \/ ToolsFixed
  PROVE  IInv'
<1>1. /\ UNCHANGED <<deployed, known, boot, call, buf, missed>>
      /\ up' \subseteq {"gateway", "tools"} /\ faults' \in 0..MaxFaults /\ buggy' \in BOOLEAN
      /\ tool' = [c \in Calls |-> IF tool[c].at = "running" THEN Failed(tool[c], c) ELSE tool[c]]
  <2>1. /\ ToolsStop /\ up \subseteq {"gateway", "tools"}
        /\ faults \in 0..MaxFaults /\ buggy \in BOOLEAN
    BY DEF ToolsDie, ToolsFixed, IInv, TypeOK
  <2>2. faults' = faults \/ (faults < MaxFaults /\ faults' = faults + 1)
    BY DEF ToolsDie, ToolsFixed, Fault
  <2>3. faults' \in 0..MaxFaults
    BY <2>1, <2>2, Bounds
  <2>4. buggy' \in BOOLEAN
    BY <2>1 DEF ToolsDie, ToolsFixed
  <2> QED
    BY <2>1, <2>3, <2>4 DEF ToolsStop
<1>2. \A c \in Calls :
        /\ tool'[c] \in Invocations
        /\ tool[c] = NoTool => tool'[c] = NoTool
        /\ tool'[c].at \in {"ready", "running"} => tool'[c].tries < MaxAttempts
  <2> SUFFICES ASSUME NEW c \in Calls
               PROVE  /\ tool'[c] \in Invocations
                      /\ tool[c] = NoTool => tool'[c] = NoTool
                      /\ tool'[c].at \in {"ready", "running"} => tool'[c].tries < MaxAttempts
    OBVIOUS
  <2>1. tool[c] \in Invocations /\ (tool[c].at \in {"ready", "running"} => tool[c].tries < MaxAttempts)
    BY DEF IInv, TypeOK, ToolInv
  <2>2. CASE tool[c].at = "running"
    BY <1>1, <2>1, <2>2, FailedType DEF NoTool
  <2>3. CASE tool[c].at # "running"
    BY <1>1, <2>1, <2>3
  <2> QED
    BY <2>2, <2>3
<1>3. tool' \in [Calls -> Invocations]
  BY <1>1, <1>2
<1>4. ToolInv'
  BY <1>1, <1>2 DEF IInv, ToolInv
<1>5. LogInv' /\ TypeOK'
  BY <1>1, <1>3 DEF IInv, LogInv, TypeOK, Shown, Row
<1> QED
  BY <1>4, <1>5 DEF IInv

LEMMA ServicesIInv ==
  ASSUME IInv, BootStep \/ RegisterFails \/ GatewayStarts \/ ToolsStart
  PROVE  IInv'
<1>1. UNCHANGED <<buggy, call, tool, buf, missed, faults>>
  BY DEF BootStep, Deploy, Register, RegisterFails, GatewayStarts, ToolsStart
<1>2. up' \subseteq {"gateway", "tools"} /\ deployed' \in BOOLEAN
  BY DEF BootStep, Deploy, Register, RegisterFails, GatewayStarts, ToolsStart, IInv, TypeOK
<1>3. known' \subseteq ToSet(Owned)
  <2>1. Registering => Owned[boot.next] \in ToSet(Owned)
    BY DEF Registering, ToSet
  <2> QED
    BY <2>1 DEF BootStep, Deploy, Register, RegisterFails, GatewayStarts, ToolsStart, IInv, TypeOK
<1>4. boot' \in [next : 1..Len(Owned) + 1, tries : 0..RegisterAttempts - 1]
  <2> DEFINE Boots == [next : 1..Len(Owned) + 1, tries : 0..RegisterAttempts - 1]
  <2>1. Len(Owned) \in Nat /\ DOMAIN Owned = 1..Len(Owned)
    BY OwnedAssumption
  <2>2. boot \in Boots
    BY DEF IInv, TypeOK
  <2>3. AtBoot \in Boots
    BY <2>1, Bounds DEF AtBoot
  <2>4. Registering => [next |-> boot.next + 1, tries |-> 0] \in Boots
    BY <2>1, <2>2, Bounds DEF Registering
  <2>5. boot.tries + 1 # RegisterAttempts => [boot EXCEPT !.tries = @ + 1] \in Boots
    <3> SUFFICES ASSUME boot.tries + 1 # RegisterAttempts
                 PROVE  [boot EXCEPT !.tries = @ + 1] \in Boots
      OBVIOUS
    <3>1. boot.tries \in 0..RegisterAttempts - 1
      BY <2>2
    <3>2. boot.tries + 1 \in 0..RegisterAttempts - 1
      BY <3>1, Bounds
    <3> QED
      BY <2>2, <3>2
  <2> HIDE DEF Boots
  <2>6. boot' \in Boots
    BY <2>2, <2>3, <2>4, <2>5
       DEF BootStep, Deploy, Register, RegisterFails, GatewayStarts, ToolsStart
  <2> QED
    BY <2>6 DEF Boots
<1>5. TypeOK'
  BY <1>1, <1>2, <1>3, <1>4 DEF IInv, TypeOK
<1> QED
  BY <1>1, <1>5 DEF IInv, LogInv, ToolInv, Shown, Row

LEMMA NextIInv == IInv /\ [Next]_vars => IInv'
<1> SUFFICES ASSUME IInv, [Next]_vars
             PROVE  IInv'
  OBVIOUS
<1>1. ASSUME NEW c \in Calls, Call(c) \/ CallStep(c) PROVE IInv'
  BY <1>1, CallIInv, DispatchIInv, LogCallIInv, LogJournaledIInv DEF CallStep
<1>2. ASSUME NEW c \in Calls, ToolStep(c) \/ Unreachable(c) PROVE IInv'
  BY <1>2, InvocationSteps
<1>3. ASSUME NEW c \in Calls, OutcomeLost(c) PROVE IInv'
  BY <1>3, LogJournaledIInv
<1>4. CASE BootStep \/ RegisterFails \/ Restart
  BY <1>4, ServicesIInv, ToolsStopIInv DEF Restart
<1>5. CASE UNCHANGED vars
  BY <1>5 DEF vars, IInv, TypeOK, LogInv, ToolInv, Shown, Row
<1> QED
  BY <1>1, <1>2, <1>3, <1>4, <1>5, GatewayDiesIInv, ToolsStopIInv DEF Next

\* The invariant on which the others rest.
THEOREM CallsCorrect == Spec => []IInv
  BY InitIInv, NextIInv, PTL DEF Spec

\* Every reachable state is well typed; in particular no attempt is made past
\* maxAttempts and the log keeps its bound.
THEOREM ToolCallsTypes == Spec => []TypeOK
<1>1. IInv => TypeOK
  BY DEF IInv
<1> QED
  BY <1>1, CallsCorrect, PTL

\* Whatever path a call took and however often its closure ran, once it is
\* answered its row is shown with that status, unless the log is full or the
\* gateway died since.
THEOREM LogComplete == Spec => []AuditLogComplete
<1>1. IInv => AuditLogComplete
  BY DEF IInv, LogInv, Shown, AuditLogComplete, ToSet
<1> QED
  BY <1>1, CallsCorrect, PTL
=============================================================================
