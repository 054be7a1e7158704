------------------------ MODULE ApprovalServiceProofs ------------------------
(***************************************************************************)
(* What ApprovalService guarantees for any number of approvals, groups and *)
(* queued calls.                                                           *)
(***************************************************************************)
EXTENDS ApprovalService, TLAPS, SequenceTheorems, FiniteSetTheorems

\* A list trimmed by Newest keeps its type and has at most MaxDecided entries
\* (decided-index.ts:22).
LEMMA NewestType ==
  ASSUME NEW S, NEW list \in Seq(S)
  PROVE  Newest(list) \in Seq(S) /\ Len(Newest(list)) <= MaxDecided
<1> DEFINE from == IF Len(list) > MaxDecided THEN Len(list) - MaxDecided + 1 ELSE 1
<1>1. Len(list) \in Nat /\ MaxDecided \in Nat \ {0}
  BY MaxDecidedAssumption
<1>2. from \in 1..Len(list) + 1
  BY <1>1
<1>3. \A i \in from..Len(list) : list[i] \in S
  BY <1>1, <1>2
<1>4. /\ SubSeq(list, from, Len(list)) \in Seq(S)
      /\ Len(SubSeq(list, from, Len(list))) = IF from <= Len(list) THEN Len(list) - from + 1 ELSE 0
  BY <1>1, <1>2, <1>3, SubSeqProperties
<1> QED
  BY <1>1, <1>2, <1>4 DEF Newest

\* Ranks of decisions stay within the number of approvals.
LEMMA NowType ==
  ASSUME TypeOK, NEW a \in Approvals, decidedAt[a] = 0
  PROVE  Now \in 1..Cardinality(Approvals)
<1> DEFINE D == {b \in Approvals : decidedAt[b] # 0}
<1>1. IsFiniteSet(Approvals) /\ D \subseteq Approvals \ {a}
  BY ApprovalsAssumption
<1>2. IsFiniteSet(Approvals \ {a}) /\ Cardinality(Approvals \ {a}) = Cardinality(Approvals) - 1
  BY <1>1, FS_RemoveElement
<1>3. Cardinality(D) <= Cardinality(Approvals \ {a}) /\ IsFiniteSet(D)
  BY <1>1, <1>2, FS_Subset
<1>4. Cardinality(D) \in Nat /\ Cardinality(Approvals) \in Nat
  BY <1>1, <1>3, FS_CardinalityType
<1> QED
  BY <1>2, <1>3, <1>4 DEF Now

LEMMA InitTypeOK == Init => TypeOK
<1>1. Cardinality(Approvals) \in Nat
  BY ApprovalsAssumption, FS_CardinalityType
<1> QED
  BY <1>1, MaxDecidedAssumption DEF Init, TypeOK, Statuses

LEMMA EnqueueTypeOK ==
  ASSUME TypeOK, NEW a \in Approvals, NEW call \in Calls, Enqueue(a, call)
  PROVE  TypeOK'
<1>1. inbox' \in [Approvals -> Seq(Calls)]
  BY DEF Enqueue, TypeOK
<1> QED
  BY <1>1 DEF Enqueue, object, indexes, TypeOK

\* The call a handler is working on.
LEMMA HeadCall ==
  ASSUME TypeOK, NEW a \in Approvals, inbox[a] # <<>>
  PROVE  /\ Head(inbox[a]) \in Calls /\ Tail(inbox[a]) \in Seq(Calls)
         /\ Outcome[Head(inbox[a])] \in Decided
<1>1. inbox[a] \in Seq(Calls)
  BY DEF TypeOK
<1>2. Head(inbox[a]) \in Calls /\ Tail(inbox[a]) \in Seq(Calls)
  BY <1>1
<1> QED
  BY <1>2 DEF Outcome, Decided, Calls, RespondCalls

LEMMA DismissTypeOK ==
  ASSUME TypeOK, NEW a \in Approvals, inbox[a] # <<>>, Dismiss(a)
  PROVE  TypeOK'
<1>1. inbox' \in [Approvals -> Seq(Calls)]
  BY HeadCall DEF Dismiss, TypeOK
<1> QED
  BY <1>1 DEF Dismiss, object, indexes, TypeOK

LEMMA SetDecisionTypeOK ==
  ASSUME TypeOK, HandlerInv, NEW a \in Approvals, Running(a, Calls), status[a] = "pending",
         SetDecision(a)
  PROVE  TypeOK'
<1>1. Now \in 0..Cardinality(Approvals)
  <2>1. decidedAt[a] = 0
    BY DEF HandlerInv, Decided
  <2>2. Cardinality(Approvals) \in Nat
    BY ApprovalsAssumption, FS_CardinalityType
  <2> QED
    BY <2>1, <2>2, NowType
<1>2. Outcome[Head(inbox[a])] \in Statuses
  BY HeadCall DEF Running, Statuses
<1>3. /\ status' \in [Approvals -> Statuses]
      /\ decidedAt' \in [Approvals -> 0..Cardinality(Approvals)]
  BY <1>1, <1>2 DEF SetDecision, TypeOK
<1> QED
  BY <1>3 DEF SetDecision, indexes, TypeOK

LEMMA DecidedAddTypeOK ==
  ASSUME TypeOK, NEW a \in Approvals, DecidedAdd(a)
  PROVE  TypeOK'
<1> DEFINE g == approverGroup[a]
           S == [approvalId : Approvals, outcome : Decided]
           list == Append(entries[g], Head(toDecided[a]))
<1>1. g \in Groups /\ entries[g] \in Seq(S) /\ toDecided[a] \in Seq(S) /\ toDecided[a] # <<>>
  BY DEF TypeOK, DecidedAdd
<1>2. list \in Seq(S) /\ Tail(toDecided[a]) \in Seq(S)
  <2> HIDE DEF S, g
  <2>1. Head(toDecided[a]) \in S /\ Tail(toDecided[a]) \in Seq(S)
    BY <1>1
  <2> QED
    BY <1>1, <2>1
<1>3. Newest(list) \in Seq(S) /\ Len(Newest(list)) <= MaxDecided
  BY <1>2, NewestType
<1>4. entries' = [entries EXCEPT ![g] = Newest(list)]
  BY DEF DecidedAdd
<1>5. /\ entries' \in [Groups -> Seq(S)]
      /\ \A h \in Groups : Len(entries'[h]) <= MaxDecided
  <2> HIDE DEF list, S
  <2>1. entries \in [Groups -> Seq(S)] /\ \A h \in Groups : Len(entries[h]) <= MaxDecided
    BY DEF TypeOK, S
  <2> QED
    BY <1>1, <1>3, <1>4, <2>1
<1>6. toDecided' \in [Approvals -> Seq(S)]
  BY <1>2 DEF DecidedAdd, TypeOK
<1>7. arrived' \in [Groups -> Seq(Approvals)]
  <2>1. arrived \in [Groups -> Seq(Approvals)] /\ arrived' = [arrived EXCEPT ![g] = Append(@, a)]
    BY DEF DecidedAdd, TypeOK
  <2> QED
    BY <1>1, <2>1
<1> QED
  BY <1>5, <1>6, <1>7 DEF DecidedAdd, object, TypeOK

LEMMA NextTypeOK == TypeOK /\ HandlerInv /\ [Next]_vars => TypeOK'
<1> SUFFICES ASSUME TypeOK, HandlerInv, [Next]_vars
             PROVE  TypeOK'
  OBVIOUS
<1>1. ASSUME NEW a \in Approvals, RequestApproval(a) PROVE TypeOK'
  BY <1>1 DEF RequestApproval, Statuses, indexes, TypeOK
<1>2. ASSUME NEW a \in Approvals, Decide(a) PROVE TypeOK'
  BY <1>2, EnqueueTypeOK DEF Decide, Calls
<1>3. ASSUME NEW a \in Approvals, CallCancel(a) PROVE TypeOK'
  BY <1>3, EnqueueTypeOK DEF CallCancel, Calls
<1>4. ASSUME NEW a \in Approvals, HandlerStep(a) PROVE TypeOK'
  <2>1. CASE AnnouncePending(a)
    <3>1. toPending' \in [Approvals -> Seq({"add", "remove"})]
      BY <2>1 DEF AnnouncePending, TypeOK
    <3> QED
      BY <2>1, <3>1 DEF AnnouncePending, TypeOK
  <2>2. CASE RespondRefused(a) \/ CancelNoop(a)
    BY <2>2, DismissTypeOK DEF RespondRefused, CancelNoop, Running
  <2>3. CASE RespondDecide(a) \/ CancelDecide(a)
    BY <2>3, SetDecisionTypeOK DEF RespondDecide, CancelDecide, Running, Calls
  <2>4. CASE ResolveAwakeable(a) \/ RejectAwakeable(a)
    <3>1. inbox[a] # <<>>
      BY <2>4 DEF HandlerInv, ResolveAwakeable, RejectAwakeable
    <3>2. awakeable' \in [Approvals -> {"open"} \cup Decided]
      BY <2>4, <3>1, HeadCall
         DEF ResolveAwakeable, RejectAwakeable, Complete, Decided, TypeOK
    <3> QED
      BY <2>4, <3>2 DEF ResolveAwakeable, RejectAwakeable, indexes, TypeOK
  <2>5. CASE AnnounceDecided(a)
    <3>1. toPending' \in [Approvals -> Seq({"add", "remove"})]
      BY <2>5 DEF AnnounceDecided, TypeOK
    <3> QED
      BY <2>5, <3>1 DEF AnnounceDecided, TypeOK
  <2>6. CASE IndexDecision(a)
    <3>1. inbox[a] # <<>>
      BY <2>6 DEF IndexDecision, HandlerInv
    <3>2. inbox' \in [Approvals -> Seq(Calls)]
      BY <2>6, <3>1, HeadCall DEF IndexDecision, TypeOK
    <3>3. acked' \in [Approvals -> Seq(RespondCalls)]
      BY <2>6 DEF IndexDecision, TypeOK
    <3>4. toDecided' \in [Approvals -> Seq([approvalId : Approvals, outcome : Decided])]
      <4> DEFINE Rows == [approvalId : Approvals, outcome : Decided]
                 row == [approvalId |-> a, outcome |-> Outcome[Head(inbox[a])]]
      <4>1. row \in Rows
        BY <3>1, HeadCall
      <4>2. toDecided \in [Approvals -> Seq(Rows)]
        BY DEF TypeOK
      <4>3. toDecided' = [toDecided EXCEPT ![a] = Append(toDecided[a], row)]
        BY <2>6 DEF IndexDecision
      <4> HIDE DEF Rows, row
      <4>4. Append(toDecided[a], row) \in Seq(Rows)
        BY <4>1, <4>2
      <4>5. toDecided' \in [Approvals -> Seq(Rows)]
        BY <4>2, <4>3, <4>4
      <4> QED
        BY <4>5 DEF Rows
    <3> QED
      BY <2>6, <3>2, <3>3, <3>4 DEF IndexDecision, TypeOK
  <2> QED
    BY <1>4, <2>1, <2>2, <2>3, <2>4, <2>5, <2>6 DEF HandlerStep
<1>5. ASSUME NEW a \in Approvals, IndexStep(a) PROVE TypeOK'
  <2>1. CASE PendingAdd(a)
    <3>1. pending' \in [Groups -> SUBSET Approvals]
      BY <2>1 DEF PendingAdd, TypeOK
    <3>2. toPending' \in [Approvals -> Seq({"add", "remove"})]
      BY <2>1 DEF PendingAdd, TypeOK
    <3> QED
      BY <2>1, <3>1, <3>2 DEF PendingAdd, object, TypeOK
  <2>2. CASE PendingRemove(a)
    <3>1. pending' \in [Groups -> SUBSET Approvals]
      BY <2>2 DEF PendingRemove, TypeOK
    <3>2. toPending' \in [Approvals -> Seq({"add", "remove"})]
      BY <2>2 DEF PendingRemove, TypeOK
    <3> QED
      BY <2>2, <3>1, <3>2 DEF PendingRemove, object, TypeOK
  <2> QED
    BY <1>5, <2>1, <2>2, DecidedAddTypeOK DEF IndexStep
<1>6. ASSUME NEW g \in Groups, PollGroup(g) PROVE TypeOK'
  BY <1>6 DEF PollGroup, object, indexes, TypeOK
<1>7. CASE UNCHANGED vars
  BY <1>7 DEF vars, object, indexes, TypeOK
<1> QED
  BY <1>1, <1>2, <1>3, <1>4, <1>5, <1>6, <1>7 DEF Next
-----------------------------------------------------------------------------
(* Where the handlers stand.                                                *)

LEMMA InitHandlerInv == Init => HandlerInv
  BY DEF Init, HandlerInv, Decided

\* A call that joins the queue does not change its head while a handler runs.
LEMMA EnqueueHandlerInv ==
  ASSUME TypeOK, HandlerInv, NEW a \in Approvals, NEW call \in Calls, Enqueue(a, call)
  PROVE  HandlerInv'
<1>1. \A b \in Approvals : inbox[b] # <<>> => inbox'[b] # <<>> /\ Head(inbox'[b]) = Head(inbox[b])
  <2> SUFFICES ASSUME NEW b \in Approvals, inbox[b] # <<>>
               PROVE  inbox'[b] # <<>> /\ Head(inbox'[b]) = Head(inbox[b])
    OBVIOUS
  <2>1. inbox[b] \in Seq(Calls)
    BY DEF TypeOK
  <2>2. inbox'[b] = inbox[b] \/ inbox'[b] = Append(inbox[b], call)
    BY DEF Enqueue, TypeOK
  <2> QED
    BY <2>1, <2>2
<1> QED
  BY <1>1 DEF Enqueue, object, indexes, HandlerInv

LEMMA NextHandlerInv == TypeOK /\ HandlerInv /\ [Next]_vars => HandlerInv'
<1> SUFFICES ASSUME TypeOK, HandlerInv, [Next]_vars
             PROVE  HandlerInv'
  OBVIOUS
<1>1. ASSUME NEW a \in Approvals, RequestApproval(a) PROVE HandlerInv'
  BY <1>1 DEF RequestApproval, indexes, TypeOK, HandlerInv, Decided
<1>2. ASSUME NEW a \in Approvals, Decide(a) PROVE HandlerInv'
  BY <1>2, EnqueueHandlerInv DEF Decide, Calls
<1>3. ASSUME NEW a \in Approvals, CallCancel(a) PROVE HandlerInv'
  BY <1>3, EnqueueHandlerInv DEF CallCancel, Calls
<1>4. ASSUME NEW a \in Approvals, HandlerStep(a) PROVE HandlerInv'
  <2>1. CASE AnnouncePending(a)
    BY <2>1 DEF AnnouncePending, TypeOK, HandlerInv
  <2>2. CASE RespondRefused(a) \/ CancelNoop(a)
    <3>1. /\ pc[a] = "idle"
          /\ inbox' = [inbox EXCEPT ![a] = Tail(inbox[a])]
          /\ UNCHANGED <<status, decidedAt, pc, awakeable, acked>>
      BY <2>2 DEF RespondRefused, CancelNoop, Running, Dismiss, object
    <3>2. \A b \in Approvals : b # a => inbox'[b] = inbox[b]
      BY <3>1 DEF TypeOK
    <3> QED
      BY <3>1, <3>2 DEF HandlerInv
  <2>3. CASE RespondDecide(a) \/ CancelDecide(a)
    <3>1. inbox[a] # <<>> /\ status[a] = "pending" /\ SetDecision(a)
      BY <2>3 DEF RespondDecide, CancelDecide, Running
    <3>2. Outcome[Head(inbox[a])] \in Decided
      BY <3>1, HeadCall
    <3>3. Now # 0
      BY <3>1, NowType, FS_CardinalityType, ApprovalsAssumption DEF HandlerInv, Decided
    <3>4. status[a] \notin Decided /\ awakeable[a] = "open" /\ acked[a] = <<>>
      BY <3>1 DEF HandlerInv, Decided
    <3> QED
      BY <3>1, <3>2, <3>3, <3>4 DEF SetDecision, TypeOK, HandlerInv
  <2>4. CASE ResolveAwakeable(a) \/ RejectAwakeable(a)
    <3>1. /\ inbox[a] # <<>> /\ status[a] = Outcome[Head(inbox[a])] /\ awakeable[a] = "open"
          /\ acked[a] = <<>>
      BY <2>4 DEF HandlerInv, ResolveAwakeable, RejectAwakeable
    <3>2. status[a] \in Decided
      BY <3>1, HeadCall
    <3>3. awakeable' = [awakeable EXCEPT ![a] = status[a]]
      BY <2>4, <3>1 DEF ResolveAwakeable, RejectAwakeable, Complete, Outcome
    <3>4. /\ pc' = [pc EXCEPT ![a] = "woken"]
          /\ UNCHANGED <<status, decidedAt, inbox, acked>>
      BY <2>4 DEF ResolveAwakeable, RejectAwakeable
    <3> QED
      BY <3>1, <3>2, <3>3, <3>4 DEF TypeOK, HandlerInv
  <2>5. CASE AnnounceDecided(a)
    BY <2>5 DEF AnnounceDecided, TypeOK, HandlerInv
  <2>6. CASE IndexDecision(a)
    <3>1. status[a] \in Decided /\ inbox[a] # <<>>
      BY <2>6, HeadCall DEF IndexDecision, HandlerInv
    <3>2. \A b \in Approvals : b # a => inbox'[b] = inbox[b] /\ acked'[b] = acked[b]
      BY <2>6 DEF IndexDecision, TypeOK
    <3>3. /\ pc' = [pc EXCEPT ![a] = "idle"]
          /\ UNCHANGED <<status, decidedAt, awakeable>>
      BY <2>6 DEF IndexDecision
    <3>4. pc[a] = "unlisted"
      BY <2>6 DEF IndexDecision
    <3>5. pc'[a] = "idle" /\ \A b \in Approvals \ {a} : pc'[b] = pc[b]
      BY <3>3 DEF TypeOK
    <3>6. awakeable[a] = status[a] /\ decidedAt[a] # 0
      BY <3>1, <3>4 DEF HandlerInv
    <3> QED
      BY <3>1, <3>2, <3>3, <3>5, <3>6 DEF HandlerInv
  <2> QED
    BY <1>4, <2>1, <2>2, <2>3, <2>4, <2>5, <2>6 DEF HandlerStep
<1>5. ASSUME NEW a \in Approvals, IndexStep(a) PROVE HandlerInv'
  BY <1>5 DEF IndexStep, PendingAdd, PendingRemove, DecidedAdd, object, HandlerInv
<1>6. ASSUME NEW g \in Groups, PollGroup(g) PROVE HandlerInv'
  BY <1>6 DEF PollGroup, object, HandlerInv
<1>7. CASE UNCHANGED vars
  BY <1>7 DEF vars, object, HandlerInv
<1> QED
  BY <1>1, <1>2, <1>3, <1>4, <1>5, <1>6, <1>7 DEF Next

\* Every reachable state is well typed and every handler stands where its
\* state says it does.
THEOREM HandlersCorrect == Spec => [](TypeOK /\ HandlerInv)
<1>1. Init => TypeOK /\ HandlerInv
  BY InitTypeOK, InitHandlerInv
<1>2. TypeOK /\ HandlerInv /\ [Next]_vars => (TypeOK /\ HandlerInv)'
  BY NextTypeOK, NextHandlerInv
<1> QED
  BY <1>1, <1>2, PTL DEF Spec

\* Whoever is woken by a decision finds the record decided the same way.
THEOREM WakeAgrees == Spec => []WakeAgreesWithRecord
<1>1. TypeOK /\ HandlerInv => WakeAgreesWithRecord
  BY DEF TypeOK, HandlerInv, WakeAgreesWithRecord
<1> QED
  BY <1>1, HandlersCorrect, PTL

\* A respond that was answered ok stays true: every step that could change
\* the status or the awakeable finds that none was answered yet.
LEMMA NextAcked ==
  ASSUME TypeOK, HandlerInv, AckedDecisionStands, [Next]_vars
  PROVE  AckedDecisionStands'
<1>1. CASE UNCHANGED <<status, awakeable, acked>>
  BY <1>1 DEF AckedDecisionStands
<1>2. ASSUME NEW a \in Approvals, RequestApproval(a) PROVE AckedDecisionStands'
  <2>1. acked[a] = <<>>
    BY <1>2 DEF RequestApproval, HandlerInv, Decided
  <2>2. \A b \in Approvals : b # a => status'[b] = status[b]
    BY <1>2 DEF RequestApproval, TypeOK
  <2>3. UNCHANGED <<awakeable, acked>>
    BY <1>2 DEF RequestApproval
  <2> QED
    BY <2>1, <2>2, <2>3 DEF AckedDecisionStands
<1>3. ASSUME NEW a \in Approvals, RespondDecide(a) \/ CancelDecide(a)
      PROVE  AckedDecisionStands'
  <2>1. acked[a] = <<>>
    BY <1>3 DEF RespondDecide, CancelDecide, HandlerInv, Decided
  <2>2. \A b \in Approvals : b # a => status'[b] = status[b]
    BY <1>3 DEF RespondDecide, CancelDecide, SetDecision, TypeOK
  <2>3. UNCHANGED <<awakeable, acked>>
    BY <1>3 DEF RespondDecide, CancelDecide, SetDecision
  <2> QED
    BY <2>1, <2>2, <2>3 DEF AckedDecisionStands
<1>4. ASSUME NEW a \in Approvals, ResolveAwakeable(a) \/ RejectAwakeable(a)
      PROVE  AckedDecisionStands'
  <2>1. acked[a] = <<>>
    BY <1>4 DEF ResolveAwakeable, RejectAwakeable, HandlerInv
  <2>2. \A b \in Approvals : b # a => awakeable'[b] = awakeable[b]
    BY <1>4 DEF ResolveAwakeable, RejectAwakeable, Complete, TypeOK
  <2>3. UNCHANGED <<status, acked>>
    BY <1>4 DEF ResolveAwakeable, RejectAwakeable
  <2> QED
    BY <2>1, <2>2, <2>3 DEF AckedDecisionStands
<1>5. ASSUME NEW a \in Approvals, IndexDecision(a) PROVE AckedDecisionStands'
  <2>1. /\ acked[a] = <<>> /\ inbox[a] # <<>> /\ status[a] = Outcome[Head(inbox[a])]
        /\ pc[a] = "unlisted"
    BY <1>5 DEF IndexDecision, HandlerInv
  <2>2. awakeable[a] = status[a]
    BY <2>1, HeadCall DEF HandlerInv
  <2>3. acked'[a] = <<>> \/ acked'[a] = <<Head(inbox[a])>>
    BY <1>5, <2>1 DEF IndexDecision, TypeOK
  <2>4. \A b \in Approvals : b # a => acked'[b] = acked[b]
    BY <1>5 DEF IndexDecision, TypeOK
  <2>5. UNCHANGED <<status, awakeable>>
    BY <1>5 DEF IndexDecision
  <2>6. /\ Len(acked'[a]) <= 1
        /\ \A i \in DOMAIN acked'[a] : acked'[a][i] = Head(inbox[a])
    <3> DEFINE told == acked'[a]
    <3>1. told = <<>> \/ told = <<Head(inbox[a])>>
      BY <2>3
    <3> HIDE DEF told
    <3>2. CASE told = <<>>
      BY <3>2, Len(<<>>) = 0, DOMAIN <<>> = {} DEF told
    <3>3. CASE told = <<Head(inbox[a])>>
      <4>1. Len(told) = 1 /\ DOMAIN told = {1} /\ told[1] = Head(inbox[a])
        BY <3>3
      <4> QED
        BY <4>1 DEF told
    <3> QED
      BY <3>1, <3>2, <3>3
  <2> QED
    BY <2>1, <2>2, <2>4, <2>5, <2>6 DEF AckedDecisionStands
<1>6. Next => \/ UNCHANGED <<status, awakeable, acked>>
              \/ \E a \in Approvals : \/ RequestApproval(a) \/ IndexDecision(a)
                                      \/ RespondDecide(a) \/ CancelDecide(a)
                                      \/ ResolveAwakeable(a) \/ RejectAwakeable(a)
  BY DEF Next, Decide, CallCancel, Enqueue, HandlerStep, AnnouncePending, RespondRefused,
         CancelNoop, Dismiss, AnnounceDecided, IndexStep, PendingAdd, PendingRemove,
         DecidedAdd, PollGroup, object
<1> QED
  BY <1>1, <1>2, <1>3, <1>4, <1>5, <1>6 DEF vars, object

\* Of all the clicks on one approval at most one is told ok, and the record
\* and the waiter keep saying what it decided.
THEOREM AckedStands == Spec => []AckedDecisionStands
<1>1. Init => AckedDecisionStands
  BY DEF Init, AckedDecisionStands
<1>2. TypeOK /\ HandlerInv /\ AckedDecisionStands /\ [Next]_vars => AckedDecisionStands'
  BY NextAcked
<1> QED
  BY <1>1, <1>2, HandlersCorrect, PTL DEF Spec

\* A decision is never changed: no call that arrives late does more than be
\* refused.
THEOREM DecisionsAreFinal == Spec => DecisionIsFinal
<1> DEFINE Keeps == \A a \in Approvals : status[a] \in Decided =>
                      /\ status'[a] = status[a]
                      /\ approverGroup'[a] = approverGroup[a]
                      /\ decidedAt'[a] = decidedAt[a]
<1>1. TypeOK /\ [Next]_vars => [Keeps]_vars
  <2> SUFFICES ASSUME TypeOK, Next PROVE Keeps
    OBVIOUS
  <2>1. ASSUME NEW a \in Approvals, RequestApproval(a) PROVE Keeps
    BY <2>1 DEF RequestApproval, TypeOK, Decided
  <2>2. ASSUME NEW a \in Approvals, Decide(a) \/ CallCancel(a) PROVE Keeps
    BY <2>2 DEF Decide, CallCancel, Enqueue, object
  <2>3. ASSUME NEW a \in Approvals, HandlerStep(a) PROVE Keeps
    <3>1. CASE RespondDecide(a) \/ CancelDecide(a)
      BY <3>1 DEF RespondDecide, CancelDecide, SetDecision, TypeOK, Decided
    <3>2. CASE ~(RespondDecide(a) \/ CancelDecide(a))
      BY <2>3, <3>2 DEF HandlerStep, AnnouncePending, RespondRefused, CancelNoop, Dismiss,
           ResolveAwakeable, RejectAwakeable, AnnounceDecided, IndexDecision, object
    <3> QED
      BY <3>1, <3>2
  <2>4. ASSUME NEW a \in Approvals, IndexStep(a) PROVE Keeps
    BY <2>4 DEF IndexStep, PendingAdd, PendingRemove, DecidedAdd, object
  <2>5. ASSUME NEW g \in Groups, PollGroup(g) PROVE Keeps
    BY <2>5 DEF PollGroup, object
  <2> QED
    BY <2>1, <2>2, <2>3, <2>4, <2>5 DEF Next
<1> QED
  BY <1>1, HandlersCorrect, PTL DEF Spec, DecisionIsFinal
-----------------------------------------------------------------------------
(* The pending index.                                                       *)

\* What was sent to the index and has not arrived, and what the list shows,
\* together say how far the approval has got.
Listed(a) == a \in pending[approverGroup[a]]
PendingInv ==
  \A a \in Approvals :
    /\ \A g \in Groups : a \in pending[g] => g = approverGroup[a]
    /\ status[a] = "none" \/ pc[a] = "requested" => toPending[a] = <<>> /\ ~Listed(a)
    /\ (status[a] = "pending" /\ pc[a] # "requested") \/ pc[a] \in {"decided", "woken"} =>
         (toPending[a] = <<"add">> /\ ~Listed(a)) \/ (toPending[a] = <<>> /\ Listed(a))
    /\ status[a] \in Decided /\ pc[a] \notin {"decided", "woken"} =>
         \/ toPending[a] = <<"add", "remove">> /\ ~Listed(a)
         \/ toPending[a] = <<"remove">> /\ Listed(a)
         \/ toPending[a] = <<>> /\ ~Listed(a)

\* The short queues of sends that occur.
LEMMA Sends ==
  /\ <<"add">> # <<>> /\ <<"remove">> # <<>> /\ <<"add", "remove">> # <<>>
  /\ Append(<<>>, "add") = <<"add">> /\ Append(<<>>, "remove") = <<"remove">>
  /\ Append(<<"add">>, "remove") = <<"add", "remove">>
  /\ Head(<<"add">>) = "add" /\ Head(<<"remove">>) = "remove" /\ Head(<<"add", "remove">>) = "add"
  /\ Tail(<<"add">>) = <<>> /\ Tail(<<"remove">>) = <<>> /\ Tail(<<"add", "remove">>) = <<"remove">>
<1>1. <<"add">> # <<>> /\ <<"remove">> # <<>> /\ <<"add", "remove">> # <<>>
  OBVIOUS
<1>2. Append(<<>>, "add") = <<"add">> /\ Append(<<>>, "remove") = <<"remove">>
  OBVIOUS
<1>3. Append(<<"add">>, "remove") = <<"add", "remove">>
  <2>1. \A S : \A s \in Seq(S), e \in S : Len(s) = 1 => Append(s, e) = <<s[1], e>>
    <3> SUFFICES ASSUME NEW S, NEW s \in Seq(S), NEW e \in S, Len(s) = 1
                 PROVE  Append(s, e) = <<s[1], e>>
      OBVIOUS
    <3> DEFINE t == Append(s, e)
    <3>1. t[2] = e
      BY AppendProperties
    <3>2. t[1] = s[1]
      BY AppendProperties
    <3>3. t \in Seq(S)
      BY AppendProperties
    <3>4. Len(t) = 2
      <4>1. Len(t) = Len(s) + 1
        BY AppendProperties
      <4> HIDE DEF t
      <4> QED
        BY <4>1
    <3>5. t = <<t[1], t[2]>>
      <4> HIDE DEF t
      <4> QED
        BY <3>3, <3>4
    <3> QED
      BY <3>1, <3>2, <3>5
  <2>2. <<"add">> \in Seq({"add", "remove"}) /\ Len(<<"add">>) = 1 /\ <<"add">>[1] = "add"
    OBVIOUS
  <2> QED
    BY <2>1, <2>2, Zenon
<1>4. Head(<<"add">>) = "add" /\ Head(<<"remove">>) = "remove" /\ Head(<<"add", "remove">>) = "add"
  OBVIOUS
<1>5. Tail(<<"add">>) = <<>> /\ Tail(<<"remove">>) = <<>>
  OBVIOUS
<1>6. Tail(<<"add", "remove">>) = <<"remove">>
  OBVIOUS
<1> QED
  BY <1>1, <1>2, <1>3, <1>4, <1>5, <1>6

\* The steps that concern the pending index.
LEMMA PendingSteps ==
  Next => \/ UNCHANGED <<status, approverGroup, pc, toPending, pending>>
          \/ \E a \in Approvals : \/ RequestApproval(a) \/ AnnouncePending(a)
                                  \/ RespondDecide(a) \/ CancelDecide(a)
                                  \/ ResolveAwakeable(a) \/ RejectAwakeable(a)
                                  \/ AnnounceDecided(a) \/ IndexDecision(a)
                                  \/ PendingAdd(a) \/ PendingRemove(a)
  BY DEF Next, Decide, CallCancel, Enqueue, HandlerStep, RespondRefused, CancelNoop, Dismiss,
         IndexStep, DecidedAdd, PollGroup, object, indexes

LEMMA NextPendingInv ==
  ASSUME TypeOK, HandlerInv, PendingInv, [Next]_vars
  PROVE  PendingInv'
<1>1. CASE UNCHANGED <<status, approverGroup, pc, toPending, pending>>
  BY <1>1 DEF PendingInv, Listed
<1>2. ASSUME NEW a \in Approvals, RequestApproval(a) PROVE PendingInv'
  BY <1>2 DEF RequestApproval, indexes, TypeOK, PendingInv, Listed, Decided
<1>3. ASSUME NEW a \in Approvals, AnnouncePending(a) PROVE PendingInv'
  <2>1. pc[a] = "requested" /\ status[a] = "pending" /\ toPending[a] = <<>> /\ ~Listed(a)
    BY <1>3 DEF AnnouncePending, HandlerInv, PendingInv
  <2>2. toPending'[a] = <<"add">> /\ \A b \in Approvals \ {a} : toPending'[b] = toPending[b]
    BY <1>3, <2>1, Sends DEF AnnouncePending, TypeOK
  <2>3. /\ pc'[a] = "idle" /\ \A b \in Approvals \ {a} : pc'[b] = pc[b]
        /\ UNCHANGED <<status, approverGroup, pending>>
    BY <1>3 DEF AnnouncePending, TypeOK
  <2>4. \A b \in Approvals : Listed(b)' = Listed(b)
    BY <2>3 DEF Listed
  <2> QED
    BY <2>1, <2>2, <2>3, <2>4 DEF PendingInv, Decided
<1>4. ASSUME NEW a \in Approvals, RespondDecide(a) \/ CancelDecide(a) PROVE PendingInv'
  <2>1. /\ pc[a] = "idle" /\ status[a] = "pending" /\ Outcome[Head(inbox[a])] \in Decided
    BY <1>4, HeadCall DEF RespondDecide, CancelDecide, Running
  <2>2. SetDecision(a)
    BY <1>4 DEF RespondDecide, CancelDecide
  <2> QED
    BY <2>1, <2>2 DEF SetDecision, indexes, TypeOK, PendingInv, Listed, Decided
<1>5. ASSUME NEW a \in Approvals, ResolveAwakeable(a) \/ RejectAwakeable(a) PROVE PendingInv'
  BY <1>5 DEF ResolveAwakeable, RejectAwakeable, indexes, TypeOK, PendingInv, Listed
<1>6. ASSUME NEW a \in Approvals, AnnounceDecided(a) PROVE PendingInv'
  <2>1. status[a] \in Decided
    BY <1>6, HeadCall DEF AnnounceDecided, HandlerInv
  <2> QED
    BY <1>6, <2>1, Sends DEF AnnounceDecided, TypeOK, PendingInv, Listed, Decided
<1>7. ASSUME NEW a \in Approvals, IndexDecision(a) PROVE PendingInv'
  <2>1. status[a] \in Decided
    BY <1>7, HeadCall DEF IndexDecision, HandlerInv
  <2> QED
    BY <1>7, <2>1 DEF IndexDecision, TypeOK, PendingInv, Listed, Decided
<1>8. ASSUME NEW a \in Approvals, PendingAdd(a) PROVE PendingInv'
  <2>1. /\ toPending[a] = <<"add">> \/ toPending[a] = <<"add", "remove">>
        /\ status[a] # "none" /\ pc[a] # "requested"
    BY <1>8, Sends DEF PendingAdd, TypeOK, PendingInv, Statuses
  <2>2. /\ Listed(a)' /\ \A b \in Approvals \ {a} : Listed(b)' = Listed(b)
        /\ \A g \in Groups : a \in pending'[g] => g = approverGroup[a]
        /\ \A b \in Approvals \ {a}, g \in Groups : b \in pending'[g] => b \in pending[g]
    BY <1>8 DEF PendingAdd, object, TypeOK, PendingInv, Listed
  <2>3. toPending'[a] = Tail(toPending[a]) /\ \A b \in Approvals \ {a} : toPending'[b] = toPending[b]
    BY <1>8 DEF PendingAdd, TypeOK
  <2>4. UNCHANGED <<status, approverGroup, pc>>
    BY <1>8 DEF PendingAdd, object
  <2>5. CASE toPending[a] = <<"add">>
    <3>1. toPending'[a] = <<>>
      BY <2>3, <2>5, Sends
    <3> QED
      BY <2>1, <2>2, <2>3, <2>4, <2>5, <3>1, Sends DEF PendingInv
  <2>6. CASE toPending[a] = <<"add", "remove">>
    <3>1. toPending'[a] = <<"remove">>
      BY <2>3, <2>6, Sends
    <3>2. status[a] \in Decided /\ pc[a] \notin {"decided", "woken"}
      BY <2>1, <2>6, Sends DEF TypeOK, PendingInv, Statuses
    <3> QED
      BY <2>1, <2>2, <2>3, <2>4, <3>1, <3>2 DEF PendingInv, Decided
  <2> QED
    BY <2>1, <2>5, <2>6
<1>9. ASSUME NEW a \in Approvals, PendingRemove(a) PROVE PendingInv'
  <2>1. /\ toPending[a] = <<"remove">> /\ status[a] \in Decided
        /\ pc[a] \notin {"requested", "decided", "woken"}
    BY <1>9, Sends DEF PendingRemove, TypeOK, PendingInv, Statuses
  <2>2. /\ ~Listed(a)' /\ \A b \in Approvals \ {a} : Listed(b)' = Listed(b)
        /\ \A b \in Approvals, g \in Groups : b \in pending'[g] => b \in pending[g]
    BY <1>9 DEF PendingRemove, object, TypeOK, PendingInv, Listed
  <2>3. toPending'[a] = <<>> /\ \A b \in Approvals \ {a} : toPending'[b] = toPending[b]
    BY <1>9, <2>1, Sends DEF PendingRemove, TypeOK
  <2>4. UNCHANGED <<status, approverGroup, pc>>
    BY <1>9 DEF PendingRemove, object
  <2> QED
    BY <2>1, <2>2, <2>3, <2>4 DEF PendingInv, Decided
<1> QED
  BY <1>1, <1>2, <1>3, <1>4, <1>5, <1>6, <1>7, <1>8, <1>9, PendingSteps DEF vars, object, indexes

\* Once its sends have arrived and no handler of it runs, an approval is listed
\* to its group exactly while it is undecided, and never to another group.
THEOREM PendingSettles == Spec => []PendingIndexSettles
<1>1. Init => PendingInv
  BY DEF Init, PendingInv, Listed, Decided
<1>2. TypeOK /\ HandlerInv /\ PendingInv /\ [Next]_vars => PendingInv'
  BY NextPendingInv
<1>3. TypeOK /\ PendingInv => PendingIndexSettles
  <2> SUFFICES ASSUME TypeOK, PendingInv, NEW a \in Approvals, NEW g \in Groups
               PROVE  /\ a \in pending[g] => g = approverGroup[a] /\ status[a] # "none"
                      /\ Settled(a) /\ g = approverGroup[a] =>
                           (a \in pending[g] <=> status[a] = "pending")
    BY DEF PendingIndexSettles
  <2>1. status[a] \in Statuses /\ (a \in pending[g] => g = approverGroup[a])
    BY DEF TypeOK, PendingInv
  <2>2. status[a] = "none" => ~Listed(a)
    BY DEF PendingInv
  <2>3. Settled(a) => (Listed(a) <=> status[a] = "pending")
    BY <2>1, Sends DEF Settled, PendingInv, Statuses, Decided
  <2> QED
    BY <2>1, <2>2, <2>3 DEF Listed
<1> QED
  BY <1>1, <1>2, <1>3, HandlersCorrect, PTL DEF Spec
-----------------------------------------------------------------------------
(* The history.                                                             *)

\* What a history may still say about an approval: nothing before the handler
\* that decided it has returned, one row on its way or one row in the list of
\* the group that was asked afterwards, and never both.
Row(a) == [approvalId |-> a, outcome |-> status[a]]
Recorded(a) == \E g \in Groups : \E i \in DOMAIN entries[g] : entries[g][i].approvalId = a
HistoryInv ==
  \A a \in Approvals :
    /\ toDecided[a] = <<>> \/ toDecided[a] = <<Row(a)>>
    /\ toDecided[a] # <<>> \/ Recorded(a) => status[a] \in Decided /\ pc[a] = "idle"
    /\ ~(toDecided[a] # <<>> /\ Recorded(a))
TrailInv == HistoryInv /\ AuditTrailFaithful

\* Trimming drops a prefix, and only of a list that is too long: what is left
\* is where it was, shifted.
LEMMA NewestElements ==
  ASSUME NEW S, NEW list \in Seq(S)
  PROVE  LET off == Len(list) - Len(Newest(list)) IN
         /\ off \in Nat
         /\ off > 0 => Len(Newest(list)) = MaxDecided
         /\ \A i \in DOMAIN Newest(list) :
              i + off \in DOMAIN list /\ Newest(list)[i] = list[i + off]
<1> DEFINE from == IF Len(list) > MaxDecided THEN Len(list) - MaxDecided + 1 ELSE 1
           newest == SubSeq(list, from, Len(list))
<1>1. Len(list) \in Nat /\ MaxDecided \in Nat \ {0} /\ DOMAIN list = 1..Len(list)
  BY MaxDecidedAssumption
<1>2. from \in 1..Len(list) + 1
  BY <1>1
<1>3. \A i \in from..Len(list) : list[i] \in S
  BY <1>1, <1>2
<1>4. /\ newest \in Seq(S)
      /\ Len(newest) = IF from <= Len(list) THEN Len(list) - from + 1 ELSE 0
      /\ \A i \in 1..Len(list) - from + 1 : newest[i] = list[from + i - 1]
  BY <1>1, <1>2, <1>3, SubSeqProperties
<1>5. DOMAIN newest = 1..Len(newest) /\ Newest(list) = newest
  BY <1>4 DEF Newest
<1> HIDE DEF newest, from
<1>6. /\ from - 1 \in Nat
      /\ Len(list) - Len(newest) = from - 1
      /\ from - 1 > 0 => Len(newest) = MaxDecided
  <2>1. CASE Len(list) > MaxDecided
    <3>1. from = Len(list) - MaxDecided + 1
      BY <2>1 DEF from
    <3>2. Len(newest) = MaxDecided
      BY <1>1, <1>4, <2>1, <3>1
    <3> QED
      BY <1>1, <2>1, <3>1, <3>2
  <2>2. CASE ~(Len(list) > MaxDecided)
    <3>1. from = 1
      BY <2>2 DEF from
    <3> QED
      BY <1>1, <1>4, <3>1
  <2> QED
    BY <2>1, <2>2
<1>7. \A i \in DOMAIN newest :
        i + (from - 1) \in DOMAIN list /\ newest[i] = list[i + (from - 1)]
  <2> SUFFICES ASSUME NEW i \in DOMAIN newest
               PROVE  i + (from - 1) \in DOMAIN list /\ newest[i] = list[i + (from - 1)]
    OBVIOUS
  <2>1. i \in Nat /\ i >= 1 /\ i <= Len(list) - from + 1
    BY <1>1, <1>2, <1>4, <1>5
  <2>2. i \in 1..Len(list) - from + 1 /\ from + i - 1 = i + (from - 1)
    BY <1>1, <1>2, <2>1
  <2>3. newest[i] = list[i + (from - 1)]
    BY <1>4, <2>2
  <2>4. i + (from - 1) \in 1..Len(list)
    BY <1>1, <1>2, <2>1
  <2> QED
    BY <1>1, <2>3, <2>4
<1> QED
  BY <1>5, <1>6, <1>7

\* A history nothing is done to keeps what it keeps.
LEMMA KeepsNewestFrame ==
  ASSUME NEW g \in Groups, KeepsNewest(g),
         arrived'[g] = arrived[g], entries'[g] = entries[g]
  PROVE  KeepsNewest(g)'
<1>1. Len(arrived'[g]) - Len(entries'[g]) = Len(arrived[g]) - Len(entries[g])
  BY Zenon
<1> QED
  BY <1>1, Zenon DEF KeepsNewest

\* The steps that concern the history.
LEMMA HistorySteps ==
  Next => \/ UNCHANGED <<status, approverGroup, pc, toDecided, entries, arrived>>
          \/ \E a \in Approvals : \/ RequestApproval(a) \/ AnnouncePending(a)
                                  \/ RespondDecide(a) \/ CancelDecide(a)
                                  \/ ResolveAwakeable(a) \/ RejectAwakeable(a)
                                  \/ AnnounceDecided(a) \/ IndexDecision(a)
                                  \/ DecidedAdd(a)
  BY DEF Next, Decide, CallCancel, Enqueue, HandlerStep, RespondRefused, CancelNoop, Dismiss,
         IndexStep, PendingAdd, PendingRemove, PollGroup, object, indexes

\* An approval the histories do not know yet may change: nothing else does.
LEMMA Unrecorded ==
  ASSUME TypeOK, TrailInv, NEW a \in Approvals, toDecided[a] = <<>>, ~Recorded(a),
         UNCHANGED <<approverGroup, toDecided, entries, arrived>>,
         \A b \in Approvals \ {a} : status'[b] = status[b] /\ pc'[b] = pc[b]
  PROVE  TrailInv'
<1>1. \A b \in Approvals : Recorded(b)' = Recorded(b)
  BY DEF Recorded
<1>2. \A b \in Approvals \ {a} : Row(b)' = Row(b)
  BY DEF Row
<1>3. HistoryInv'
  BY <1>1, <1>2 DEF TrailInv, HistoryInv
<1>4. \A g \in Groups : \A i \in DOMAIN entries[g] :
        entries[g][i].approvalId \in Approvals \ {a}
  <2> SUFFICES ASSUME NEW g \in Groups, NEW i \in DOMAIN entries[g]
               PROVE  entries[g][i].approvalId \in Approvals \ {a}
    OBVIOUS
  <2> DEFINE S == [approvalId : Approvals, outcome : Decided]
  <2>1. entries[g] \in Seq(S)
    BY DEF TypeOK
  <2>2. entries[g][i] \in S
    <3> HIDE DEF S
    <3> QED
      BY <2>1
  <2> QED
    BY <2>2 DEF Recorded
<1>5. AuditTrailFaithful'
  <2>1. \A g \in Groups : KeepsNewest(g)'
    BY KeepsNewestFrame DEF TrailInv, AuditTrailFaithful
  <2> QED
    BY <1>4, <2>1 DEF TrailInv, AuditTrailFaithful
<1> QED
  BY <1>3, <1>5 DEF TrailInv

\* The newest decision joins the list of its group.
LEMMA DecidedAddTrailInv ==
  ASSUME TypeOK, TrailInv, NEW a \in Approvals, DecidedAdd(a)
  PROVE  TrailInv'
<1> DEFINE g == approverGroup[a]
           S == [approvalId : Approvals, outcome : Decided]
           old == entries[g]
           list == Append(old, Row(a))
<1>1. /\ toDecided[a] = <<Row(a)>> /\ ~Recorded(a)
      /\ status[a] \in Decided /\ pc[a] = "idle"
  BY DEF DecidedAdd, TrailInv, HistoryInv
<1>2. g \in Groups /\ old \in Seq(S)
  BY DEF TypeOK
<1>3. Row(a) \in S /\ Row(a).approvalId = a /\ Row(a).outcome = status[a]
  BY <1>1 DEF Row
<1>4. Head(toDecided[a]) = Row(a) /\ Tail(toDecided[a]) = <<>>
  <2> HIDE DEF S
  <2> QED
    BY <1>1, <1>3
<1>5. /\ entries' = [entries EXCEPT ![g] = Newest(list)]
      /\ toDecided' = [toDecided EXCEPT ![a] = <<>>]
      /\ UNCHANGED <<status, approverGroup, pc>>
  BY <1>4 DEF DecidedAdd, object
<1>6. entries'[g] = Newest(list) /\ \A h \in Groups \ {g} : entries'[h] = entries[h]
  BY <1>2, <1>5 DEF TypeOK
<1>7. /\ list \in Seq(S) /\ DOMAIN list = 1..Len(old) + 1 /\ Len(old) \in Nat
      /\ list[Len(old) + 1] = Row(a)
      /\ DOMAIN old = 1..Len(old)
      /\ \A i \in DOMAIN old : list[i] = old[i]
  <2> HIDE DEF S, old
  <2>1. /\ list \in Seq(S) /\ Len(list) = Len(old) + 1
        /\ list[Len(old) + 1] = Row(a)
        /\ \A i \in 1..Len(old) : list[i] = old[i]
    BY <1>2, <1>3, AppendProperties
  <2>2. DOMAIN old = 1..Len(old) /\ Len(old) \in Nat
    BY <1>2
  <2> HIDE DEF list
  <2>3. DOMAIN list = 1..Len(list)
    BY <2>1
  <2> QED
    BY <2>1, <2>2, <2>3
<1> DEFINE off == Len(list) - Len(Newest(list))
<1>8. /\ off \in Nat
      /\ off > 0 => Len(Newest(list)) = MaxDecided
      /\ \A i \in DOMAIN Newest(list) :
           i + off \in DOMAIN list /\ Newest(list)[i] = list[i + off]
  <2> HIDE DEF list, S
  <2> QED
    BY <1>7, NewestElements
<1> HIDE DEF off
<1>9. DOMAIN Newest(list) \subseteq Nat
  <2> HIDE DEF list, S
  <2> QED
    BY <1>7, NewestType
\* Each row of the new list is the new one or one of the old list.
<1>10. \A i \in DOMAIN Newest(list) :
         \/ Newest(list)[i] = Row(a) /\ i + off = Len(old) + 1
         \/ i + off \in DOMAIN old /\ Newest(list)[i] = old[i + off]
  <2> HIDE DEF list, old, S
  <2> QED
    BY <1>7, <1>8
<1>11. \A i \in DOMAIN old : old[i].approvalId # a
  BY <1>1, <1>2 DEF Recorded
<1>12. \A b \in Approvals \ {a} : Recorded(b)' => Recorded(b)
  <2> SUFFICES ASSUME NEW b \in Approvals \ {a},
                      NEW h \in Groups, NEW i \in DOMAIN entries'[h],
                      entries'[h][i].approvalId = b
               PROVE  Recorded(b)
    BY DEF Recorded
  <2>1. CASE h # g
    BY <1>6, <2>1 DEF Recorded
  <2>2. CASE h = g
    <3>1. i + off \in DOMAIN old /\ old[i + off].approvalId = b
      BY <1>3, <1>6, <1>10, <2>2
    <3> QED
      BY <1>2, <3>1 DEF Recorded
  <2> QED
    BY <2>1, <2>2
<1>13. HistoryInv'
  <2>1. toDecided'[a] = <<>> /\ \A b \in Approvals \ {a} : toDecided'[b] = toDecided[b]
    BY <1>5 DEF TypeOK
  <2>2. \A b \in Approvals : Row(b)' = Row(b)
    BY <1>5 DEF Row
  <2> QED
    BY <1>1, <1>5, <1>12, <2>1, <2>2 DEF TrailInv, HistoryInv
<1>14. ASSUME NEW h \in Groups, NEW i \in DOMAIN entries'[h]
      PROVE  /\ approverGroup[entries'[h][i].approvalId] = h
             /\ status[entries'[h][i].approvalId] = entries'[h][i].outcome
             /\ \A j \in DOMAIN entries'[h] :
                  entries'[h][i].approvalId = entries'[h][j].approvalId => i = j
  <2>1. CASE h # g
    BY <1>6, <2>1 DEF TrailInv, AuditTrailFaithful
  <2>2. CASE h = g
    <3>1. \A j, k \in DOMAIN old : old[j].approvalId = old[k].approvalId => j = k
      BY <1>2 DEF TrailInv, AuditTrailFaithful
    <3>2. \A j \in DOMAIN old : /\ approverGroup[old[j].approvalId] = g
                                /\ status[old[j].approvalId] = old[j].outcome
      BY <1>2 DEF TrailInv, AuditTrailFaithful
    <3>3. i \in Nat /\ i \in DOMAIN Newest(list)
      BY <1>6, <1>9, <2>2
    <3>4. /\ approverGroup[Newest(list)[i].approvalId] = g
          /\ status[Newest(list)[i].approvalId] = Newest(list)[i].outcome
      <4> HIDE DEF list, old
      <4> QED
        BY <1>3, <1>10, <3>2, <3>3
    <3>5. ASSUME NEW j \in DOMAIN Newest(list),
                 Newest(list)[i].approvalId = Newest(list)[j].approvalId
          PROVE  i = j
      <4>1. i + off = j + off
        <5> HIDE DEF list, old, g
        <5> QED
          BY <1>3, <1>10, <1>11, <3>1, <3>3, <3>5
      <4>2. j \in Nat
        BY <1>9
      <4> QED
        BY <1>8, <3>3, <4>1, <4>2
    <3> QED
      BY <1>6, <2>2, <3>4, <3>5
  <2> QED
    BY <2>1, <2>2
\* The list is the newest arrivals: one more arrived, and off were dropped.
<1>15. ASSUME NEW h \in Groups
      PROVE  KeepsNewest(h)'
  <2> DEFINE came == arrived[g]
             before == Len(came) - Len(old)
  <2>1. /\ came \in Seq(Approvals)
        /\ arrived'[g] = Append(came, a)
        /\ \A k \in Groups \ {g} : arrived'[k] = arrived[k]
    BY <1>2 DEF DecidedAdd, TypeOK
  <2>2. CASE h # g
    BY <1>6, <2>1, <2>2, KeepsNewestFrame DEF TrailInv, AuditTrailFaithful
  <2>3. CASE h = g
    <3>1. /\ before >= 0 /\ (before > 0 => Len(old) = MaxDecided)
          /\ \A i \in DOMAIN old : old[i].approvalId = came[i + before]
      BY <1>2 DEF TrailInv, AuditTrailFaithful, KeepsNewest
    <3> HIDE DEF g, S, old, list, came
    <3>2. /\ Len(Append(came, a)) = Len(came) + 1 /\ Len(came) \in Nat
          /\ Append(came, a)[Len(came) + 1] = a
          /\ \A i \in 1..Len(came) : Append(came, a)[i] = came[i]
      BY <2>1, AppendProperties
    <3>3. /\ Len(list) = Len(old) + 1 /\ Len(old) \in Nat /\ Len(old) <= MaxDecided
          /\ Len(Newest(list)) \in Nat /\ Len(Newest(list)) <= MaxDecided
          /\ DOMAIN Newest(list) = 1..Len(Newest(list))
      <4>1. Len(list) = Len(old) + 1 /\ Len(old) \in Nat
        BY <1>2, <1>7, AppendProperties DEF list
      <4>2. Newest(list) \in Seq(S) /\ Len(Newest(list)) <= MaxDecided
        BY <1>7, NewestType
      <4>3. Len(old) <= MaxDecided
        BY <1>2 DEF TypeOK, old
      <4> QED
        BY <4>1, <4>2, <4>3
    <3>4. MaxDecided \in Nat \ {0}
      BY MaxDecidedAssumption
    \* A list that has dropped rows was full, so it drops one now.
    <3>5. /\ Len(came) + 1 - Len(Newest(list)) = before + off
          /\ before + off >= 0
          /\ before + off > 0 => Len(Newest(list)) = MaxDecided
      <4> DEFINE m == Len(Newest(list))
                 n == Len(old)
                 c == Len(came)
      <4>1. /\ off = n + 1 - m /\ before = c - n
            /\ c \in Nat /\ n \in Nat /\ m \in Nat /\ n <= MaxDecided /\ m <= MaxDecided
            /\ off \in Nat /\ (off > 0 => m = MaxDecided)
            /\ before >= 0 /\ (before > 0 => n = MaxDecided)
        BY <1>8, <3>1, <3>2, <3>3 DEF off
      <4> HIDE DEF m, n, c, before
      <4>2. c + 1 - m = before + off /\ before + off >= 0 /\ (before + off > 0 => m = MaxDecided)
        BY <3>4, <4>1
      <4> QED
        BY <4>2 DEF m, c
    <3>6. ASSUME NEW i \in DOMAIN Newest(list)
          PROVE  Newest(list)[i].approvalId = Append(came, a)[i + (before + off)]
      <4>1. i \in Nat /\ i >= 1 /\ i <= Len(Newest(list))
        BY <3>3
      <4>2. CASE Newest(list)[i] = Row(a) /\ i + off = Len(old) + 1
        <5>1. i + (before + off) = Len(came) + 1
          BY <1>8, <3>2, <3>3, <4>1, <4>2
        <5> QED
          BY <1>3, <3>2, <4>2, <5>1
      <4>3. CASE i + off \in DOMAIN old /\ Newest(list)[i] = old[i + off]
        <5>1. i + off \in 1..Len(old)
          BY <1>7, <4>3
        <5>2. i + (before + off) \in 1..Len(came) /\ i + (before + off) = (i + off) + before
          BY <1>8, <3>1, <3>2, <3>3, <4>1, <5>1
        <5> QED
          BY <3>1, <3>2, <4>3, <5>2
      <4> QED
        BY <1>10, <4>2, <4>3
    <3>7. /\ entries'[h] = Newest(list) /\ arrived'[h] = Append(came, a)
      BY <1>6, <2>1, <2>3
    <3>8. Len(Append(came, a)) - Len(Newest(list)) = before + off
      BY <3>2, <3>5
    <3> HIDE DEF before
    <3> QED
      BY <3>5, <3>6, <3>7, <3>8 DEF KeepsNewest
  <2> QED
    BY <2>2, <2>3
<1>16. AuditTrailFaithful'
  <2>1. UNCHANGED <<approverGroup, status>>
    BY <1>5
  <2> QED
    BY <1>14, <1>15, <2>1 DEF AuditTrailFaithful
<1> QED
  BY <1>13, <1>16 DEF TrailInv

LEMMA NextTrailInv ==
  ASSUME TypeOK, HandlerInv, TrailInv, [Next]_vars
  PROVE  TrailInv'
<1>1. CASE UNCHANGED <<status, approverGroup, pc, toDecided, entries, arrived>>
  BY <1>1, KeepsNewestFrame DEF TrailInv, HistoryInv, AuditTrailFaithful, Row, Recorded
<1>2. ASSUME NEW a \in Approvals, RequestApproval(a) PROVE TrailInv'
  <2>1. toDecided[a] = <<>> /\ ~Recorded(a)
    BY <1>2 DEF RequestApproval, TrailInv, HistoryInv, Decided
  <2> QED
    BY <1>2, <2>1, Unrecorded DEF RequestApproval, indexes, TypeOK
<1>3. ASSUME NEW a \in Approvals,
             AnnouncePending(a) \/ AnnounceDecided(a) \/ ResolveAwakeable(a) \/ RejectAwakeable(a)
      PROVE  TrailInv'
  <2>1. pc[a] # "idle"
    BY <1>3 DEF AnnouncePending, AnnounceDecided, ResolveAwakeable, RejectAwakeable
  <2>2. toDecided[a] = <<>> /\ ~Recorded(a)
    BY <2>1 DEF TrailInv, HistoryInv
  <2> QED
    BY <1>3, <2>2, Unrecorded
       DEF AnnouncePending, AnnounceDecided, ResolveAwakeable, RejectAwakeable, indexes, TypeOK
<1>4. ASSUME NEW a \in Approvals, RespondDecide(a) \/ CancelDecide(a) PROVE TrailInv'
  <2>1. status[a] = "pending" /\ SetDecision(a)
    BY <1>4 DEF RespondDecide, CancelDecide
  <2>2. toDecided[a] = <<>> /\ ~Recorded(a)
    BY <2>1 DEF TrailInv, HistoryInv, Decided
  <2> QED
    BY <2>1, <2>2, Unrecorded DEF SetDecision, indexes, TypeOK
<1>5. ASSUME NEW a \in Approvals, IndexDecision(a) PROVE TrailInv'
  <2>1. /\ pc[a] = "unlisted" /\ inbox[a] # <<>>
        /\ status[a] = Outcome[Head(inbox[a])] /\ status[a] \in Decided
    BY <1>5, HeadCall DEF IndexDecision, HandlerInv
  <2>2. toDecided[a] = <<>> /\ ~Recorded(a)
    BY <2>1 DEF TrailInv, HistoryInv
  <2>3. toDecided' = [toDecided EXCEPT ![a] = Append(<<>>, Row(a))]
    BY <1>5, <2>1, <2>2 DEF IndexDecision, Row
  <2>4. Append(<<>>, Row(a)) = <<Row(a)>>
    OBVIOUS
  <2>5. /\ toDecided'[a] = <<Row(a)>> /\ pc'[a] = "idle"
        /\ \A b \in Approvals \ {a} : toDecided'[b] = toDecided[b] /\ pc'[b] = pc[b]
    BY <1>5, <2>3, <2>4 DEF IndexDecision, TypeOK
  <2>6. UNCHANGED <<status, approverGroup, entries, arrived>>
    BY <1>5 DEF IndexDecision
  <2>7. \A b \in Approvals : Recorded(b)' = Recorded(b) /\ Row(b)' = Row(b)
    BY <2>6 DEF Recorded, Row
  <2>8. HistoryInv'
    BY <2>1, <2>2, <2>5, <2>6, <2>7 DEF TrailInv, HistoryInv
  <2> QED
    BY <2>6, <2>8, KeepsNewestFrame DEF TrailInv, AuditTrailFaithful
<1> QED
  BY <1>1, <1>2, <1>3, <1>4, <1>5, DecidedAddTrailInv, HistorySteps DEF vars, object, indexes

\* A group's history names an approval at most once, in the group that was
\* asked and with the outcome the record has, whatever the lists drop.
THEOREM TrailFaithful == Spec => []AuditTrailFaithful
<1>1. Init => TrailInv
  BY DEF Init, TrailInv, HistoryInv, AuditTrailFaithful, KeepsNewest, Recorded
<1>2. TypeOK /\ HandlerInv /\ TrailInv /\ [Next]_vars => TrailInv'
  BY NextTrailInv
<1>3. TrailInv => AuditTrailFaithful
  BY DEF TrailInv
<1> QED
  BY <1>1, <1>2, <1>3, HandlersCorrect, PTL DEF Spec
-----------------------------------------------------------------------------
(* The abstract specification.                                              *)

\* Every step of the service is a step of ApprovalVerdict or changes neither
\* the verdict nor what the waiter was told (liveness, Verdict!Spec's
\* fairness, is left to the model checker).
THEOREM ImplementsVerdict == Spec => Verdict!Init /\ [][Verdict!Next]_(Verdict!vars)
<1>1. Init => Verdict!Init
  BY DEF Init, Verdict!Init
<1>2. TypeOK /\ HandlerInv /\ [Next]_vars => [Verdict!Next]_(Verdict!vars)
  <2> SUFFICES ASSUME TypeOK, HandlerInv, [Next]_vars
               PROVE  Verdict!Next \/ UNCHANGED <<status, awakeable>>
    BY DEF Verdict!vars
  <2>1. ASSUME NEW a \in Approvals, RequestApproval(a) PROVE Verdict!Next
    BY <2>1 DEF RequestApproval, Verdict!Next, Verdict!Open
  <2>2. ASSUME NEW a \in Approvals, RespondDecide(a) \/ CancelDecide(a) PROVE Verdict!Next
    <3>1. Outcome[Head(inbox[a])] \in Verdict!Decided /\ status[a] = "pending" /\ SetDecision(a)
      BY <2>2, HeadCall DEF RespondDecide, CancelDecide, Running, Decided, Verdict!Decided
    <3>2. Verdict!Decide(a, Outcome[Head(inbox[a])])
      BY <3>1 DEF SetDecision, Verdict!Decide
    <3> QED
      BY <3>1, <3>2 DEF Verdict!Next
  <2>3. ASSUME NEW a \in Approvals, ResolveAwakeable(a) \/ RejectAwakeable(a) PROVE Verdict!Next
    <3>1. /\ inbox[a] # <<>> /\ status[a] = Outcome[Head(inbox[a])] /\ awakeable[a] = "open"
      BY <2>3 DEF HandlerInv, ResolveAwakeable, RejectAwakeable
    <3>2. status[a] \in Verdict!Decided
      BY <3>1, HeadCall DEF Decided, Verdict!Decided
    <3>3. awakeable' = [awakeable EXCEPT ![a] = status[a]] /\ UNCHANGED status
      BY <2>3, <3>1 DEF ResolveAwakeable, RejectAwakeable, Complete, Outcome
    <3>4. Verdict!Wake(a)
      BY <3>1, <3>2, <3>3 DEF Verdict!Wake
    <3> QED
      BY <3>4 DEF Verdict!Next
  <2>4. Next => \/ UNCHANGED <<status, awakeable>>
                \/ \E a \in Approvals : \/ RequestApproval(a)
                                        \/ RespondDecide(a) \/ CancelDecide(a)
                                        \/ ResolveAwakeable(a) \/ RejectAwakeable(a)
    BY DEF Next, Decide, CallCancel, Enqueue, HandlerStep, AnnouncePending, RespondRefused,
           CancelNoop, Dismiss, AnnounceDecided, IndexDecision, IndexStep, PendingAdd,
           PendingRemove, DecidedAdd, PollGroup, object
  <2> QED
    BY <2>1, <2>2, <2>3, <2>4 DEF vars, object
<1> QED
  BY <1>1, <1>2, HandlersCorrect, PTL DEF Spec
=============================================================================
