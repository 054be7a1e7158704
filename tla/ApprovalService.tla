--------------------------- MODULE ApprovalService ---------------------------
(***************************************************************************)
(* services/approval-service: the virtual object ApprovalService (one      *)
(* instance per approval id), PendingApprovalsIndex and                    *)
(* DecidedApprovalsIndex (one instance per approver group), and the        *)
(* approver pages that poll the first index and post decisions.            *)
(*                                                                         *)
(* The runtime (Restate) is external.  What is used of it: the exclusive   *)
(* handlers of one key run one at a time in arrival order (inbox), shared  *)
(* handlers read the state at any time, a handler that is interrupted      *)
(* resumes at the step where it stopped, and one-way sends of one key to   *)
(* another arrive once and in the order they were sent (toPending,         *)
(* toDecided).  Sends of different keys are not ordered.                   *)
(***************************************************************************)
EXTENDS Naturals, Sequences, FiniteSets

CONSTANTS Approvals,  \* approval ids: fresh uuids drawn by the callers
          Groups,     \* approver groups
          MaxDecided, \* MAX_PER_GROUP of the decided index
          MaxQueue    \* bound of the model: calls waiting at one approval

ASSUME MaxDecidedAssumption == MaxDecided \in Nat \ {0}
ASSUME MaxQueueAssumption == MaxQueue \in Nat
ASSUME ApprovalsAssumption == IsFiniteSet(Approvals)

Decided == {"approved", "rejected", "cancelled"}
Statuses == {"none", "pending"} \cup Decided

\* What respond and cancel are called with, and the status each one leaves.
RespondCalls == {"approve", "reject"}
Calls == RespondCalls \cup {"cancel"}
Outcome == [approve |-> "approved", reject |-> "rejected", cancel |-> "cancelled"]

VARIABLES
  status,       \* status[a]: ctx state of ApprovalService/a; "none" before requestApproval
  approverGroup,\* approverGroup[a]
  decidedAt,    \* decidedAt[a]: decidedAtMs, as a rank; 0 when undecided
  pc,           \* pc[a]: how far the running handler of key a has got
  awakeable,    \* awakeable[a]: "open" until resolved or rejected with a decision
  inbox,        \* inbox[a]: calls queued at key a, the running one first
  toPending,    \* toPending[a]: sends from a to its PendingApprovalsIndex
  toDecided,    \* toDecided[a]: sends from a to its DecidedApprovalsIndex
  pending,      \* pending[g]: PendingApprovalsIndex/g
  entries,      \* entries[g]: DecidedApprovalsIndex/g, oldest first
  shown,        \* approvals some approver page has shown a card for
  \* For the properties only:
  acked,        \* acked[a]: respond calls of a that were answered ok
  arrived       \* arrived[g]: approvals whose row reached the history of g, in order

object == <<status, approverGroup, decidedAt, pc, awakeable>>
indexes == <<toPending, toDecided, pending, entries, arrived>>
vars == <<object, inbox, indexes, shown, acked>>

Init ==
  /\ status = [a \in Approvals |-> "none"]
  /\ approverGroup \in [Approvals -> Groups]
  /\ decidedAt = [a \in Approvals |-> 0]
  /\ pc = [a \in Approvals |-> "idle"]
  /\ awakeable = [a \in Approvals |-> "open"]
  /\ inbox = [a \in Approvals |-> <<>>]
  /\ toPending = [a \in Approvals |-> <<>>]
  /\ toDecided = [a \in Approvals |-> <<>>]
  /\ pending = [g \in Groups |-> {}]
  /\ entries = [g \in Groups |-> <<>>]
  /\ arrived = [g \in Groups |-> <<>>]
  /\ shown = {}
  /\ acked = [a \in Approvals |-> <<>>]

-----------------------------------------------------------------------------
(* requestApproval: called once per id, by the ops-agent that drew it.  The *)
(* group a caller will ask for is fixed in Init.                            *)

RequestApproval(a) ==
  /\ status[a] = "none"
  /\ status' = [status EXCEPT ![a] = "pending"]
  /\ pc' = [pc EXCEPT ![a] = "requested"]
  /\ UNCHANGED <<approverGroup, decidedAt, awakeable, inbox, indexes, shown, acked>>

AnnouncePending(a) ==
  /\ pc[a] = "requested"
  /\ toPending' = [toPending EXCEPT ![a] = Append(@, "add")]
  /\ pc' = [pc EXCEPT ![a] = "idle"]
  /\ UNCHANGED <<status, approverGroup, decidedAt, awakeable, inbox,
                 toDecided, pending, entries, arrived, shown, acked>>

-----------------------------------------------------------------------------
(* Calls arrive.  A page offers the buttons of every card it has shown,     *)
(* however old; nothing disables them after a click.  cancel is open to any *)
(* holder of the id.                                                        *)

Enqueue(a, call) ==
  /\ Len(inbox[a]) < MaxQueue
  /\ inbox' = [inbox EXCEPT ![a] = Append(@, call)]
  /\ UNCHANGED <<object, indexes, shown, acked>>

Decide(a) == a \in shown /\ \E call \in RespondCalls : Enqueue(a, call)

CallCancel(a) == status[a] # "none" /\ Enqueue(a, "cancel")

Running(a, calls) == pc[a] = "idle" /\ inbox[a] # <<>> /\ Head(inbox[a]) \in calls

-----------------------------------------------------------------------------
(* respond and cancel, one step per journaled effect.                       *)

\* The call is answered and leaves the queue without having changed anything.
Dismiss(a) ==
  /\ inbox' = [inbox EXCEPT ![a] = Tail(@)]
  /\ UNCHANGED <<object, indexes, shown, acked>>

RespondRefused(a) ==
  /\ Running(a, RespondCalls)
  /\ status[a] # "pending"
  /\ Dismiss(a)

\* Mutant: a cancel that comes too late is recorded all the same.
CancelNoopIndexed(a) ==
  /\ Running(a, {"cancel"})
  /\ status[a] # "pending"
  /\ inbox' = [inbox EXCEPT ![a] = Tail(@)]
  /\ toDecided' = [toDecided EXCEPT
       ![a] = Append(@, [approvalId |-> a, outcome |-> "cancelled"])]
  /\ UNCHANGED <<object, toPending, pending, entries, arrived, shown, acked>>

CancelNoop(a) ==
  /\ Running(a, {"cancel"})
  /\ status[a] # "pending"
  /\ Dismiss(a)

\* date.now() of a later decision is later.
Now == 1 + Cardinality({a \in Approvals : decidedAt[a] # 0})

SetDecision(a) ==
  /\ status' = [status EXCEPT ![a] = Outcome[Head(inbox[a])]]
  /\ decidedAt' = [decidedAt EXCEPT ![a] = Now]
  /\ pc' = [pc EXCEPT ![a] = "decided"]
  /\ UNCHANGED <<approverGroup, awakeable, inbox, indexes, shown, acked>>

\* Mutant: respond does not look whether the approval is still pending.
RespondDecideAgain(a) == Running(a, RespondCalls) /\ SetDecision(a)

RespondDecide(a) ==
  /\ Running(a, RespondCalls)
  /\ status[a] = "pending"
  /\ SetDecision(a)

CancelDecide(a) ==
  /\ Running(a, {"cancel"})
  /\ status[a] = "pending"
  /\ SetDecision(a)

\* Completing an awakeable twice is a no-op of the runtime.
Complete(a, outcome) ==
  awakeable' = [awakeable EXCEPT ![a] = IF @ = "open" THEN outcome ELSE @]

\* Mutant: the waiter of a rejected approval is told it was approved.
ResolveApproved(a) ==
  /\ pc[a] = "decided"
  /\ Head(inbox[a]) \in RespondCalls
  /\ Complete(a, "approved")
  /\ pc' = [pc EXCEPT ![a] = "woken"]
  /\ UNCHANGED <<status, approverGroup, decidedAt, inbox, indexes, shown, acked>>

ResolveAwakeable(a) ==
  /\ pc[a] = "decided"
  /\ Head(inbox[a]) \in RespondCalls
  /\ Complete(a, Outcome[Head(inbox[a])])
  /\ pc' = [pc EXCEPT ![a] = "woken"]
  /\ UNCHANGED <<status, approverGroup, decidedAt, inbox, indexes, shown, acked>>

\* Mutant: cancel forgets the call that waits.
RejectAwakeableNot(a) ==
  /\ pc[a] = "decided"
  /\ Head(inbox[a]) = "cancel"
  /\ pc' = [pc EXCEPT ![a] = "woken"]
  /\ UNCHANGED <<status, approverGroup, decidedAt, awakeable, inbox, indexes, shown, acked>>

RejectAwakeable(a) ==
  /\ pc[a] = "decided"
  /\ Head(inbox[a]) = "cancel"
  /\ Complete(a, "cancelled")
  /\ pc' = [pc EXCEPT ![a] = "woken"]
  /\ UNCHANGED <<status, approverGroup, decidedAt, inbox, indexes, shown, acked>>

\* Mutant: the pending index is not told.
AnnounceDecidedNot(a) ==
  /\ pc[a] = "woken"
  /\ pc' = [pc EXCEPT ![a] = "unlisted"]
  /\ UNCHANGED <<status, approverGroup, decidedAt, awakeable, inbox, indexes, shown, acked>>

AnnounceDecided(a) ==
  /\ pc[a] = "woken"
  /\ toPending' = [toPending EXCEPT ![a] = Append(@, "remove")]
  /\ pc' = [pc EXCEPT ![a] = "unlisted"]
  /\ UNCHANGED <<status, approverGroup, decidedAt, awakeable, inbox,
                 toDecided, pending, entries, arrived, shown, acked>>

\* indexDecision, and the handler's return.
IndexDecision(a) ==
  /\ pc[a] = "unlisted"
  /\ toDecided' = [toDecided EXCEPT
       ![a] = Append(@, [approvalId |-> a, outcome |-> Outcome[Head(inbox[a])]])]
  /\ pc' = [pc EXCEPT ![a] = "idle"]
  /\ inbox' = [inbox EXCEPT ![a] = Tail(@)]
  /\ acked' = [acked EXCEPT ![a] =
       IF Head(inbox[a]) \in RespondCalls THEN Append(@, Head(inbox[a])) ELSE @]
  /\ UNCHANGED <<status, approverGroup, decidedAt, awakeable,
                 toPending, pending, entries, arrived, shown>>

-----------------------------------------------------------------------------
(* The indexes and the pages.                                               *)

PendingAdd(a) ==
  /\ toPending[a] # <<>> /\ Head(toPending[a]) = "add"
  /\ pending' = [pending EXCEPT ![approverGroup[a]] = @ \cup {a}]
  /\ toPending' = [toPending EXCEPT ![a] = Tail(@)]
  /\ UNCHANGED <<object, inbox, toDecided, entries, arrived, shown, acked>>

PendingRemove(a) ==
  /\ toPending[a] # <<>> /\ Head(toPending[a]) = "remove"
  /\ pending' = [pending EXCEPT ![approverGroup[a]] = @ \ {a}]
  /\ toPending' = [toPending EXCEPT ![a] = Tail(@)]
  /\ UNCHANGED <<object, inbox, toDecided, entries, arrived, shown, acked>>

\* Mutant: the list is full and the newcomer is the one that is dropped.
OldestKept(list) == SubSeq(list, 1, IF Len(list) > MaxDecided THEN MaxDecided ELSE Len(list))

\* list.slice(-MAX_PER_GROUP)
Newest(list) ==
  SubSeq(list, IF Len(list) > MaxDecided THEN Len(list) - MaxDecided + 1 ELSE 1, Len(list))

DecidedAdd(a) ==
  /\ toDecided[a] # <<>>
  /\ entries' = [entries EXCEPT ![approverGroup[a]] = Newest(Append(@, Head(toDecided[a])))]
  /\ toDecided' = [toDecided EXCEPT ![a] = Tail(@)]
  /\ arrived' = [arrived EXCEPT ![approverGroup[a]] = Append(@, a)]
  /\ UNCHANGED <<object, inbox, toPending, pending, shown, acked>>

\* A page polls one group's list and draws a card for each approval in it.
PollGroup(g) ==
  /\ shown' = shown \cup pending[g]
  /\ UNCHANGED <<object, inbox, indexes, acked>>

HandlerStep(a) ==
  \/ AnnouncePending(a)
  \/ RespondRefused(a)   \/ CancelNoop(a)
  \/ RespondDecide(a)    \/ CancelDecide(a)
  \/ ResolveAwakeable(a) \/ RejectAwakeable(a)
  \/ AnnounceDecided(a)  \/ IndexDecision(a)

IndexStep(a) == PendingAdd(a) \/ PendingRemove(a) \/ DecidedAdd(a)

Next ==
  \/ \E a \in Approvals : \/ RequestApproval(a) \/ Decide(a) \/ CallCancel(a)
                          \/ HandlerStep(a) \/ IndexStep(a)
  \/ \E g \in Groups : PollGroup(g)

\* The runtime retries an interrupted handler until it completes and
\* delivers every send; nobody is obliged to ask, to look or to decide.
Fairness == \A a \in Approvals : /\ WF_vars(HandlerStep(a))
                                 /\ WF_vars(PendingAdd(a) \/ PendingRemove(a))
                                 /\ WF_vars(DecidedAdd(a))

Spec == Init /\ [][Next]_vars /\ Fairness

-----------------------------------------------------------------------------
(* Properties.                                                              *)

TypeOK ==
  /\ status \in [Approvals -> Statuses]
  /\ approverGroup \in [Approvals -> Groups]
  /\ decidedAt \in [Approvals -> 0..Cardinality(Approvals)]
  /\ pc \in [Approvals -> {"idle", "requested", "decided", "woken", "unlisted"}]
  /\ awakeable \in [Approvals -> {"open"} \cup Decided]
  /\ inbox \in [Approvals -> Seq(Calls)]
  /\ toPending \in [Approvals -> Seq({"add", "remove"})]
  /\ toDecided \in [Approvals -> Seq([approvalId : Approvals, outcome : Decided])]
  /\ pending \in [Groups -> SUBSET Approvals]
  /\ entries \in [Groups -> Seq([approvalId : Approvals, outcome : Decided])]
  /\ \A g \in Groups : Len(entries[g]) <= MaxDecided
  /\ shown \in SUBSET Approvals
  /\ acked \in [Approvals -> Seq(RespondCalls)]
  /\ arrived \in [Groups -> Seq(Approvals)]

\* A waiter is woken with the decision the record already holds: whoever is
\* woken with "approved" and asks verifyToken finds the status approved, and
\* goes on finding it (approval.ts sets the status before it resolves the
\* awakeable, and nothing writes it again).
WakeAgreesWithRecord ==
  \A a \in Approvals : awakeable[a] # "open" => status[a] = awakeable[a]

\* Of all the approvers that click, and cancel, at most one respond is told
\* ok, and what it decided is what the record says and the waiter was told.
AckedDecisionStands ==
  \A a \in Approvals :
    /\ Len(acked[a]) <= 1
    /\ \A i \in DOMAIN acked[a] : /\ status[a] = Outcome[acked[a][i]]
                                  /\ awakeable[a] = status[a]

\* Where a handler stands, and what it has already made true: this is what
\* makes the two properties above inductive.
HandlerInv ==
  \A a \in Approvals :
    /\ decidedAt[a] # 0 <=> status[a] \in Decided
    /\ pc[a] = "requested" => status[a] = "pending"
    /\ pc[a] \in {"decided", "woken", "unlisted"} =>
         /\ inbox[a] # <<>>
         /\ status[a] = Outcome[Head(inbox[a])]
         /\ acked[a] = <<>>
    /\ status[a] \notin Decided => awakeable[a] = "open" /\ acked[a] = <<>>
    /\ status[a] \in Decided /\ pc[a] # "decided" => awakeable[a] = status[a]
    /\ pc[a] = "decided" => awakeable[a] = "open"

\* Once the sends of an approval have arrived and no handler of it runs, the
\* pending index of its group lists it exactly if it is still pending; no
\* other group ever lists it.
Settled(a) == pc[a] = "idle" /\ toPending[a] = <<>>
PendingIndexSettles ==
  \A a \in Approvals, g \in Groups :
    /\ a \in pending[g] => g = approverGroup[a] /\ status[a] # "none"
    /\ Settled(a) /\ g = approverGroup[a] => (a \in pending[g] <=> status[a] = "pending")

\* The history of a group names an approval at most once, in the group that
\* was asked, and with the outcome the record has; and what it names are the
\* rows that reached it last, in the order they came: a full list loses its
\* oldest row and never the newcomer (decided-index.ts:18-22).
KeepsNewest(g) ==
  LET dropped == Len(arrived[g]) - Len(entries[g]) IN
    /\ dropped >= 0 /\ (dropped > 0 => Len(entries[g]) = MaxDecided)
    /\ \A i \in DOMAIN entries[g] : entries[g][i].approvalId = arrived[g][i + dropped]
AuditTrailFaithful ==
  /\ \A g \in Groups : \A i \in DOMAIN entries[g] :
       /\ approverGroup[entries[g][i].approvalId] = g
       /\ status[entries[g][i].approvalId] = entries[g][i].outcome
       /\ \A j \in DOMAIN entries[g] :
            entries[g][i].approvalId = entries[g][j].approvalId => i = j
  /\ \A g \in Groups : KeepsNewest(g)

\* A decided approval stays as it was decided: status, group and time of
\* decision, whatever is clicked or cancelled later.
DecisionIsFinal ==
  [][\A a \in Approvals : status[a] \in Decided =>
       /\ status'[a] = status[a]
       /\ approverGroup'[a] = approverGroup[a]
       /\ decidedAt'[a] = decidedAt[a]]_vars

\* The approval service implements ApprovalVerdict: the record is the
\* verdict and the awakeable what the waiter was told.
Verdict == INSTANCE ApprovalVerdict WITH verdict <- status, woken <- awakeable
Verdicts == Verdict!Spec

\* Whatever was clicked and in whatever order the sends arrived, the indexes
\* end up telling the truth for good: exactly the undecided requests are
\* listed to their group, and every decision is in its group's history unless
\* MaxDecided rows that came after its own have pushed it out.  A send that is
\* lost, and a full list that drops anything but its oldest row, break this.
PushedOut(a) ==
  LET came == arrived[approverGroup[a]] IN
    \E n \in DOMAIN came : came[n] = a /\ n + MaxDecided <= Len(came)
IndexesCatchUp ==
  <>[](\A a \in Approvals :
         LET list == entries[approverGroup[a]] IN
           /\ a \in pending[approverGroup[a]] <=> status[a] = "pending"
           /\ status[a] \in Decided =>
                PushedOut(a) \/ \E i \in DOMAIN list : list[i].approvalId = a)
=============================================================================
