--------------------------- MODULE ApprovalVerdict ---------------------------
(***************************************************************************)
(* What the approval service promises to everybody who waits for a human:  *)
(* an approval that was opened is decided at most once, the decision never *)
(* changes, and the waiting call is woken with exactly that decision.      *)
(*                                                                         *)
(* This is the abstract specification.  ApprovalService implements it (the *)
(* property Verdicts there) with its handlers, queues and indexes; OpsAgent*)
(* relies on nothing but what is written here.                             *)
(***************************************************************************)
CONSTANT Approvals

Decided == {"approved", "rejected", "cancelled"}

VARIABLES verdict, \* verdict[a]: "none", "pending", or the decision
          woken    \* woken[a]: what the waiter of a was told, "open" before

vars == <<verdict, woken>>

Init == /\ verdict = [a \in Approvals |-> "none"]
        /\ woken = [a \in Approvals |-> "open"]

Open(a) == /\ verdict[a] = "none"
           /\ verdict' = [verdict EXCEPT ![a] = "pending"]
           /\ UNCHANGED woken

Decide(a, d) == /\ verdict[a] = "pending"
                /\ verdict' = [verdict EXCEPT ![a] = d]
                /\ UNCHANGED woken

Wake(a) == /\ verdict[a] \in Decided
           /\ woken[a] = "open"
           /\ woken' = [woken EXCEPT ![a] = verdict[a]]
           /\ UNCHANGED verdict

Next == \E a \in Approvals : \/ Open(a)
                             \/ \E d \in Decided : Decide(a, d)
                             \/ Wake(a)

\* A decision is never made and then kept from the call that waits for it.
Spec == Init /\ [][Next]_vars /\ \A a \in Approvals : WF_vars(Wake(a))
=============================================================================
