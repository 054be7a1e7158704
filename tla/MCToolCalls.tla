------------------------------ MODULE MCToolCalls ------------------------------
(* ToolCalls with two tools of customer-svc; apply_credit has the retry       *)
(* policy, and credit is a call that BUGGY_MODE rejects.                      *)
EXTENDS ToolCalls

CONSTANTS credit, outreach

TheCalls == {credit, outreach}
TwoTools == <<"apply_credit", "customer_outreach">>
CreditOrOutreach == [c \in TheCalls |-> IF c = credit THEN "apply_credit" ELSE "customer_outreach"]
=============================================================================
