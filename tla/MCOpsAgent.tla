------------------------------ MODULE MCOpsAgent ------------------------------
(* OpsAgent with one call of each kind the middlewares tell apart.           *)
EXTENDS OpsAgent

BigCredit == [toolName |-> "apply_credit", params |-> [customer_id |-> 1, amount_cents |-> 1001]]
PhoneSearch == [toolName |-> "semantic_search", params |-> [query |-> 1]]
BigCreditToPhone ==
  [toolName |-> "apply_credit", params |-> [customer_id |-> 1, amount_cents |-> 2000, reason |-> 1]]

GuardedCalls == {BigCredit, PhoneSearch, BigCreditToPhone}
FlaggedCalls == {PhoneSearch, BigCreditToPhone}
BigCredits == {BigCredit}
=============================================================================
