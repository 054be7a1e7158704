------------------------------- MODULE Policies -------------------------------
(***************************************************************************)
(* services/gateway/src/policies.ts: which calls need a human, and the     *)
(* fingerprint an approval is tied to.                                     *)
(*                                                                         *)
(* A call is [toolName, params]; params is a function from parameter names *)
(* to values.  A hash is abstracted to what is hashed (no collisions).     *)
(***************************************************************************)
EXTENDS Naturals, Functions

\* The approver groups of the policy table and of the guardrail.
FinanceLeads == "finance-leads"
OpsManagers == "ops-managers"

AmountCents(params) == IF "amount_cents" \in DOMAIN params THEN params.amount_cents ELSE 0

\* policies[tool].condition(params), for the tools that have a policy.
NeedsHuman(call) ==
  /\ call.toolName = "apply_credit"
  /\ AmountCents(call.params) > 1000

\* JSON.stringify(object, names): an array replacer is a list of the property
\* names that are serialised, of the object and of every object inside it.
Keep(object, names) == Restrict(object, DOMAIN object \cap names)

\* fingerprint(toolName, params): the list is the names of the parameters, so
\* that of { toolName, params } only a parameter's namesake survives.
Fingerprint(call) ==
  LET names == DOMAIN call.params
  IN  Keep([toolName |-> call.toolName, params |-> Keep(call.params, names)], names)
=============================================================================
