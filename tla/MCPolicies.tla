------------------------------ MODULE MCPolicies ------------------------------
(* Every pair of calls over two tools, two parameter names and two values.   *)
EXTENDS Policies, TLC

Tools == {"apply_credit", "customer_lookup"}
Params == UNION {[names -> {500, 2000}] : names \in SUBSET {"amount_cents", "customer_id"}}
Calls == [toolName : Tools, params : Params]

VARIABLES approved, retried

Init == approved \in Calls /\ retried \in Calls
Next == UNCHANGED <<approved, retried>>
Spec == Init /\ [][Next]_<<approved, retried>>

\* "Used to bind an approval token to exactly the call it was issued for"
\* (policies.ts:37): an approval given for one call does not fit another.
FingerprintBindsCall == approved # retried => Fingerprint(approved) # Fingerprint(retried)
=============================================================================
