SPECIFICATION Spec
CONSTANTS
  credit = credit
  outreach = outreach
  Calls <- TheCalls
  Owned <- TwoTools
  ToolOf <- CreditOrOutreach
  Broken = {credit}
  Retried = {"apply_credit"}
  MaxAttempts = 3
  RegisterAttempts = 2
  MAX = 3
  MaxFaults = 3
INVARIANTS
  TypeOK
  AuditLogComplete
PROPERTIES
  EveryCallEnds
  RegistersOnceDeployed
\* Once every call is answered and every tool registered nothing is left to do.
CHECK_DEADLOCK FALSE
