SPECIFICATION Spec
CONSTANTS
  Calls <- GuardedCalls
  Flagged <- FlaggedCalls
  Doubtful <- BigCredits
  MaxSteps = 2
  MaxApprovalRetries = 1
  MaxInvocations = 3
  None = None
INVARIANTS
  TypeOK
  GatedCallsRunApproved
  FlaggedCallsRunAppealed
  DecisionSpentOnce
  PendingRequestIsAwaited
  SessionComesToRest
  GrantedRetryAccepted
PROPERTIES
  OnlyHumansHoldUp
