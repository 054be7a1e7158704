SPECIFICATION Spec
CONSTANTS
  Approvals = {a1, a2}
  Groups = {g1, g2}
  MaxDecided = 1
  MaxQueue = 2
INVARIANTS
  HandlerInv
  WakeAgreesWithRecord
  AckedDecisionStands
  PendingIndexSettles
  AuditTrailFaithful
PROPERTIES
  DecisionIsFinal
  Verdicts
  IndexesCatchUp
