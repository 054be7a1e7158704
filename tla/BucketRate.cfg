SPECIFICATION Spec
CONSTANTS
  Unit = 6
  Requests <- Limits
  MaxCapacity = 4
  MaxRate = 4
  MaxClock = 14
INVARIANTS
  RateBound
  RateBudget
  WaitsAreTight
