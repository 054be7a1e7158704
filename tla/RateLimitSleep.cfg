SPECIFICATION Spec
CONSTANTS
  Unit = 2
  Callers = {c1, c2}
  Tools <- OneTool
  ToolOf <- SameTool
  GlobalLimit = 1
  TenantLimit = 2
  MaxPerMinute = 2
  Declared <- OnePerMinute
  Edits <- Raise
  MaxChecks = 4
INVARIANTS
  UncrowdedCallPasses
PROPERTIES
  EveryCallDispatched
