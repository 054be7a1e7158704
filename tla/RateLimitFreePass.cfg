SPECIFICATION Spec
CONSTANTS
  Unit = 5
  Callers = {c1, c2, c3}
  Tools <- OneTool
  ToolOf <- SameTool
  GlobalLimit = 2
  TenantLimit = 2
  MaxPerMinute = 1
  Declared <- OnePerMinute
  Edits <- NoEdits
  MaxChecks = 3
INVARIANTS
  NoFreePass
