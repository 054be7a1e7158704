SPECIFICATION Spec
CONSTANTS
  Services = {"restate-server", "gateway"}
  First = "restate-server"
  Deployable = {"gateway"}
  Contained = {"restate-server"}
  BootDelay = 1
  DeployDelay = 1
  KillDelay = 1
  RestartDelay = 0
  QuitDelay = 0
  MaxKeys = 2
  MaxCrashes = 1
INVARIANT
  QuitLeavesNoChild
CHECK_DEADLOCK FALSE
