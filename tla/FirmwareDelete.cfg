SPECIFICATION AllSpec
CONSTANTS
  MaxFleet = 1
  Handlers = {h1}
  Versions = {v0}
  FactoryVersion = v0
  IsAGV = FALSE
  Releases = {"r1", "r2", "r3"}
  VersionOf <- VersionsAsked
  KeyOf <- KeysWritten
  Tabs = {1, 2}
  Calls <- CallsMade
  MaxIssue = 2
  MaxLost = 1
  MaxDeployments = 2
  MaxQueue = 1
  MaxDeletes = 1
INVARIANT DeployedKeepsBinary
CHECK_DEADLOCK FALSE
