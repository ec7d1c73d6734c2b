SPECIFICATION AllSpec
CONSTANTS
  MaxFleet = 150
  Handlers = {h1, h2}
  Versions = {v0, v1}
  FactoryVersion = v0
  IsAGV = TRUE
  Releases = {"r1", "r2", "r3"}
  VersionOf <- VersionsAsked
  KeyOf <- KeysWritten
  Tabs = {1, 2}
  Calls <- CallsMade
  MaxIssue = 2
  MaxLost = 1
  MaxDeployments = 2
  MaxQueue = 1
  MaxDeletes = 1
INVARIANTS
  SplitIsSound QuietRobotIsFree Inv
  PartsTyped SessionSurvives StoresAgree 
PROPERTIES
  OnlyVerifiedFirmware KeepsAcceptingUpdates UpdatesTakeTurns
  OneTabNeverFails TabSettles RegistryHeals
CHECK_DEADLOCK FALSE
