SPECIFICATION FairSpec
CONSTANTS
  N = 2
  Threshold = 50
  Strategy = "canary"
  Faulty = {}
  MayRollback = "created"
  MayView = FALSE
  MaxDup = 0
  MaxCrash = 0
PROPERTIES RollbackReachesAll DeploymentEnds
