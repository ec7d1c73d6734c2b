SPECIFICATION Spec
CONSTANTS
  N = 3
  Threshold = 50
  Strategy = "canary"
  Faulty = {1}
  MayRollback = "never"
  MayView = FALSE
  MaxDup = 0
  MaxCrash = 0
INVARIANTS RollbackOnlyOnBreach
