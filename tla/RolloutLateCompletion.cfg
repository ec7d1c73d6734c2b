SPECIFICATION Spec
CONSTANTS
  N = 2
  Threshold = 50
  Strategy = "full"
  Faulty = {1, 2}
  MayRollback = "never"
  MayView = FALSE
  MaxDup = 0
  MaxCrash = 0
INVARIANTS CompletedWithoutBreach
