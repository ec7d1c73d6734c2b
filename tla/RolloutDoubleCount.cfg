SPECIFICATION Spec
CONSTANTS
  N = 2
  Threshold = 50
  Strategy = "canary"
  Faulty = {}
  MayRollback = "never"
  MayView = FALSE
  MaxDup = 1
  MaxCrash = 0
INVARIANTS CompletedMeansTerminal
