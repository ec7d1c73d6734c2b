SPECIFICATION Spec
CONSTANTS
  N = 5
  Threshold = 50
  Strategy = "full"
  Faulty = {5}
  MayRollback = "never"
  MayView = TRUE
  MaxDup = 0
  MaxCrash = 0
INVARIANTS CountersMatchRows CompletedIsComplete
