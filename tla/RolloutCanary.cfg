SPECIFICATION Spec
CONSTANTS
  N = 3
  Threshold = 50
  Strategy = "canary"
  Faulty = {2, 3}
  MayRollback = "never"
  MayView = TRUE
  MaxDup = 0
  MaxCrash = 1
INVARIANTS CountersNeverAhead BreachStopsRollout Inv
PROPERTIES PhaseMonotone UpdatesInStages
