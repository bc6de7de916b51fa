SPECIFICATION Spec
CONSTANTS
  MaxHistory = 3  MaxTiming = 5
  MaxReconciles = 6  MaxEdits = 2  MaxFaults = 1
INVARIANTS TypeOK OneStory CompletedMeansCleared
PROPERTY NothingUndone
CHECK_DEADLOCK FALSE
