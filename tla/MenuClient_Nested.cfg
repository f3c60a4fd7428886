SPECIFICATION Spec
CONSTANTS
  Defaults  <- MCDefaults
  Canonical <- MCCanonical
  Targets   <- R
  StartRows <- EditStarts
  Goals     <- NestedGoals
  HandRows  <- None
  Counters  <- MCCounters
  MaxEdits  = 0
  MaxFaults = 0
  MaxID     = 20
PROPERTIES AmbiguityBeforeWrites
