SPECIFICATION Spec
CONSTANTS
  Defaults  <- CountedDefaults
  Canonical <- MCCanonical
  Targets   <- R
  StartRows <- EditStarts
  Goals     <- EditGoals
  HandRows  <- EditRows
  Counters  <- MCCounters
  MaxEdits  = 2
  MaxFaults = 0
  MaxID     = 5
INVARIANT Converged
PROPERTIES OthersKept
CHECK_DEADLOCK FALSE
