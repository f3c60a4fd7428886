SPECIFICATION FairSpec
CONSTANTS
  Defaults  <- MCDefaults
  Canonical <- MCCanonical
  Targets   <- R
  StartRows <- RetryStarts
  Goals     <- RetryGoals
  HandRows  <- None
  Counters  <- MCCounters
  MaxEdits  = 0
  MaxFaults = 3
  MaxID     = 20
INVARIANTS TypeOK Converged ListConverged
PROPERTIES NoDuplicateCreate Settles
