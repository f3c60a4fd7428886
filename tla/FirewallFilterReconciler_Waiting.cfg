SPECIFICATION Spec
CONSTANTS
  Defaults  <- MCDefaults
  Canonical <- MCCanonical
  Targets   <- OneRouter
  StartRows <- HandMade
  HandRows  <- None
  Counters  <- NoCounters
  Selectors <- MCSelectors
  Menus     <- TwoMenus
  Seniority <- ByName
  Configs   <- TwoConfigs
  MenuSpecs <- WaitingSpecs
  ConfValues <- LiveConfs
  Nil       = Nil
  K1        = K1
  K2        = K2
  MaxEdits  = 0
  MaxFaults = 0
  MaxUser   = 4
  MaxConf   = 1
INVARIANTS WaitingObjectKeepsOut
CHECK_DEADLOCK FALSE
