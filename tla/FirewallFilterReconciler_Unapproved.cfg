SPECIFICATION Spec
CONSTANTS
  Defaults  <- MCDefaults
  Canonical <- MCCanonical
  Targets   <- OneRouter
  StartRows <- HandMade
  HandRows  <- None
  Counters  <- NoCounters
  Selectors <- MCSelectors
  Menus     <- OneMenu
  Seniority <- Sole
  Configs   <- OneConfig
  MenuSpecs <- LiveSpecs
  ConfValues <- LiveConfs
  Nil       = Nil
  K1        = K1
  K2        = K2
  MaxEdits  = 0
  MaxFaults = 0
  MaxUser   = 3
  MaxConf   = 0
PROPERTIES DeletionApproved
CHECK_DEADLOCK FALSE
