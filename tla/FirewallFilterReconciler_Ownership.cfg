SPECIFICATION Spec
CONSTANTS
  Defaults  <- MCDefaults
  Canonical <- MCCanonical
  Targets   <- OneRouter
  StartRows <- Mixed
  HandRows  <- None
  Counters  <- NoCounters
  Selectors <- MCSelectors
  Menus     <- TwoMenus
  Seniority <- ByName
  Configs   <- TwoConfigs
  MenuSpecs <- OwnershipSpecs
  ConfValues <- OwnershipConfs
  Nil       = Nil
  K1        = K1
  K2        = K2
  MaxEdits  = 0
  MaxFaults = 1
  MaxUser   = 4
  MaxConf   = 0
INVARIANT SoleWriter
PROPERTIES DeleteLeavesNothing
CHECK_DEADLOCK FALSE
