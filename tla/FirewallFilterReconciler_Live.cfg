SPECIFICATION FairSpec
CONSTANTS
  Defaults  <- MCDefaults
  Canonical <- MCCanonical
  Targets   <- OneRouter
  StartRows <- HandMade
  HandRows  <- None
  Counters  <- MCCounters
  Selectors <- MCSelectors
  Menus     <- OneMenu
  Seniority <- Sole
  Configs   <- OneConfig
  MenuSpecs <- LiveSpecs
  ConfValues <- LiveConfs
  Nil       = Nil
  K1        = K1
  K2        = K2
  MaxEdits  = 0
  MaxFaults = 0
  MaxUser   = 3
  MaxConf   = 2
PROPERTIES ApprovalHonoured DeletionCompletes
CHECK_DEADLOCK FALSE
