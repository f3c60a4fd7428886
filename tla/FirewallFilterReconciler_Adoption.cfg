SPECIFICATION Spec
CONSTANTS
  Defaults  <- MCDefaults
  Canonical <- MCCanonical
  Targets   <- OneRouter
  StartRows <- HandOnly
  HandRows  <- HandRowSet
  Counters  <- NoCounters
  Selectors <- MCSelectors
  Menus     <- OneMenu
  Seniority <- Sole
  Configs   <- OneConfig
  MenuSpecs <- AdoptionSpecs
  ConfValues <- AdoptionConfs
  Nil       = Nil
  K1        = K1
  K2        = K2
  MaxEdits  = 1
  MaxFaults = 1
  MaxUser   = 3
  MaxConf   = 1
SYMMETRY CredSymmetry
INVARIANTS TypeOK Authorised
PROPERTIES FirstPruneApproved PrunesByAuthority
CHECK_DEADLOCK FALSE
