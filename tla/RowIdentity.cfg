SPECIFICATION FairSpec
CONSTANTS
  Defaults   <- MCDefaults
  Canonical  <- MCCanonical
  Resources  = {"r1", "r2"}
  Idents     = {"a", "b", ""}
  Issued     = {"r1"}
  HandIdents = {"a", ""}
  StartRows  <- MCStarts
  MaxActs    = 3
  MaxEdits   = 1
  MaxFaults  = 1
INVARIANTS TypeOK UniqueIdentity NothingLeft NoneStranded
PROPERTIES OthersRowsKept RevokedFirst RowComesBack DeletionEnds
CHECK_DEADLOCK FALSE
