SPECIFICATION SeqFairSpec
CONSTANTS
  Defaults   <- MCDefaults
  Canonical  <- MCCanonical
  Resources  = {"r1", "r2"}
  Idents     = {"a", "b"}
  Issued     = {}
  HandIdents = {"a"}
  StartRows  <- MCStarts
  Sequences  <- MCSequences
  RawID      <- MCRawID
  MaxActs    = 2
  MaxEdits   = 1
  MaxFaults  = 1
INVARIANT SeqTypeOK
PROPERTIES AppliedWhole SequenceSettles
