SPECIFICATION FairSpec
CONSTANTS
  Workers = {w1, w2}
  Closers = {c1, c2}
  Nil = Nil
  Versions   <- MCVersions
  FirstVersions <- MCFirst
  Raws       <- MCRaws
  FieldType  <- MCFieldType
  ParsedBool <- MCParsedBool
  ParsedInt  <- MCParsedInt
  Hosts      <- MCHosts
  ClientAt   <- MCClientAt
  MaxUpgrades = 1
INVARIANTS TypeOK LocksHeld VersionCoherent OneClient
PROPERTIES ClosedForGood CallbackKeepsClient ActsAsRegistry ConfigureReturns CloseReturns
