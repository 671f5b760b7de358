SPECIFICATION FairSpec
CONSTANTS
  None = None
  Malformed = Malformed
  allowed = allowed
  other = other
  literal = literal
  Url <- MCUrl
  LiteralHost = {literal}
  Address <- MCAddress
  Policy <- MCPolicy
  HostList = {{allowed}}
  Status = {200, 206, 302, 404}
  DeclaredLength <- MCDeclaredLength
  MaxBytes = 3
  MaxChunk = 2
  Timeout = 2
  Overall = 5
  MaxLookup = 6
  MaxHops = 2
  MaxCalls = 2
INVARIANTS
  DeadlineHolds
  ConnectsWhereJudged
  ConnectionsAreClosed

PROPERTIES
  DownloadEnds

CHECK_DEADLOCK FALSE
