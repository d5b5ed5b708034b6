SPECIFICATION FairSpec
CONSTANTS
  self = self
  p = p
  q = q
  selfAt = selfAt
  pAt = pAt
  None = None
  Node <- MCNode
  Self = self
  Listen <- MCListen
  Declared <- MCDeclared
  KnownAtStart <- MCKnownAtStart
  MaxConnections = 2
  MaxConn = 2
  Asked = {pAt}
  Told = {pAt}
  MaxBlacklisted = 1
CHECK_DEADLOCK FALSE
INVARIANT OneEntryPerNode RightHandshake
PROPERTY EndedAreRemoved AttemptsEnd
