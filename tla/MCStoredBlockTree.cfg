SPECIFICATION Spec
CONSTANTS
  Block <- MCBlock
  Genesis = "g"
  Ref <- MCRef
  BlockScore <- MCBlockScore
  MaxRollback = 2
  MaxCrashes = 2
  None = "none"
INVARIANT TreeConsistent
INVARIANT BestIsMax
INVARIANT LookForwardIsPath
PROPERTY ScoreNeverDrops
PROPERTY RollbackBounded
