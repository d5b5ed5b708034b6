SPECIFICATION Spec
CONSTANTS
  Block <- MCBlock
  None = "none"
  Genesis = "g"
  Ref <- MCRef
  Depth <- MCDepth
  BlockScore <- MCBlockScore
  Account <- MCAccount
  Generator <- MCGenerator
  Txs <- MCTxs
  MaxHeight = 3
  Faults = FALSE
INVARIANT LastBlockIsTop
