SPECIFICATION StateSpec
CONSTANTS
  Block <- MCBlock
  Account <- MCAccount
  Generator <- MCGenerator
  Txs <- MCTxs
  None = "none"
  MaxHeight = 6
INVARIANT ValidateSound
