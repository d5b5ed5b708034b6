SPECIFICATION FairSpec
CONSTANTS
  Tx <- MCTx
  Account <- MCAccount
  Start <- MCStart
  Threads = 2
  SizeLimit = 1
  MaxTransactionsPerBlock = 1
  MaxTimeForUnconfirmed = 1
  MaxTxAndBlockDiff = 2
  MaxBlocks = 2
CHECK_DEADLOCK FALSE
INVARIANT ChainIsSound LimitHolds
PROPERTY SolventKept IncludedLeave
