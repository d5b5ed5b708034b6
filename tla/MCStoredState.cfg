SPECIFICATION StateSpec
CONSTANTS
  Block <- MCBlock
  Account <- MCAccount
  Generator <- MCGenerator
  Txs <- MCTxs
  None = "none"
  MaxHeight = 6
INVARIANT TypeOK
INVARIANT ConfirmedIsMinimum
INVARIANT IncludedMatches
INVARIANT MoneyConserved
INVARIANT ValidateFresh
PROPERTY ImplementsLedger
