SPECIFICATION Spec
CONSTANTS
  Account = {"a", "b", "c"}
  Balance <- MCBalance
  Delays = {1, 4, 5, 6, 20}
  AvgDelay = 5
  AvgBlockTimeDepth = 3
  LongMax = 32767
  NxtHits = {0, 29484, 65535}
  ReTarget = 3
  MinBalance = 1
  MaxBalance = 1000
  GenesisBalance = 500
  MinBlockTime = 60
  MaxBlockTime = 300
  TargetBytes = 268435455
  QoraHits = {0, 6000000, 60000000}
  MaxHeight = 6
INVARIANT GeneratedIsValid ScheduledIsEarliest RetargetsTheRightWay
CHECK_DEADLOCK FALSE
