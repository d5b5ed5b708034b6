SPECIFICATION ScoredSpec
CONSTANTS
  Block <- MCBlock
  None = None
  Genesis = "g"
  Ref <- MCRef
  BlockScore <- MCBlockScore
  Peer = {"p", "q"}
  PeerChain <- MCFourBlockForks
  AnswerLength <- MCAnswerLength
  LocalChain <- MCThreeBlocks
  Minable = {}
  Invalid = {}
  ForkMaxLength = 2
  MinForkChunks = 2
  RetriesBeforeBlacklisted = 2
  OperationRetries = 3
  PinToInitialPeer = TRUE
  ForkResolveQuorumSize = 1
  MaxRollback = 4
  MaxBox = 2
  MaxTicks = 0
  MaxLost = 0
  MaxSessions = 0
  Overtakes = FALSE
CHECK_DEADLOCK FALSE
PROPERTY CanonicalChain
