SPECIFICATION Spec
CONSTANTS
  Block <- MCBlock
  None = None
  Genesis = "g"
  Ref <- MCRef
  BlockScore <- MCBlockScore
  Peer = {"p", "q"}
  PeerChain <- MCMinedFork
  AnswerLength <- MCLongAnswer
  LocalChain <- MCLocalChain
  Minable = {"m1"}
  Invalid = {"c3"}
  ForkMaxLength = 3
  MinForkChunks = 2
  RetriesBeforeBlacklisted = 2
  OperationRetries = 3
  PinToInitialPeer = FALSE
  ForkResolveQuorumSize = 1
  MaxRollback = 3
  MaxBox = 4
  MaxTicks = 1
  MaxLost = 1
  MaxSessions = 2
CHECK_DEADLOCK FALSE
INVARIANT TypeOK
PROPERTY ForkAttaches AuthorSentAll ForkBeatsChain
