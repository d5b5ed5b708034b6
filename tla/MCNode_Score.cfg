SPECIFICATION Spec
CONSTANTS
  Block <- MCBlock
  None = None
  Genesis = "g"
  Ref <- MCRef
  BlockScore <- MCBlockScore
  Peer = {"p", "q"}
  PeerChain <- MCTwoForks
  AnswerLength <- MCShortAnswers
  LocalChain <- MCLocalChain
  Minable = {"m1"}
  Invalid = {}
  ForkMaxLength = 2
  MinForkChunks = 2
  RetriesBeforeBlacklisted = 2
  OperationRetries = 3
  PinToInitialPeer = TRUE
  ForkResolveQuorumSize = 1
  MaxRollback = 3
  MaxBox = 2
  MaxTicks = 0
  MaxLost = 0
  MaxSessions = 2
CHECK_DEADLOCK FALSE
PROPERTY ScoreKept
