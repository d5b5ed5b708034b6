SPECIFICATION ConnectionSpec
CONSTANTS
  Msg <- MCMsg
  Corrupt <- MCCorrupt
  Reply = {"r", "s"}
  HandshakeBytes <- MCHandshakeBytes
  Base = 4
  HeaderSize = 2
  MAX_PACKET_LEN = 3
  MaxSent = 2
  MaxBox = 2
CHECK_DEADLOCK FALSE
INVARIANT InOrder
INVARIANT NoHole
PROPERTY AllDelivered EndIsTold
