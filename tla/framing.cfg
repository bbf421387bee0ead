SPECIFICATION FairSpec
CONSTANTS
  BlockSize = 2
  Base = 4
  Payload <- MCPayload
  ReadBufferSize = 3
  Limit = 3
  MaxMessages = 2
  MaxBlocks = 1
  MaxBuf = 2
INVARIANTS InStep ReceivedInOrder SoundStreamIsAccepted LimitIsExact
PROPERTY EverythingArrives
CHECK_DEADLOCK FALSE
