CONSTANTS
  MB_SER_PDU_SIZE_MAX = 6
  Modes = {"RTU", "ASCII"}
  InitAddresses = {0, 1, 3}
  Frames <- AllFrames
  ReplyLengths = {2}
  MB_ADDRESS_BROADCAST = 0
  MB_ADDRESS_MIN = 1
  MB_ADDRESS_MAX = 2
  MaxFrames = 2
  MaxMishaps <- MishapsByMode
CHECK_DEADLOCK FALSE
SPECIFICATION FairSpec
INVARIANTS TypeOK AssertionsFailOnly
PROPERTIES RepliesAreWhole ImplementsService FramesAreServed ListensAgain
