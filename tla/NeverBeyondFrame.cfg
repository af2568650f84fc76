CONSTANTS
  BYTE = 8
  REG_HOLDING_START = 1
  REG_HOLDING_NREGS = 2
  REG_INPUT_START = 9
  REG_INPUT_NREGS = 2
  READ_REGCNT_MAX = 2
  WRITE_MUL_REGCNT_MAX = 2
  READWRITE_WRITE_MAX = 2
  READ_COILCNT_MAX = 16
  WRITE_MUL_COILCNT_MAX = 12
  MB_PDU_SIZE_MAX = 10
  StaleWords = {0, 1}
  usMBSlaveIDLen = 0
  Connections = {c1}
  NoConnection = none
  Frames <- MixedFrames
  MaxRequests = 2
  MB_TCP_BUF_SIZE = 17
  LISTEN_BACKLOG = 1
  SEND_RETRIES = 2
  AcceptMayFail = FALSE
  SendMayFail = FALSE
CHECK_DEADLOCK FALSE
SPECIFICATION Spec
INVARIANT NeverBeyondFrame
