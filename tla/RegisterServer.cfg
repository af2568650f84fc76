CONSTANTS
  BYTE = 8
  REG_HOLDING_START = 1
  REG_HOLDING_NREGS = 3
  REG_INPUT_START = 9
  REG_INPUT_NREGS = 3
  READ_REGCNT_MAX = 3
  WRITE_MUL_REGCNT_MAX = 2
  READWRITE_WRITE_MAX = 3
  READ_COILCNT_MAX = 16
  WRITE_MUL_COILCNT_MAX = 12
  MB_PDU_SIZE_MAX = 16
  StaleWords = {0, 1}
  usMBSlaveIDLen = 2
  Requests <- AllRequests
SPECIFICATION Spec
INVARIANTS TypeOK ReplyFits
PROPERTIES WritesStayInWindow WritesAreWhole AnswerTellsTheWrite ReadsAreCurrent
