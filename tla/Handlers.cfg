CONSTANTS
  MB_FUNC_HANDLERS_MAX = 3
  Codes = {0, 3, 17, 65}
  Handlers <- SomeHandlers
  NULL = NULL
  read = read
  own = own
  eMBFuncReportSlaveID = report
  BuiltIn <- TwoBuiltIn
  MB_FUNC_OTHER_REP_SLAVEID_BUF = 4
  AdditionalLens = {0, 1, 2, 4}
  MaxCalls = 4
CHECK_DEADLOCK FALSE
SPECIFICATION FairSpec
INVARIANTS TypeOK RegisteredIsServed CallsTheHandler ReportIsWhole
PROPERTY DispatchEnds
