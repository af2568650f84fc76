CONSTANTS
  FDs = {3, 4, 5, 6, 7}
  MaxSignals = 1
  EarlySignals = FALSE
  DriverOutcomes = {"loaded"}
  NMTWrites = {1}
CHECK_DEADLOCK FALSE
SPECIFICATION Spec
INVARIANT StopMessageStops
