CONSTANTS
  FDs = {3, 4, 5, 6, 7}
  MaxSignals = 2
  EarlySignals = TRUE
  DriverOutcomes = {"loaded", "no device", "not bound", "no control", "no endpoint", "not opened"}
  NMTWrites = {1}
CHECK_DEADLOCK FALSE
SPECIFICATION FairSpec
INVARIANT TypeOK
PROPERTIES NMTStoppedBeforeCore OwnDescriptors StopCompletes RobotStarts
