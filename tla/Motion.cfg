CONSTANTS
  Commands = {1, 2}
  QueueMax = 2
CHECK_DEADLOCK FALSE
SPECIFICATION FairSpec
INVARIANTS TypeOK CommandIsKept
PROPERTIES CommandIsObeyed StopPrevails
