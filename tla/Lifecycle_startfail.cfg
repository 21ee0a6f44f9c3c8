SPECIFICATION FairSpec
CONSTANTS
  w1 = w1  w2 = w2
  Workers = {w1, w2}
  MayFail = {"dbus"}
  SigintAt = {}
  Interrupted = {}
  MaxPushes = 2
  MaxHandlers = 1
PROPERTIES
  FailedStartEnds
CHECK_DEADLOCK FALSE
