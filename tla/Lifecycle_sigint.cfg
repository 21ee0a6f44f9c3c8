SPECIFICATION FairSpec
CONSTANTS
  w1 = w1  w2 = w2
  Workers = {w1, w2}
  MayFail = {}
  SigintAt = {"callback"}
  Interrupted = {}
  MaxPushes = 2
  MaxHandlers = 1
PROPERTIES
  SigintShutsDown
CHECK_DEADLOCK FALSE
