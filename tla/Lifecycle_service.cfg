SPECIFICATION FairSpec
CONSTANTS
  w1 = w1  w2 = w2
  Workers = {w1, w2}
  MayFail = {"event", "wq", "workers", "dbus", "hw", "gloop", "nm"}
  SigintAt = {"event", "wq", "dbus", "hw", "gloop", "nm", "audio",
              "start", "loop", "callback", "spin"}
  Interrupted = {w1, "listener"}
  MaxPushes = 1
  MaxHandlers = 2
INVARIANTS
  EventMeansStop
  CleanupIsRight
  NoCrashInService
PROPERTIES
  SigintEnds
CHECK_DEADLOCK FALSE
