SPECIFICATION FairSpec
CONSTANTS
  w1 = w1  w2 = w2  s1 = s1  s2 = s2  monitor = monitor
  Workers = {w1, w2}
  Samplers = {s1, s2}
  Monitor = monitor
  NoThread = NoThread
  MaxCommands = 3
INVARIANTS
  EnabledHasSampler
  NoTornReport
PROPERTIES
  DisableStops
