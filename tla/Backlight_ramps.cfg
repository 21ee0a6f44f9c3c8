SPECIFICATION FairSpec
CONSTANTS
  w1 = w1  w2 = w2  monitor = monitor
  Workers = {w1, w2}
  Monitor = monitor
  Luxes <- MCLuxes
  LuxMax = 9
  PctMax = 4
  StepThresh = 2
  MaxCommands = 2
  MaxChanges = 1
  MaxFaults = 1
INVARIANTS
  RampInside
PROPERTIES
  Converges
  NoFlicker
  MonitorLetsGo
