SPECIFICATION FairSpec
CONSTANTS
  w1 = w1  w2 = w2  p1 = p1  main = main
  c1 = c1  c2 = c2  r1 = r1  release = release
  Workers = {w1, w2}
  Producers = {p1}
  Main = main
  ClientWorks = {c1, c2}
  ReportWorks = {r1}
  ReleaseWork = release
  Invalid = {c2}
  NoWork = NoWork
  NoThread = NoThread
  MaxSpurious = 1
INVARIANTS
  TypeOK
  CountExact
  SingleOwner
  NoLostSignal
  NoSleeperAfterWakeup
  WorkersStay
  WorkersGoneBeforeFree
PROPERTIES
  DrainSound
  ImplementsPool
  QueuedWorkSettles
  ShutdownCompletes
