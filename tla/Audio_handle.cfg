SPECIFICATION FairSpec
CONSTANTS
  w1 = w1  w2 = w2
  Workers = {w1, w2}
  Base = 20
  Space = 122
  Word = 122
  Files <- MCFiles
  Accepted <- MCAccepted
  MaxHandles = 3
  MaxInits = 2
  MaxPlays = 1
  MaxOverlaps = 1
  Ring = 2
  Chunk = 2
INVARIANTS
  NothingLeaks
  HandleValid
  ReadsInside
PROPERTIES
  PlaybackEnds
CHECK_DEADLOCK FALSE
