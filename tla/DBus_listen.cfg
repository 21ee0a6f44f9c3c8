SPECIFICATION FairSpec
CONSTANTS
  w1 = w1  w2 = w2
  key = key  text = text  number = number
  NameAcquired = NameAcquired
  MaxEntries = 2
  Workers = {w1}
  Messages = {"call", "signal", "reply"}
  Kind <- MCKind
  Cmd <- MCCmd
  SentCmd = 2
  Report <- MCReport
  MaxReports = 1
  MaxFaults = 1
INVARIANTS
  OnlyStraysSwallowed
  AnswerTellsTruth
  DecodedAsSent
  MessageLifetime
PROPERTIES
  MessagesServed
  ListenerEnds
CHECK_DEADLOCK FALSE
