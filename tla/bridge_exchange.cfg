SPECIFICATION FairSpec
CONSTANTS
  MaxLine = 2
  MaxSession = 6
  Chunks = 2
INVARIANTS
  NotWedged
  LinesWhole
  NoReplyCrosses
PROPERTIES
  ImplementsExchange
  Answered
CHECK_DEADLOCK FALSE
