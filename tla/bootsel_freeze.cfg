SPECIFICATION FairSpec
CONSTANTS
  MaxSpins = 4
PROPERTIES
  ParkEnds
CHECK_DEADLOCK FALSE
