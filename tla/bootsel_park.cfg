SPECIFICATION FairSpec
CONSTANTS
  MaxSpins = 4
INVARIANTS
  KTypeOK
  FlashNeverPulled
PROPERTIES
  DeadlineEndsWait
  RoundsClose
CHECK_DEADLOCK FALSE
