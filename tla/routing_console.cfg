SPECIFICATION FairSpec
CONSTANTS
  Key <- MCPadAndLink
  NoKey = NoKey
  CompanionLink <- MCLink
  GroupOf <- MCGroupOf
  MaxSources = 2
  MaxId = 3
  MaxRequest = 2
  MaxReset = 0
INVARIANTS
  ConsoleShowsOwner
  PadsReleased
  SelectionHonoured
PROPERTIES
  IdNeverReused
  SelectionDrives
CHECK_DEADLOCK FALSE
