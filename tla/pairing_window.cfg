SPECIFICATION FairSpec
CONSTANTS
  first = first
  second = second
  Peers <- MCPeers
  None = None
  MaxAttempts = 1
  RoleChoices <- MCRoles
  MaxInputs = 3
  WipeInWindow = FALSE
INVARIANTS
  LockHolds
  GrantAttended
PROPERTIES
  LockEndsByHand
  DeferralEnds
  WindowSearches
  OperationConcludes
CHECK_DEADLOCK FALSE
