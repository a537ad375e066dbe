SPECIFICATION Spec
CONSTANTS
  first = first
  second = second
  Peers <- MCPeers
  None = None
  MaxAttempts = 1
  RoleChoices <- MCRoles
  MaxInputs = 3
  WipeInWindow = TRUE
INVARIANTS
  GrantAttended
CHECK_DEADLOCK FALSE
