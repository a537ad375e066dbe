SPECIFICATION ASpec
CONSTANTS
  pad = pad
  bridge = bridge
  keyboard = keyboard
  mouse = mouse
  Key = {pad, bridge, keyboard, mouse}
  NoKey = NoKey
  GroupOf <- MCGroupOf
  MaxSources = 3
  MaxId = 3
  MaxRequest = 2
  MaxReset = 1
INVARIANTS
  TypeOK
  RegistrySound
  AutoOwnerIsBest
PROPERTIES
  ExplicitIsFinal
  ClassKnowledgeKept
SYMMETRY MCSymmetry
CHECK_DEADLOCK FALSE
