SPECIFICATION KSpec
CONSTANTS
  keyboard = keyboard
  gamingMouse = gamingMouse
  combo = combo
  pad = pad
  MaxConn = 2
  Peer = {keyboard, gamingMouse, pad}
  Traits <- MCTraits
  Native = FALSE
  MaxGeneration = 3
  Chosen = {"keyboard"}
  MaxChanges = 1
INVARIANTS
  RolesSound
  NoGhost
  ModeObeyed
  ConsoleOwned
CHECK_DEADLOCK FALSE
