SPECIFICATION Spec
CONSTANTS
    Companions = {c1, c2}
    Slots = 1
    Wrap = 6
    MaxEdits = 2
    MaxCrashes = 1
    MaxInstalls = 2
INVARIANT SavedIsWritten
INVARIANT InstallResetOnce
PROPERTY SavesComplete
CHECK_DEADLOCK FALSE
