SPECIFICATION NfcSpec
CONSTANTS
    MaxEdits = 3
    MaxChanges = 0
    MaxClears = 1
    MaxCrashes = 0
    MaxBad = 0
    CommitInsideSave = FALSE
    ReplaceUnsaved = FALSE
    ClearDuringOp = FALSE
    ClearBeforeStop = TRUE
PROPERTY NoBlindWrite
PROPERTY DurableEject
PROPERTY EjectFollows
CHECK_DEADLOCK FALSE
