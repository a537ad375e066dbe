SPECIFICATION StoreSpec
CONSTANTS
    MaxEdits = 3
    MaxChanges = 1
    MaxClears = 1
    MaxCrashes = 1
    MaxBad = 1
    CommitInsideSave = FALSE
    ReplaceUnsaved = FALSE
INVARIANT PriorSurvives
INVARIANT SavedSurvives
INVARIANT ClearedStays
PROPERTY SavesComplete
CHECK_DEADLOCK FALSE
