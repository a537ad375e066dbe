SPECIFICATION StoreSpec
CONSTANTS
    MaxEdits = 4
    MaxChanges = 1
    MaxClears = 0
    MaxCrashes = 0
    MaxBad = 0
    CommitInsideSave = FALSE
    ReplaceUnsaved = TRUE
INVARIANT SavedSurvives
CHECK_DEADLOCK FALSE
