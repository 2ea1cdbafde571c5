SPECIFICATION EntrySpec
CONSTANTS
    MaxPresses = 2
    MaxEdits = 1
INVARIANTS
    UploadCanBeRetried
CHECK_DEADLOCK FALSE
