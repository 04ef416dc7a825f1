CONSTANTS
    RANGES = 3
    PENDING_MAX = 2
    MAX_DELAY = 2
    IMMEDIATE = FALSE
    INT64_MAX = 4
    MaxPn = 7
    MaxTime = 3
SPECIFICATION Spec
INVARIANTS LargestIsNew
CHECK_DEADLOCK FALSE
PROPERTY ImplementsReceiver
