SPECIFICATION BVSpec
CONSTANTS
    Containers <- MCContainers
    Chunks <- MCChunks
    SLOT_COUNT = 2
    Findings <- MCFindings
    MaxChosen = 3
    MaxUnlocks = 2
INVARIANTS
    LockHolds
    ListIsOfThisFile
    DeliveredIsTheFile
    RightPasswordOpens
PROPERTIES
    UnlockComesBack
CHECK_DEADLOCK FALSE
