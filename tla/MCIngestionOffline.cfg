\* A replay that fails, then a live message.
SPECIFICATION Spec
CONSTANTS
    Free = free
    ScanLimit = 2
    PageSize = 2
    MaxMessages = 2
    MaxSessions = 1
    MaxRestarts = 0
INVARIANT
    OfflineIsReplayed
CHECK_DEADLOCK FALSE
