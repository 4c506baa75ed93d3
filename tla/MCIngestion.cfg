\* Three messages, the scan ending after two; with all of them seen to the
\* system rests.
SPECIFICATION Spec
CONSTANTS
    Free = free
    ScanLimit = 2
    PageSize = 1
    MaxMessages = 3
    MaxSessions = 2
    MaxRestarts = 1
INVARIANTS
    HandedOnce
    ReplaySkipsNothing
CHECK_DEADLOCK FALSE
