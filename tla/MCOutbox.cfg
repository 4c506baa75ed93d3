SPECIFICATION FairSpec
CONSTANTS
    Answers = {a1}
    Media = {m1}
    Unknown = {u1}
    NoKey = none
    MaxAttempts = 2
    BatchSize = 2
    MaxRows = 2
    MaxIds = 3
    MaxRestarts = 1
INVARIANTS
    AckedIsPosted
    PostedOnce
    FileKept
PROPERTY
    RowSettles
CHECK_DEADLOCK FALSE
