SPECIFICATION Spec
CONSTANTS
    Ids = {i1}
    Clickers = {}
    Consumer = consumer
    Sweeper = sweeper
    Boot = boot
    NoRequest = none
    MaxGen = 2
    MaxClicks = 0
    MaxReadies = 1
INVARIANT
    WaitingIsKept
CHECK_DEADLOCK FALSE
