SPECIFICATION FairSpec
CONSTANTS
    Ids = {i1}
    Clickers = {k1, k2}
    Consumer = consumer
    Sweeper = sweeper
    Boot = boot
    NoRequest = none
    MaxGen = 1
    MaxClicks = 2
    MaxReadies = 1
INVARIANT
    RepliedOnce
PROPERTY
    RequestSettles
CHECK_DEADLOCK FALSE
