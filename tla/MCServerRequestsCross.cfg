SPECIFICATION Spec
CONSTANTS
    Ids = {i1}
    Clickers = {k1}
    Consumer = consumer
    Sweeper = sweeper
    Boot = boot
    NoRequest = none
    MaxGen = 2
    MaxClicks = 0
    MaxReadies = 0
INVARIANT
    NothingForgotten
CHECK_DEADLOCK FALSE
