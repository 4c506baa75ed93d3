SPECIFICATION FairSpec
CONSTANTS
    Tasks = {t1}
    Owners = {o1}
    Monitor = monitor
    Consumer = consumer
    Startup = startup
    MaxFaults = 0
    MaxCalls = 3
    None = none
PROPERTY
    EndedIsNormalized
CHECK_DEADLOCK FALSE
