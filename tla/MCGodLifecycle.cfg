SPECIFICATION FairSpec
CONSTANTS
    Tasks = {t1, t2}
    Owners = {o1}
    Monitor = monitor
    Consumer = consumer
    Startup = startup
    MaxFaults = 1
    MaxCalls = 3
    None = none
INVARIANTS
    TypeOK
    ElevatedIsMarked
    EndedIsBlocked
PROPERTIES
    GrantHeld
    QuarantineEnds
CHECK_DEADLOCK FALSE
