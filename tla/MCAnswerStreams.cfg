\* Two threads with a turn each, or one with two; with all turns over the system rests.
SPECIFICATION FairSpec
CONSTANTS
    Threads = {t1, t2}
    Consumer = consumer
    Flusher = flusher
    NoEntry = none
    MaxTurns = 2
    TotalTurns = 2
    MaxItems = 1
    Full = 2
INVARIANT
    AnswerKept

    
CHECK_DEADLOCK FALSE
