\* A caller against a task that closes and reconnects at the same time, every
\* task going on.
SPECIFICATION FairSpec
CONSTANTS
    Callers = {c1}
    Impatient = {}
    Repliers = {}
    Admins = {a1}
    Reader = rd
    NoTask = no
    MaxGen = 2
    MaxId = 4
PROPERTY
    RequestReturns
