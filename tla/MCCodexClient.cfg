\* One task of each kind, the caller impatient, around two successive processes.
SPECIFICATION Spec
CONSTANTS
    Callers = {c1}
    Impatient = {c1}
    Repliers = {r1}
    Admins = {a1}
    Reader = rd
    NoTask = no
    MaxGen = 2
    MaxId = 3
INVARIANTS
    TypeOK
    
    HandshakeDone
    NoOrphanProcess
    RepliesReachTheirProcess
PROPERTY
    ImplementsContract
