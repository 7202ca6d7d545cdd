\* Two slots, two requests for either or both, one run that reads one row at a
\* time, one fault.
CONSTANTS
    a = a
    b = b
    q1 = q1
    q2 = q2
    p1 = p1
    p2 = p2
    Slots = {a, b}
    Requests = {q1, q2}
    Runs = {p1}
    MaxFee = 1
    MaxFaults = 1
    Limit = 1
    NoLock = NoLock
    NoRow = NoRow
    NoJob = NoJob
SYMMETRY Symmetry
SPECIFICATION Spec
INVARIANTS
    TypeOK
    AtMostOnceStored
    
    NoncesFollowed
\* Every request ends and every stored execution may be finalized.
PROPERTY PromiseKept
CHECK_DEADLOCK FALSE
