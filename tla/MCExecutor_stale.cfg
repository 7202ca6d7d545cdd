\* One execution with two fees, followed by two runs, one fault.
CONSTANTS
    a = a
    b = b
    q1 = q1
    q2 = q2
    p1 = p1
    p2 = p2
    Slots = {a}
    Requests = {q1}
    Runs = {p1, p2}
    MaxFee = 2
    MaxFaults = 1
    Limit = 1
    NoLock = NoLock
    NoRow = NoRow
    NoJob = NoJob
SPECIFICATION Spec
INVARIANTS
    FinalTruthful
PROPERTIES
    FinalImmutable
    PromiseKept
CHECK_DEADLOCK FALSE
