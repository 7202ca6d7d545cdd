\* Two requests for one slot in progress together, no fault.
CONSTANTS
    a = a
    b = b
    q1 = q1
    q2 = q2
    p1 = p1
    p2 = p2
    Slots = {a}
    Requests = {q1, q2}
    Runs = {p1}
    MaxFee = 1
    MaxFaults = 0
    Limit = 1
    NoLock = NoLock
    NoRow = NoRow
    NoJob = NoJob
SPECIFICATION Spec
INVARIANT AtMostOnce
CHECK_DEADLOCK FALSE
