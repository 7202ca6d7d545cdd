\* One execution with two fees, one run, two faults.
CONSTANTS
    a = a
    b = b
    q1 = q1
    q2 = q2
    p1 = p1
    p2 = p2
    Slots = {a}
    Requests = {q1}
    Runs = {p1}
    MaxFee = 2
    MaxFaults = 2
    Limit = 1
    NoLock = NoLock
    NoRow = NoRow
    NoJob = NoJob
SPECIFICATION FairSpec
PROPERTY PromiseFulfilled
CHECK_DEADLOCK FALSE
