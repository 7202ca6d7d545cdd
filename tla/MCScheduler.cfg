\* One slot scheduled twice, two overlapping runs, a batch of two, one fault.
CONSTANTS
    a = a
    b = b
    p1 = p1
    p2 = p2
    Slots = {a}
    Runs = {p1, p2}
    Kinds = {"assumed", "delta"}
    BatchSize = 2
    Delta = 1
    Expiry = 0
    Grace = 0
    MaxRetries = 1
    Limit = 2
    Times = {3}
    Targets = {0, 3}
    LastBlock = 2
    MaxTime = 3
    MaxVersions = 2
    MaxFaults = 1
    NoRow = NoRow
SPECIFICATION Spec
SYMMETRY Symmetry
INVARIANTS
    TypeOK
    BroadcastedWhole
    SubmissionKept
    
PROPERTIES
    NeverEarly
CHECK_DEADLOCK FALSE
