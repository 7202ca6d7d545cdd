\* Two slots scheduled once each, a queue read one row at a time, nothing fails.
CONSTANTS
    a = a
    b = b
    p1 = p1
    p2 = p2
    Slots = {a, b}
    Runs = {p1}
    Kinds = {"fixed", "delta"}
    BatchSize = 1
    Delta = 1
    Expiry = 0
    Grace = 0
    MaxRetries = 2
    Limit = 1
    Times = {1}
    Targets = {0, 2}
    LastBlock = 2
    MaxTime = 3
    MaxVersions = 1
    MaxFaults = 0
    NoRow = NoRow
SPECIFICATION FairSpec
PROPERTY Completes
CHECK_DEADLOCK FALSE
