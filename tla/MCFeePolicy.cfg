\* One execution that has authorized less than the promised price, two overlapping runs.
CONSTANTS
    p1 = p1
    p2 = p2
    Runs = {p1, p2}
    Authorized = 4
    Gas = 2
    Promised = 5
    NoPrice = NoPrice
    History = 1
    Bases = {9}
    Loads <- BusyOrQuiet
    Expected = {2, 3}
    MaxUpdates = 1
    ExpiryTime = 1
    MaxTime = 1
    MaxFaults = 1
    NoJob = NoJob
SPECIFICATION Spec
SYMMETRY Symmetry
INVARIANTS
    TypeOK
    EstimateCovers
    FeeCovered
    HelpRecorded
    HelpEnough
CHECK_DEADLOCK FALSE
