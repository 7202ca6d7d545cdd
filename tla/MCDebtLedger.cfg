\* Two executions and two runs, one resubmission, one error; 10^18 is 3.
CONSTANTS
    e1 = e1
    e2 = e2
    p1 = p1
    p2 = p2
    Executions = {e1, e2}
    Runs = {p1, p2}
    Base = 3
    Fixed = 1
    Rate = 500000
    MaxCost = 8
    Costs = {8}
    Helps = {9}
    MaxHelp = 9
    Balances = {20, 26}
    Promises = {13}
    ReadLimit = 1
    MaxAgain = 1
    MaxFaults = 1
    NoLock = NoLock
    NoRow = NoRow
    NoJob = NoJob
SPECIFICATION Spec
CONSTRAINT FewAtWork
SYMMETRY Symmetry
INVARIANTS
    TypeOK
    DebtCovers
    DebtExact
    ReserveSuffices
CHECK_DEADLOCK FALSE
