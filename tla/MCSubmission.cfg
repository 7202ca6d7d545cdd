\* One submission, rounds of two seconds, a chain that lags by up to one second,
\* two changes of the parameters.
CONSTANTS
    r1 = r1
    Requests = {r1}
    Nothing = Nothing
    Delay = 2
    DefaultFees = 0
    Fees = {1, 2}
    Prices = {3}
    Times = {1, 3}
    Period = 2
    MaxLag = 1
    MaxTime = 4
    MaxUpdates = 2
    NoRequest = NoRequest
SPECIFICATION Spec
INVARIANTS
    TypeOK
    GraceKept
    OpensInTime
    SealedUntilAsked
PROPERTY AcceptedFresh
CHECK_DEADLOCK FALSE
