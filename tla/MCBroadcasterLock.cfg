\* Three submissions of one broadcaster, one crash and one request that meets
\* a database error; the lock expires after more than one tick.
CONSTANTS
    r1 = r1
    r2 = r2
    r3 = r3
    Requests = {r1, r2, r3}
    NoLock = NoLock
    LockExpiry = 1
    FirstNonce = 1
    MaxFaults = 1
    MaxCrashes = 1
SYMMETRY Symmetry
SPECIFICATION Spec
INVARIANTS
    TypeOK
    LockInv
    Exclusion
    DistinctNonces
    NoncesDense
    BroadcastsRecorded
    StuckOnlyByLoss
PROPERTY NextNonceSteps
\* Every request ends and the network has nothing left to include.
CHECK_DEADLOCK FALSE
