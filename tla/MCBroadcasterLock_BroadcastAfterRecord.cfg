\* Two submissions, nothing fails, nothing crashes, the expiry of the code.
CONSTANTS
    r1 = r1
    r2 = r2
    r3 = r3
    Requests = {r1, r2}
    NoLock = NoLock
    LockExpiry = 30
    FirstNonce = 1
    MaxFaults = 0
    MaxCrashes = 0
SPECIFICATION Spec
INVARIANT BroadcastAfterRecord
CHECK_DEADLOCK FALSE
