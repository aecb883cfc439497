CONSTANTS
    t1 = t1
    t2 = t2
    t3 = t3
    Turns = {t1}
    SessionOf <- OneSession
    UserOf <- OneUser
    Volatile = {}
    MaxAttempts = 1
    PendingCap = 1
    Concurrency = 1
    StreamSlots = 1
    GenTimeout = 1
    ClaimStale = 1
    MaxFaults = 0
    MaxCrashes = 1
SPECIFICATION Spec
INVARIANTS
    FailedIsUnserved
