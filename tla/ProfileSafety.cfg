CONSTANTS
    u1 = u1
    u2 = u2
    t1 = t1
    t2 = t2
    t3 = t3
    Users = {u1}
    Turns = {t1, t2}
    Sweepers = {sw}
    UserOf <- BothOne
    Transient = {}
    NoRow = NoRow
    RebuildK = 1
    MaxFailures = 2
    Batch = 2
    Quiesced = FALSE
    MaxErasures = 1
    MaxSlow = 1
    MaxFaults = 1
SPECIFICATION FairSpec
INVARIANTS
    OneRebuilder
    ErasedStaysErased
PROPERTIES
    ProfileKeepsUp
    CountSettles
CHECK_DEADLOCK FALSE
