CONSTANTS
    t1 = t1
    t2 = t2
    t3 = t3
    Turns = {t1, t2}
    SessionOf <- OneSession
    UserOf <- OneUser
    Volatile = {t2}
    MaxAttempts = 2
    PendingCap = 2
    Concurrency = 2
    StreamSlots = 1
    GenTimeout = 1
    ClaimStale = 1
    MaxFaults = 1
    MaxCrashes = 1
SPECIFICATION FairSpec
INVARIANTS
    OneLadderPerSession
    OneReply
    SettledAsServed
PROPERTIES
    AnswerIsFinal
    ImplementsService
    EveryTurnSettles
