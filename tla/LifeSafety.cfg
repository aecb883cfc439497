CONSTANTS
    s1 = s1
    s2 = s2
    t1 = t1
    t2 = t2
    t3 = t3
    Sessions = {s1, s2}
    Turns = {t1, t2, t3}
    SessionOf <- TwoThenOne
    Answers = {a1}
    Draws = {d1}
    Past <- AllCold
    Allowed = {"incident", "outing", "hospitalized"}
    Gaps = {2}
    Pending = 2
    SpacePerTier = 1
    FellOutLasts = 1
    IncidentLasts = 1
    StayLasts = 3
    ColdStreak = 1
    WarmStreak = 2
    ProposeWindow = 2
    ProposeHits = 2
    MaxAsks = 3
    MaxTime = 3
SPECIFICATION Spec
INVARIANTS
    OneOpenAsk
    AnswerIsSettled
    OneForeground
    SeparationHeld
PROPERTIES
    AskIsEarned
SYMMETRY Alike
CHECK_DEADLOCK FALSE
