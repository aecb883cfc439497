CONSTANTS
    s1 = s1
    s2 = s2
    t1 = t1
    t2 = t2
    Sessions = {s1, s2}
    Turns = {t1, t2}
    Rows <- Ghosted
    Verdicts <- Signs
    Theta = 2
    Tiers = 3
    Width = 2
    MaxStreak = 2
    Cooldown = 1
    Day = 2
    Overlap = TRUE
    MaxFaults = 1
    MaxTime = 3
SPECIFICATION Spec
INVARIANTS
    NeverAThirdGhost
CHECK_DEADLOCK FALSE
