CONSTANTS
    Texts = {a, b}
    None = None
    Sweepers = {p1, p2}
    TownSweepers = {}
    MaxChanges = 2
    MaxErasures = 0
    MaxFaults = 0
SPECIFICATION Spec
SYMMETRY Symmetry
INVARIANTS
    LivesStartOver
CHECK_DEADLOCK FALSE
