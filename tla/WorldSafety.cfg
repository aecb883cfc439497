CONSTANTS
    Texts = {a, b}
    None = None
    Sweepers = {p1, p2}
    TownSweepers = {q1}
    MaxChanges = 2
    MaxErasures = 1
    MaxFaults = 1
SPECIFICATION Spec
SYMMETRY Symmetry
INVARIANTS
    OneWorldview
    ChangesAreTaken
    NoWordsOnOldPosts
PROPERTIES
    FreshClaimStands
CHECK_DEADLOCK FALSE
