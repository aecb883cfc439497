CONSTANTS
    None = None
    Turns = {t1, t2}
    TextTurns = {t2}
    Calls = {c1, c2}
    Interrupts = {b1}
    Candidates = 2
    StreamSlots = 2
    MaxFaults = 1
SPECIFICATION Spec
INVARIANTS
    InterruptedReplyIsMarked
    TextAndSpendAgree
    SpendIsRecorded
    OneSnapshot
PROPERTIES
    HeardTextStands
CHECK_DEADLOCK FALSE
SYMMETRY Symmetry
