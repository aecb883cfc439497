CONSTANTS
    ChainLength = 3
    FilterLength = 2
    MaxDrives = 2
    MaxFaults = 1
SPECIFICATION Spec
INVARIANTS
    OneAnswer
    ReplayAgrees
    OneVoice
    LearnedIsShown
    FailuresKept
CHECK_DEADLOCK FALSE
