CONSTANTS
    NoRow = NoRow
    MaxTurns = 2
    BlankTurns = {2}
    InlineScans = {i1}
    Sweeper = sw
    ScanK = 2
    FlushMinTurns = 1
    MaxScanFailures = 2
    MaxRowsPerScan = 1
    Idle = 0
    Stale = 1
    SlowStages <- AnyStage
    MaxArchives = 1
    MaxFaults = 2
    MaxCrashes = 1
SPECIFICATION FairSpec
INVARIANTS
    OneScanner
    CursorCoversRead
    CountKeepsUp
    ToldOnce
    ArchivedStaysGone
PROPERTIES
    PendingSettles
CHECK_DEADLOCK FALSE
