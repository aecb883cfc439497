CONSTANTS
    NoRow = NoRow
    MaxTurns = 3
    BlankTurns = {}
    InlineScans = {i1}
    Sweeper = sw
    ScanK = 2
    FlushMinTurns = 1
    MaxScanFailures = 2
    MaxRowsPerScan = 2
    Idle = 0
    Stale = 1
    SlowStages <- SlowBatch
    MaxArchives = 0
    MaxFaults = 0
    MaxCrashes = 0
SPECIFICATION Spec
INVARIANTS
    NeverTwoScanners
CHECK_DEADLOCK FALSE
