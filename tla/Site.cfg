SPECIFICATION Spec
CONSTANTS
    Miners = {m, n}
    Minute = 3
    Buckets = 3
    RecentScan = 2
    Limit = 1
    Scan = 3
    Take = 1
    TwoTo256 = 16
    MaxTxs = 2
    MaxAnswers = 2
    IPs = {i}
    Window = 2
    MaxReqs = 2
    Null = Null
INVARIANTS
    WindowHolds
    ChartIsStable
    ServerIsRight
PROPERTIES
    StaysLaunched
    ExplorerCatchesUp
    ServedAgain
