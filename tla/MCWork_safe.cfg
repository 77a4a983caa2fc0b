INIT WorkInit
NEXT WorkNext
CONSTANTS
    WorkParts = {"queue", "chain", "delivery", "shim"}
    p1 = p1
    p2 = p2
    w1 = w1
    w2 = w2
    Processes = {p1}
    Workers = {w1, w2}
    Host <- MCOneHost
    Engine = "sqlite"
    SyncMaxAttempts = 2
    MaxPushes = 2
    MaxPoints = 1
    MaxRetries = 1
    ChainRuns = {e1, e2}
    Replicas = {q1}
    MaxRows = 2
    FlushLimit = 2
    MaxIngested = 3
    MaxFlushFailures = 1
    MaxChainEdits = 1
    OfflineDirs = {"off1"}
    BufferMax = 1
    PerRequest = 1
    DrainAttempts = 1
    MaxLogged = 2
    MaxOffline = 1
    MaxPings = 1
    MaxMishaps = 2
    MaxRefusals = 1
INVARIANTS
    WorkTypeOK
    ClaimsAlone
    DoneIsIndexed
    ChartKeepsPoints
    PointsKept
    PointsOnce
    PointsSurvive
    SyncStateHonest
    FinishedUnlessLate
PROPERTIES
    PruneOnlyGhosts
CHECK_DEADLOCK FALSE
