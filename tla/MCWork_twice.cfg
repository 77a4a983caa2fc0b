INIT WorkInit
NEXT WorkNext
CONSTANTS
    WorkParts = {"chain"}
    p1 = p1
    p2 = p2
    w1 = w1
    w2 = w2
    Processes = {p1}
    Workers = {w1, w2}
    Host <- MCOneHost
    Engine = "sqlite"
    SyncMaxAttempts = 2
    MaxPushes = 2
    MaxPoints = 1
    MaxRetries = 1
    ChainRuns = {e1, e2}
    Replicas = {q1, q2}
    MaxRows = 2
    FlushLimit = 2
    MaxIngested = 3
    MaxFlushFailures = 0
    MaxChainEdits = 0
    OfflineDirs = {}
    BufferMax = 1
    PerRequest = 1
    DrainAttempts = 1
    MaxLogged = 1
    MaxOffline = 1
    MaxPings = 1
    MaxMishaps = 1
    MaxRefusals = 1
INVARIANTS
    PointsOnce
CHECK_DEADLOCK FALSE
