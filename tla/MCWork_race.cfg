INIT WorkInit
NEXT WorkNext
CONSTANTS
    WorkParts = {"queue"}
    p1 = p1
    p2 = p2
    w1 = w1
    w2 = w2
    Processes = {p1, p2}
    Workers = {w1, w2}
    Host <- MCTwoHosts
    Engine = "postgres"
    SyncMaxAttempts = 2
    MaxPushes = 2
    MaxPoints = 0
    MaxRetries = 0
    ChainRuns = {e1}
    Replicas = {q1}
    MaxRows = 2
    FlushLimit = 2
    MaxIngested = 1
    MaxFlushFailures = 1
    MaxChainEdits = 1
    OfflineDirs = {}
    BufferMax = 1
    PerRequest = 1
    DrainAttempts = 1
    MaxLogged = 1
    MaxOffline = 1
    MaxPings = 1
    MaxMishaps = 1
    MaxRefusals = 1
INVARIANTS
    ClaimsAlone
CHECK_DEADLOCK FALSE
