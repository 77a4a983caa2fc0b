SPECIFICATION ServerSpec
CONSTANTS
    StorageParts = {"hooks", "blobs", "lfs"}
    WorkParts = {"queue", "chain"}
    Hooks = {1, 2}
    Dispatchers = {d1}
    HookMaxAttempts = 2
    MaxEvents = 1
    MaxDeliveries = 2
    MaxHookEdits = 1
    BlobRefs = {r1}
    Shas = {s1}
    Publishers = {b1}
    Collectors = {c1}
    MaxTrees = 3
    MaxBlobFailures = 1
    LfsRepos = {r1}
    Oids = {o1}
    Uploads = {u1}
    LfsQuotas = {1}
    MaxPuts = 1
    MaxNamings = 2
    MaxLfsFailures = 1
    Users = {}
    Gates = {disabled}
    Homes = {}
    Orgs = {}
    Repos = {}
    RepoNames = {r1, r2}
    Sessions = {}
    MaxCalls = 2
    p1 = p1
    p2 = p2
    w1 = w1
    w2 = w2
    Processes = {p1, p2}
    Workers = {w1, w2}
    Host <- MCTwoHosts
    Engine = "postgres"
    SyncMaxAttempts = 2
    MaxPushes = 2
    MaxPoints = 0
    MaxRetries = 0
    ChainRuns = {e1}
    Replicas = {q1}
    MaxRows = 2
    FlushLimit = 2
    MaxIngested = 3
    MaxFlushFailures = 1
    MaxChainEdits = 1
    OfflineDirs = {}
    BufferMax = 1
    PerRequest = 1
    DrainAttempts = 1
    MaxLogged = 2
    MaxOffline = 1
    MaxPings = 1
    MaxMishaps = 1
    MaxRefusals = 1
    d1 = d1
    b1 = b1
    c1 = c1
    u1 = u1
    r1 = r1
    q1 = q1
PROPERTIES
    EveryJobSettles
    DeliveriesSettle
    UnnamedBlobsGo
    LostBlobsReturn
    StrandedBytesGo
    BufferDrains
CHECK_DEADLOCK FALSE
