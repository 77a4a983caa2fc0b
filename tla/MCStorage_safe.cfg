INIT StorageInit
NEXT StorageNext
CONSTANTS
    StorageParts = {"hooks", "blobs", "lfs", "registry"}
    Hooks = {1, 2}
    Dispatchers = {d1, d2}
    HookMaxAttempts = 2
    MaxEvents = 1
    MaxDeliveries = 2
    MaxHookEdits = 1
    BlobRefs = {r1, r2}
    Shas = {s1, s2}
    Publishers = {b1, b2}
    Collectors = {c1}
    MaxTrees = 2
    MaxBlobFailures = 1
    LfsRepos = {r1, r2}
    Oids = {o1}
    Uploads = {u1}
    LfsQuotas = {1}
    MaxPuts = 2
    MaxNamings = 2
    MaxLfsFailures = 1
    Users = {u1, u2}
    Gates = {disabled}
    Homes = {u1}
    Orgs = {o1}
    Repos = {r1, r2}
    RepoNames = {r1, r2}
    Sessions = {s1, s2}
    MaxCalls = 2
INVARIANTS
    StorageTypeOK
    VerdictIsLastAnswer
    LossesRecorded
    RepairedRefsServe
    ContentAddressed
    LinksServe
    AdminsRemain
    NamesLead
    NoLockCycle
PROPERTIES
    CommittedLinksStay
    AcceptedWithAuthority
SYMMETRY Interchangeable
CHECK_DEADLOCK FALSE
