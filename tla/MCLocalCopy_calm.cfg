SPECIFICATION LiveSpec
CONSTANTS
    x = x
    a = a
    b = b
    aa = aa
    bb = bb
    main = main
    dev = dev
    NoCommit = NoCommit
    Commits = {x, a, b, aa, bb}
    Reach <- MCReach
    Refs = {main}
    Local = {l1, l2}
    Remote = {o1}
    Reader = Reader
    Work = {"commit", "push"}
    Rewinds = FALSE
    Evicts = TRUE
    Disks = {"lost"}
    MaxAttempts = 2
    Histories <- MCHistories
    MaxAsked = 2
    MaxCompactions = 1
    MaxFaults = 1
    MaxCrashes = 0
INVARIANTS
    TypeOK
    CopyIntact
    QuietCopyAgrees
    CatchUpApplies
PROPERTIES
    CopyConverges
CHECK_DEADLOCK FALSE
