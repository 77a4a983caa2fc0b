SPECIFICATION Spec
CONSTANTS
    x = x
    a = a
    b = b
    aa = aa
    bb = bb
    main = main
    dev = dev
    NoCommit = NoCommit
    Commits = {x, a, b, aa, bb}
    Reach <- MCReach
    Refs = {main, dev}
    Local = {l1}
    Remote = {o1}
    Reader = Reader
    Work = {"delete"}
    Rewinds = TRUE
    Evicts = FALSE
    Disks = {"kept"}
    MaxAttempts = 2
    Histories <- MCHistories
    MaxAsked = 2
    MaxCompactions = 0
    MaxFaults = 0
    MaxCrashes = 0
INVARIANTS
    QuietCopyAgrees
CHECK_DEADLOCK FALSE
