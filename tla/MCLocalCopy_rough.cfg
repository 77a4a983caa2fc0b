SPECIFICATION Spec
CONSTANTS
    x = x
    a = a
    b = b
    aa = aa
    bb = bb
    main = main
    dev = dev
    NoCommit = NoCommit
    Commits = {x, a, b, aa, bb}
    Reach <- MCReach
    Refs = {main, dev}
    Local = {l1}
    Remote = {o1}
    Reader = Reader
    Work = {"commit", "create", "delete", "push"}
    Rewinds = TRUE
    Evicts = FALSE
    Disks = {"kept", "lost"}
    MaxAttempts = 2
    Histories <- MCHistories
    MaxAsked = 3
    MaxCompactions = 1
    MaxFaults = 1
    MaxCrashes = 1
INVARIANTS
    CopyIntact
CHECK_DEADLOCK FALSE
