SPECIFICATION Spec
CONSTANTS
    c1 = c1
    c2 = c2
    c3 = c3
    main = main
    dev = dev
    NoCommit = NoCommit
    Commits = {c1, c2, c3}
    Reach <- MCReach
    Refs = {main, dev}
    Pushers = {p1, p2}
    Jobs = {j1}
    Readers = {r1}
    Policy = "strict"
    MaxCASAttempts = 2
    Histories <- MCHistories
    Requests <- MCMixed
    Threshold = 0
    MaxPushes = 2
    MaxFaults = 0
SYMMETRY Symmetric
INVARIANTS
    TypeOK
    IndexIntact
    ReaderGrace
    IInv
