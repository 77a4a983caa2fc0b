SPECIFICATION LiveSpec
CONSTANTS
    c1 = c1
    c2 = c2
    c3 = c3
    main = main
    dev = dev
    NoCommit = NoCommit
    Commits = {c1, c2, c3}
    Reach <- MCReach
    Refs = {main}
    Pushers = {p1, p2}
    Jobs = {j1}
    Readers = {}
    Policy = "strict"
    MaxCASAttempts = 2
    Histories <- MCForwardHistories
    Requests <- MCForward
    Threshold = 0
    MaxPushes = 2
    MaxFaults = 1
PROPERTIES
    PushesAnswered
    OrphansCollected
    ImplementsRefStore
