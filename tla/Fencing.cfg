\* Three operations on one room, two of them under one key; one command and two
\* callers that wait for it.  Both components may come to rest.
SPECIFICATION FencingSpec
CONSTANTS
    c1 = c1
    c2 = c2
    c3 = c3
    k1 = k1
    k2 = k2
    Callers <- ThreeCallers
    Keys <- AllKeys
    KeyOf <- SharedKey
    TTL = 2
    MaxClock = 3
    MaxGrants = 2
    NoRow = NoRow
    NoLease = NoLease
    d1 = d1
    general = general
    w1 = w1
    w2 = w2
    Commands <- OneCommand
    Queues <- OneQueue
    QueueOf <- AllGeneral
    QueueSize = 1
    WorkerCount = 1
    Waiters <- TwoWaiters
    Awaits <- BothFirst
    Retention = 1
    MaxProgress = 2
    MaxConns = 2
    MaxTime = 4
    NoRecord = NoRecord
CHECK_DEADLOCK FALSE
SYMMETRY SharerSymmetry
INVARIANTS
    LeaseCurrent
    TokenIdentifiesLease
    NoLostWakeup
PROPERTIES
    NeverStolen
    RecordForward
