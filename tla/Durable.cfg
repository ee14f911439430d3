\* Two workers of an agent, three operations and two fencing tokens; two jobs of
\* at most one target, any database error, one crash or reload.
SPECIFICATION DurableSpec
CONSTANTS
    w1 = w1
    w2 = w2
    start = start
    stop = stop
    send = send
    master = master
    room = room
    b1 = b1
    b2 = b2
    l1 = l1
    l2 = l2
    Workers <- TwoWorkers
    Ops <- AllOps
    ShardOps <- Shards
    LaunchOps <- Launches
    Locks <- AllLocks
    LockOf <- LockTable
    Requests <- Arrivals
    MaxRemembered = 1
    MaxLog = 3
    NoEntry = NoEntry
    NoFence = NoFence
    NoOne = NoOne
    NoRequest = NoRequest
    j1 = j1
    j2 = j2
    t1 = t1
    NoJob = NoJob
    Jobs <- TwoJobs
    Targets <- OneTarget
    ProgressValues = {60}
    FaultPoints = {"mark", "get", "sweep", "complete", "recover"}
    MaxFaults = 1
    MaxCrashes = 1
SYMMETRY WorkerSymmetry
INVARIANTS
    FencedOrder
    AtMostOnce
    RecordsReal
    NoOrphan
PROPERTIES
    RejectedNeverRan
    TerminalFinal
