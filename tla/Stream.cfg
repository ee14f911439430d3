SPECIFICATION StreamSpec
CONSTANTS
    r1 = r1
    j1 = j1
    j2 = j2
    k1 = k1
    k2 = k2
    general = general
    Readers <- OneReader
    Jobs <- TwoJobs
    Batch = 2
    MaxEvents = 3
    NoJob = NoJob
    Commands <- TwoCommands
    Queues <- OneQueue
    QueueOf <- AllGeneral
    QueueSize = 1
    WorkerCount = 1
    Waiters = {}
    Awaits <- NobodyWaits
    Retention = 1
    MaxProgress = 1
    MaxConns = 2
    MaxTime = 2
    NoRecord = NoRecord
INVARIANTS
    StreamTypeOK
    NothingMissed
    PauseExclusive
    RetrySafe
PROPERTIES
    EventsArrive
    Settles
