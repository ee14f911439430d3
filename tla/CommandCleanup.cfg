SPECIFICATION ChannelSpec
CONSTANTS
    c1 = c1
    general = general
    w1 = w1
    Commands <- OneCommand
    Queues <- OneQueue
    QueueOf <- AllGeneral
    QueueSize = 1
    WorkerCount = 1
    Waiters <- OneWaiter
    Awaits <- WaitsFirst
    Retention = 1
    MaxProgress = 0
    MaxConns = 1
    MaxTime = 3
    NoRecord = NoRecord
CHECK_DEADLOCK FALSE
PROPERTIES
    RecentKept
