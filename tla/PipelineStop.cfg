SPECIFICATION FairSpec
CONSTANTS
    MaxTicks = 4
    MaxSockets = 2
    QueueMax = 2
    BatchSize = 2
    BarQueueMax = 1
    TicksPerBar = 1
    MaxFaults = 1
CHECK_DEADLOCK FALSE
INVARIANTS
    TypeOK
    TicksAccounted
    BarsAccounted
PROPERTIES
    QueuedTicksWritten
    StopReturns
    StopReachesFeed
