SPECIFICATION FairSpec
CONSTANTS
    MaxTicks = 1
    MaxSockets = 2
    QueueMax = 2
    BatchSize = 2
    BarQueueMax = 1
    TicksPerBar = 1
    MaxFaults = 0
CHECK_DEADLOCK FALSE
PROPERTIES
    FeedEnds
