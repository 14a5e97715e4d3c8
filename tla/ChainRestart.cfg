SPECIFICATION HeardSpec
CONSTANTS
    s1 = s1
    Symbols = {s1}
    MinuteLength = 1
    MinutesPerDay = 3
    RangeStart = 0
    RangeEnd = 1
    Lookback = 1
    VolumeMultiple = 5
    TargetMultiple = 15
    Prices = {10, 20}
    Lot = 1
    Stale = 1
    Skew = 0
    BarQueueMax = 1
    MaxInstant = 5
    MaxTraded = 2
    MaxDeaths = 0
    MaxRestarts = 1
CHECK_DEADLOCK FALSE
INVARIANTS
    StopsAndTargets
    RangeIsHeard
PROPERTIES
    SourceSpec
