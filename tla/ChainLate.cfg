SPECIFICATION HeardSpec
CONSTANTS
    s1 = s1
    Symbols = {s1}
    MinuteLength = 2
    MinutesPerDay = 4
    RangeStart = 1
    RangeEnd = 3
    Lookback = 1
    VolumeMultiple = 15
    TargetMultiple = 15
    Prices = {10, 20}
    Lot = 2
    Stale = 0
    Skew = 2
    BarQueueMax = 2
    MaxInstant = 9
    MaxTraded = 4
    MaxDeaths = 2
    MaxRestarts = 0
CHECK_DEADLOCK FALSE
INVARIANTS
    BarsInOrder
    VolumesBounded
    RangeIsHeard
PROPERTIES
    RangeFrozen
