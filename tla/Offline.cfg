SPECIFICATION Spec
CONSTANTS
    s1 = s1
    s2 = s2
    s3 = s3
    Universe <- MCUniverse
    RangeBars <- MCRange
    LaterBars <- MCLater
    MinutesPerDay = 10
    RangeStart = 0
    RangeEnd = 1
    Lookback = 1
    VolumeMultiple = 5
    TargetMultiple = 10
    TimeStop = 4
    LastMinute = 4
    Capital = 2000
    RiskPct = 10
    SlippageBps = 100
    Charge = 10
    Pairs = 2
    MaxScripts = 4
    Gains <- MCGains
    Grain = 4
    Equity = 100
    PerDay = 2
    MaxRows = 5
    MaxDay = 3
    WeekLength = 2
    EntryStart = 1
    EntryEnd = 4
    MaxTrades = 2
    DailyLossLimit = 200
    WeeklyLossLimit = 400
    RespectRegime = TRUE
    MaxPrice = 12
    MaxCash = 40
    Capitals = {10, 20, 33}
    RiskPcts = {10, 25}
CHECK_DEADLOCK FALSE
INVARIANTS
    NoHindsight
    DayAdds
    DecidesAsLive
    CacheKept
    ReportsAgree
    SizesWithinBudget
