SPECIFICATION Spec
CONSTANTS
    s1 = s1
    s2 = s2
    s3 = s3
    Symbols = {s1, s2}
    Prices = {1000}
    SignalSpace <- MCTight
    Regimes <- MCNoRegime
    FeedAges <- MCFresh
    SizeMultipliers = {}
    PretradeEnabled = FALSE
    Capital = 20000
    RiskPct = 1
    SlippageBps = 100
    Brokerage = 0
    WeekBefore = 0
    EntryStart = 1
    EntryEnd = 2
    MaxTrades = 2
    DailyLossLimit = 1000
    WeeklyLossLimit = 1000
    RespectRegime = TRUE
    ORWindowEnd = 1
    TimeStop = 3
    MaxClock = 3
    MaxFaults = 0
    MaxRestarts = 0
INVARIANTS
    NoLeverage
