SPECIFICATION Spec
CONSTANTS
    s1 = s1
    s2 = s2
    s3 = s3
    Symbols = {s1, s2}
    Prices = {900, 1000}
    SignalSpace <- MCLongShort
    Regimes <- MCNoRegime
    FeedAges <- MCFresh
    SizeMultipliers = {40}
    PretradeEnabled = TRUE
    Capital = 20000
    RiskPct = 1
    SlippageBps = 100
    Brokerage = 20
    WeekBefore = 0
    EntryStart = 1
    EntryEnd = 2
    MaxTrades = 2
    DailyLossLimit = 200
    WeeklyLossLimit = 400
    RespectRegime = TRUE
    ORWindowEnd = 1
    TimeStop = 2
    MaxClock = 2
    MaxFaults = 1
    MaxRestarts = 1
CHECK_DEADLOCK FALSE
INVARIANTS
    TypeOK
    IndexAgrees
    ExitsMatchPositions
    OrdersFilledOnce
    SharesConserved
    OpenRowsWatched
    SignalsAccounted
    RealisedMatchesJournal
PROPERTIES
    BookSpec
