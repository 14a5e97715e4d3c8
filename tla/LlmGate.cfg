SPECIFICATION FairSpec
CONSTANTS
    SlotEvery = 2
    Age = 4
    ActiveFrom = 2
    ActiveUntil = 7
    MaxNow = 7
    MaxSignals = 1
    MaxFaults = 1
    MaxCalls = 2
CHECK_DEADLOCK FALSE
INVARIANTS
    TypeOK
    VerdictLinked
    VerdictsInOrder
    CallsLogged
    FailOpen
    GateIsLatest
    GateCovered
PROPERTIES
    CheckEnds
