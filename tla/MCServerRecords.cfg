SPECIFICATION RecordsSpec
CONSTANTS
    s1 = s1
    s2 = s2
    r1 = r1
    r2 = r2
    c1 = c1
    c2 = c2
    Sensors <- MCSensors
    Requests <- MCRequests
    MaxEvents = 2
    MaxRequests = 3
    MaxFaults = 1
    KeptEntries = 2
    PollInterval = 2
    RetryInterval = 1
    LateBy = 1
    ClockWindow = 1
    TimeoutCheckers <- MCCheckers
    MaxCheckDelay = 2
    MaxStatusFaults = 2
INVARIANTS
    NothingVanishes
    InOnePlace
    CounterCounts
    SinceStartsAfterTimeout
PROPERTIES
    ClosedIsArchived
    BackOnline
CHECK_DEADLOCK FALSE
