CONSTANTS
    e1 = e1
    e2 = e2
    e3 = e3
    Events <- MCEvents
    Rejected <- MCRejected
    Capacity = 2
    HasLed = TRUE
    MaxFaults = 1
    MaxRestarts = 1
SPECIFICATION FairSpec
INVARIANTS
    EventsAccountedFor
    FullOnlyAfterFailure
    SurplusNeedsFault
    NoGaps
PROPERTIES
    DeliverySpec
    EventuallyProcessed
CHECK_DEADLOCK FALSE
