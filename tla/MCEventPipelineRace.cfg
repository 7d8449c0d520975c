CONSTANTS
    e1 = e1
    e2 = e2
    e3 = e3
    Events <- MCEvents
    Rejected <- MCRejected
    Capacity = 2
    HasLed = FALSE
    MaxFaults = 1
    MaxRestarts = 1
SPECIFICATION Spec
INVARIANT
    WorkersSurvive
CHECK_DEADLOCK FALSE
