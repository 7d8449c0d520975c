CONSTANTS
    userTask = userTask
    systemTask = systemTask
    w1 = w1
    w2 = w2
    Tasks <- MCTasks
    UserTasks <- MCUserTasks
    Workers <- MCWorkers
    MaxRetries = 1
    MaxFaults = 2
SPECIFICATION FairSpec
INVARIANTS
    DoneHasResult
    ScheduledIsQueued
PROPERTIES
    MessagesLeadToAnEnd
CHECK_DEADLOCK FALSE
