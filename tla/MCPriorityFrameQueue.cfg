SPECIFICATION FairSpec
CONSTANTS
    Pushers = {serve}
    Poppers = {worker}
    Priorities = {0, 3, 7}
    Size = 2
    MaxInsertId = 5
\* After Drain and the workers' exit the queue is at rest.
CHECK_DEADLOCK FALSE
INVARIANTS
    TypeOK
    NoLostWakeup
    Conservation
    NoOvertaking
    DrainLosesNothing
PROPERTIES
    ImplementsLanes
    PushReturns
    WorkersEnd
