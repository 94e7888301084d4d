SPECIFICATION FairSpec
CONSTANTS
    n1 = n1
    N = 2
    NotifyTasks = {n1}
    Sweep = Sweep
    MaxLocks = 1
    MaxFaults = 1
INVARIANTS
    TypeOK
    CommittedEventsAccounted
    DrainedInOrder
PROPERTY StagingEmpties
CHECK_DEADLOCK FALSE
