SPECIFICATION FairSpec
CONSTANTS
    Task = {a, b}
    MaxLife = 2
    MaxSession = 3
    MaxRequest = 2
INVARIANTS RequestedOnce ResponseKeptUntilStored
PROPERTY EveryTaskEnds
CHECK_DEADLOCK FALSE
