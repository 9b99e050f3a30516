SPECIFICATION FairSpec
CONSTANTS
    Message = {m1, m2, bad, worse}
    Malformed = {bad, worse}
    threadpool_size = 2
    MaxSession = 2
INVARIANTS SlotsAccountedFor AtLeastOnce AtMostOnce
PROPERTY EveryTaskRuns
CHECK_DEADLOCK FALSE
