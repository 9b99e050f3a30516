CONSTANTS
    NoOp = NoOp
    Task <- MCTask
    Op <- InstanceOp
    Subgraph = {"S", "R", "T"}
    Nop = {"m"}
    Parent <- InstanceParent
    Needs <- InstanceNeeds
    Handler <- InstanceHandler
    TotalRetries <- InstanceRetries
    Outcome <- InstanceOutcome
    Hasty = {"z", "p"}
    MaxGen = 2
    MaxTry = 1
SPECIFICATION MainLoopSpec
INVARIANTS
    EdgesConsistent
    ReadyIsWhatCanRun
    OneAttemptAtATime
    SubgraphsKnowTheirTasks
    RetriesBounded
    GoodEndsAreWhole
PROPERTIES
    StartsInOrder
    ExecuteEnds
CHECK_DEADLOCK FALSE
