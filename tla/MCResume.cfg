CONSTANTS
    NoOp = NoOp
    Task <- MCTask
    Op <- ResumeOp
    Subgraph = {"S", "R", "C"}
    Nop = {"m"}
    Local = {"a", "b"}
    Parent <- ResumeParent
    Needs <- ResumeNeeds
    Handler <- ResumeHandler
    TotalRetries <- ResumeRetries
    Outcome <- ResumeOutcome
    Cleanup <- ResumeCleanup
    Resent <- ResumeResent
    Entered <- ResumeEntered
    Left <- ResumeLeft
    Hasty = {}
    MaxGen = 0
    MaxTry = 2
    MaxResume = 2
SPECIFICATION ResumeFairSpec
INVARIANTS
    ResumedIsComplete
PROPERTIES
    OrderSurvivesResume
    DoneOnce
    CleanupComesFirst
    ResumedEnds
CHECK_DEADLOCK FALSE
