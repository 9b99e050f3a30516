SPECIFICATION FairSpec
CONSTANTS
    MaxGet = 2
    MaxError = 2
    MaxLife = 2
INVARIANTS OutcomeIsTrue
PROPERTY CancellationEnds
CHECK_DEADLOCK FALSE
