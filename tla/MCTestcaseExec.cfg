\* Two test cases with three calls each, nested up to four deep.
CONSTANTS
    LastTest = 2
    MaxCalls = 3
    MaxDepth = 4
SPECIFICATION FairSpec
INVARIANTS
    TypeOK
    AbortsRemaining
    LogComplete
PROPERTIES
    VerdictsStand
    EveryExecutionEnds
\* The program stops when all test cases have been executed.
CHECK_DEADLOCK FALSE
