\* Two test cases with two calls each.
CONSTANTS
    LastTest = 2
    MaxCalls = 2
    MaxDepth = 3
SPECIFICATION Spec
INVARIANTS
    FailureIsFinal
\* The program stops when all test cases have been executed.
CHECK_DEADLOCK FALSE
