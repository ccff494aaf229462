\* Small projects: three test cases, up to three Depends items and two matrices.
CONSTANTS
    Names <- MCNames
    Aliases = {"x"}
    Default = "default"
    Own = "own"
    Projects <- MCProjects
SPECIFICATION Spec
INVARIANTS
    EveryCombination
    AcyclicJobs
    RootedJobs
    FreshEvaluation
    EdgesMatchDepends
\* The resolution stops when it is done, and at an error.
CHECK_DEADLOCK FALSE
