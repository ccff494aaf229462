\* Two Depends items of one test case that name the same test case.
CONSTANTS
    Jobs <- MCJobs
    Aliases = {"x", "y"}
    JobGraphs <- TwoAliasGraphs
SPECIFICATION Spec
INVARIANTS
    EveryAliasServed
\* The program stops when it has exited.
CHECK_DEADLOCK FALSE
