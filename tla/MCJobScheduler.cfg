\* Every multigraph of three jobs and three edges, and diamonds of four jobs.
CONSTANTS
    Jobs <- MCJobs
    Aliases = {"x", "y"}
    JobGraphs <- MCGraphs
SPECIFICATION FairSpec
INVARIANTS
    TypeOK
    CountsExact
    OnlyCyclesStarve
    VerdictIsTrue
    ExportsArrive
PROPERTIES
    EveryRunEnds
    RunsTopologically
\* The program stops when it has exited.
CHECK_DEADLOCK FALSE
