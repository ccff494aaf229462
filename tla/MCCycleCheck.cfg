\* Every project of three test cases and four Depends items.
CONSTANTS
    Names <- MCNames
    Aliases = {"x", "%"}
    Identifiers = {"x"}
    Exporters = {0}
    Projects <- MCProjects
SPECIFICATION Spec
INVARIANTS
    AcceptedHasRoot
    SimpleCyclesRejected
    ReportsAreCycles
    ReportedOnce
\* The search stops when it is decided.
CHECK_DEADLOCK FALSE
