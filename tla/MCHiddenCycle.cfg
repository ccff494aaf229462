\* A cycle that leaves the chain of last Depends items.
CONSTANTS
    Names <- MCNames
    Aliases = {"x", "%"}
    Identifiers = {"x"}
    Exporters = {0}
    Projects <- HiddenCycle
SPECIFICATION Spec
INVARIANTS
    CyclesRejected
CHECK_DEADLOCK FALSE
