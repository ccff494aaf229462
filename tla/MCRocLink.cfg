SPECIFICATION Spec
CONSTANTS
    p1 = p1
    p2 = p2
    a1 = a1
    a2 = a2
    None = None
    Probes <- MCProbes
    Configs <- MCConfigs
    Ioids <- MCIoids
    Levels <- MCLevels
    Addresses <- MCAddresses
    Slots = 2
    Budgets <- MCBudgets
    Writers = TRUE
INVARIANTS
    PinsAgree
    TargetMemorySafe
    OwnAnswer
    LossIsReal
CHECK_DEADLOCK FALSE
PROPERTIES
    EveryRequestEnds
    ProbeFreed
