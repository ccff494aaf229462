SPECIFICATION Spec
CONSTANTS
    Payloads <- MCPayloads
    Budgets <- MCBudgets
    Garbage = {0, 1, 3}
INVARIANTS
    HostGetsMessages
    TargetGetsMessages
    TargetResynchronises
PROPERTIES
    ConnectEnds
    DeafForGood
CHECK_DEADLOCK FALSE
