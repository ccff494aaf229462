CONSTANTS
    Cwd <- Home
    Config <- ConfigDir
    Inputs <- MCInputs
SPECIFICATION Spec
CHECK_DEADLOCK FALSE
INVARIANT FoundAgain
