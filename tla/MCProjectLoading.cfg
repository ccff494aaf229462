CONSTANTS
    Cwd <- Home
    Config <- ConfigDir
    Inputs <- MCInputs
SPECIFICATION Spec
\* The program stops.
CHECK_DEADLOCK FALSE
INVARIANT PathLoadedOnce
INVARIANT ExecutedIsWellFormed
INVARIANT RefusedForAReason
