CONSTANTS
    p1 = p1
    p2 = p2
    Proc <- MCProc
    Version <- MCVersion
    Request <- MCRequest
    MaxStarts = 3
    MaxBehind = 2
SPECIFICATION Spec
SYMMETRY Symmetry
INVARIANTS
    EnvComplete
    CommandsAddUp
    PathsExisted
CHECK_DEADLOCK FALSE
