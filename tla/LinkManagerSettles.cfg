SPECIFICATION Spec
CONSTANTS
    Nodes = {A, B}
    Conns = {x1}
    None = None
    Stopping = {A}
    Misrouted = FALSE
    MaxCells = 2
    MaxBad = 1
    MaxFails = 1
PROPERTY DialSettles
CHECK_DEADLOCK FALSE
