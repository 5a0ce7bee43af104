SPECIFICATION Spec
CONSTANTS
    Nodes = {A, B}
    Conns = {x1, x2}
    None = None
    Stopping = {}
    Misrouted = FALSE
    MaxCells = 0
    MaxBad = 0
    MaxFails = 0
INVARIANT DedupKeepsALink
CHECK_DEADLOCK FALSE
