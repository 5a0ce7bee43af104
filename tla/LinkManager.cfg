SPECIFICATION Spec
CONSTANTS
    Nodes = {A, B, C}
    Conns = {x1, x2}
    None = None
    Stopping = {}
    Misrouted = TRUE
    MaxCells = 1
    MaxBad = 1
    MaxFails = 1
SYMMETRY Symmetry
INVARIANTS
    LinksSound
CHECK_DEADLOCK FALSE
