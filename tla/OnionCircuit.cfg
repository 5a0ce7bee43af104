SPECIFICATION CircuitSpec
CONSTANTS
    N = 3
    Frags = 2
    MaxData = 2
    MaxLoss = 1
    Initiators = {a, b, c}
    Ids = {1, 2}
    CellCapacity = 3
    RelayCapacity = 2
    Pieces = 4
    MaxConcurrent = 2
    MaxCopies = 1
INVARIANTS
    LayersAgree
    
PROPERTIES
    BuildsEnd
    ClientLearns
CHECK_DEADLOCK FALSE
