SPECIFICATION Spec
CONSTANTS
    l1 = l1  l2 = l2  l3 = l3
    pA = pA  pB = pB
    Links = {l1, l2, l3}
    Peers = {pA, pB}
    PeerOf <- MCPeerOf
    Cids = {c1, c2}
    Objs = {o1, o2}
    NoSide = NoSide
    NoObj = NoObj
    CreateFrags = 2
    CreatedFrags = 2
    MaxDials = 1
SYMMETRY Symmetry
INVARIANTS
    MapAgrees
PROPERTIES
    TeardownPropagates
    
CHECK_DEADLOCK FALSE
VIEW View
