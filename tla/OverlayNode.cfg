SPECIFICATION OverlaySpec
CONSTANTS
    A = A
    B = B
    C = C
    None = None
    Wiped = Wiped
    Nodes = {A, B, C}
    Online = {A, B}
    Networks <- SeedLists
    MaxConns = 3
    MaxFaults = 1
    MaxExpired = 1
    MaxGossip = 1
    MaxData = 2
    MinEntries = 2
    MinSeconds = 2
    Keys44 = {k1, k2, k3}
    MaxPackets = 5
    Sources = {s1, s2}
    Destinations = {d1, d2}
    PerSource = 1
    PerDestination = 1
    Global = 2
    Window = 2
    MaxForwards = 4
    Candidates = {p1, p2, p3}
    Cadence = 30
    MaxRounds = 7
    Forwarding = {A, B, C}
    Linked <- Line
    AppSizes = {127, 896, 3967}
    Addresses = {2}
    MaxMessages = 1
    MaxHandOuts = 3
INVARIANTS
    
    HistoriesExact
    
PROPERTIES
    ChatDelivered
    HandshakeCompletes
CHECK_DEADLOCK FALSE
