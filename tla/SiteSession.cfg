\* Three pipelined requests of every kind, cut anywhere; a file that changes once.
CONSTANTS
    MaxRequests = 3
    MaxUnits = 2
    Sizes = {1, 2, 3}
    MaxBody = 2
    MaxChanges = 1
    MaxHeld = 2
    Processes = {p1, p2}
    Seeds = {s1, s2}
    MaxCommands = 3
    CircuitPaths <- SharedRelay
    MaxTorChanges = 3
SPECIFICATION SumSpec
INVARIANTS
    AnswersTrue
    ServesPrepared
    FilesKept
    ShownIsTrue
PROPERTIES
    ImplementsConversation
    PartsSettle
CHECK_DEADLOCK FALSE
