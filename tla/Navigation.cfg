\* Three fetches of two URLs over up to two connections, in each program; a page
\* just loaded, or one with three moves behind it.
SPECIFICATION FairNavigation
CONSTANTS
    MaxFetches = 3
    MaxAttempts = 2
    u1 = u1
    u2 = u2
    Urls = {u1, u2}
    Sessions <- ThreeMoves
INVARIANTS
    ConnectionsSound
PROPERTIES
    
    ImplementsHistory
CHECK_DEADLOCK FALSE
