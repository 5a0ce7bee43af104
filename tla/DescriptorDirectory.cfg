SPECIFICATION FairSpec
CONSTANTS
    Inits = {p1}
    Absent = Absent
    Torn = Torn
    MaxTime = 1
    MaxMinted = 2
    MaxCrash = 1
    Lifetime = 1
    Callers = {c1, c2}
    MaxFetches = 2
    Files <- SomeFiles
    FirstRoom = 1
    CellRoom = 3
    BodySize = 3
INVARIANTS
    LookupSound
PROPERTIES
    AddressKept
    CacheNeverOlder
    LookupsSettle
CHECK_DEADLOCK FALSE
