SPECIFICATION FairSpec
CONSTANTS
    MaxCalls = 2
    MaxId = 2
    MaxData = 2
INVARIANTS
    StreamsSound
PROPERTIES
    NothingAfterEnd
    StreamsSettle
CHECK_DEADLOCK FALSE
