SPECIFICATION FairSpec
CONSTANTS
    Clients = {1, 2}
    RetryLimit = 2
    MaxDeaths = 1
INVARIANTS
    RendezvousSound
PROPERTIES
    RendezvousAnswers
CHECK_DEADLOCK FALSE
