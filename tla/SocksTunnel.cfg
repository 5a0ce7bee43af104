SPECIFICATION ClientSpec
CONSTANTS
    MaxConns = 3
    MaxBuilds = 3
    Coalesced = FALSE
    Closing = TRUE
    da1 = da1
    da2 = da2
    da3 = da3
    Documents <- SmallDocuments
    TrustSets <- SmallTrustSets
    Times = {0, 2}
    Signer <- OneAuthority
    Trusted = {da1}
    Life = 1
    MaxTime = 2
    MaxFetches = 2
    MaxCuts = 1
    MaxStops = 1
    ByteBits = 2
    NetLen <- ShortAddresses
    Ports = {0, 1, 2}
    Policies <- SomePolicies
    Consensuses <- SomeConsensuses
    Wanted <- SomeTargets
    NoNet = NoNet
    n1 = n1
    n2 = n2
INVARIANTS
    
    QuorumsMeet
    
    PolicyFaithful
    PathSound
PROPERTIES
    StandbyKept
    ConnectionSettles
    StartsFresh
CHECK_DEADLOCK FALSE
