SPECIFICATION FairSpec
CONSTANTS
    Peers = {p1, p2}
    MaxRequests = 3
    MAX_QUEUED_REQUESTS = 2
    KnownCapacity = 1
    NoPeer = NoPeer
INVARIANTS
    NoRequestLost
    WaitsOnlyForUnknownPeer
PROPERTIES
    RequestsResolve
    DropEndsTasks
    ResponderReregisters
\* With the registry dropped, nothing is left to do.
CHECK_DEADLOCK FALSE
