SPECIFICATION Spec
CONSTANTS
    Peers = {srv, p1}
    Remote = srv
    MaxRequests = 1
    Capacity = 2
    NoPeer = NoPeer
INVARIANT HandlerNeverEnds
