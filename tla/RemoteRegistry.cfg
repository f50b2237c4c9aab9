SPECIFICATION FairSpec
CONSTANTS
    Peers = {srv, p1, p2}
    Remote = srv
    MaxRequests = 2
    Capacity = 1
    NoPeer = NoPeer
INVARIANTS AskedExactlyOnce NoSenderLost
PROPERTIES AnswersAreTrue RequestsResolve DropEndsHandler
