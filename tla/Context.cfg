SPECIFICATION FairSpec
CONSTANTS
    Calls = {k1, k2}
    Conns = {c1}
    NoConn = NoConn
INVARIANTS
    NotFoundIsUnanimous
    SearchWaitsForSomeone
PROPERTIES CallsResolve DropStopsEverything ImplementsConnectedPeers
\* With the Context dropped, nothing is left to do.
CHECK_DEADLOCK FALSE
