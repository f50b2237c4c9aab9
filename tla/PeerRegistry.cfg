SPECIFICATION FairSpec
CONSTANTS
    Peers = {p1, p2}
    Conns = {c1, c2, c3}
    NoPeer = NoPeer
    NoConn = NoConn
INVARIANTS NoDanglingEntry KeyHandedOverOnce
PROPERTIES OverwrittenNeverRemoves LostConnectionForgotten ImplementsConnectedPeers
\* Every connection may end: then nothing is left to do.
CHECK_DEADLOCK FALSE
