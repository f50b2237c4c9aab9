SPECIFICATION Spec
CONSTANTS
    Peers = {p1}
    Conns = {c1, c2, c3}
    NoPeer = NoPeer
    NoConn = NoConn
SYMMETRY Symmetry
PROPERTY OnlyLastRegisteredRemoves
CHECK_DEADLOCK FALSE
