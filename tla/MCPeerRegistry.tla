--------------------------- MODULE MCPeerRegistry ---------------------------
(* Model checking of PeerRegistry on small sets of peers and connections.  *)
EXTENDS PeerRegistry, TLC

\* Peers are interchangeable, and so are connections.
Symmetry == Permutations(Peers) \cup Permutations(Conns)
=============================================================================
