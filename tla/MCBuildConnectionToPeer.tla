---------------------- MODULE MCBuildConnectionToPeer ----------------------
(* Model checking of BuildConnectionToPeer with few addresses and items.   *)
EXTENDS BuildConnectionToPeer, TLC

\* Addresses are interchangeable, and so are the items users write.
Symmetry == Permutations(Candidates) \cup Permutations(Data)
=============================================================================
