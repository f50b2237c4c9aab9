--------------------------- MODULE ConnectedPeers ---------------------------
(***************************************************************************)
(* What the registry promises to those who look a peer up, without tokens, *)
(* epochs, keys and transports: at most one connection is registered for a *)
(* peer, a new connection always takes the place of the one before, and a  *)
(* connection that ends is not registered any longer. The last step of a   *)
(* connection may also remove a connection that took its place: this much  *)
(* the tokens of registry.rs do not exclude. A panic under the mutex stops *)
(* the registry; nothing is registered or removed from then on.            *)
(*                                                                         *)
(* PeerRegistry and Context both implement this specification, so what     *)
(* Context assumes of the registry is what PeerRegistry does.              *)
(***************************************************************************)
CONSTANTS
    Peers,      \* identities of remote peers
    Conns,      \* connections, each used once
    NoPeer,
    NoConn

VARIABLES
    leadsTo,    \* the peer a live connection leads to
    ended,      \* connections that are over
    registered, \* the connection a look-up of a peer returns
    usable      \* no panic happened under the mutex

cvars == <<leadsTo, ended, registered, usable>>

Init ==
    /\ leadsTo = [c \in Conns |-> NoPeer]
    /\ ended = {}
    /\ registered = [p \in Peers |-> NoConn]
    /\ usable = TRUE

\* A new connection to p takes the entry of p.
Register(c, p) ==
    /\ usable
    /\ c \notin ended
    /\ leadsTo[c] = NoPeer
    /\ leadsTo' = [leadsTo EXCEPT ![c] = p]
    /\ registered' = [registered EXCEPT ![p] = c]
    /\ UNCHANGED <<ended, usable>>

\* A connection to p ends. Its own entry goes with it.
Unregister(c, p) ==
    /\ leadsTo[c] = p
    /\ leadsTo' = [leadsTo EXCEPT ![c] = NoPeer]
    /\ ended' = ended \cup {c}
    /\ \/ registered' = [registered EXCEPT ![p] = NoConn] /\ usable
       \/ registered' = registered /\ (usable => registered[p] # c)
    /\ UNCHANGED usable

\* With the registry gone a new connection ends before it is registered.
Refuse(c) ==
    /\ ~usable
    /\ c \notin ended
    /\ leadsTo[c] = NoPeer
    /\ ended' = ended \cup {c}
    /\ UNCHANGED <<leadsTo, registered, usable>>

\* A panic under the mutex.
Poison ==
    /\ usable' = FALSE
    /\ UNCHANGED <<leadsTo, ended, registered>>

Next ==
    \/ \E c \in Conns :
           \/ \E p \in Peers : Register(c, p) \/ Unregister(c, p)
           \/ Refuse(c)
    \/ Poison

Spec == Init /\ [][Next]_cvars
=============================================================================
