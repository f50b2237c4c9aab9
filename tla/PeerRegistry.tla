---------------------------- MODULE PeerRegistry ----------------------------
(***************************************************************************)
(* The peer registry of one process (src/registry.rs), the connection      *)
(* tasks that add and remove its entries (src/connection.rs) and the store *)
(* of verified public keys through which a connection learns whom it is    *)
(* connected to (src/authenticator.rs).                                    *)
(*                                                                         *)
(* Every operation on the registry or on the key store runs under a mutex, *)
(* so each is one atomic step; what interleaves is the life of the         *)
(* connections: handshake, pick-up by the library, loss of the transport,  *)
(* and the moment at which the connection task notices that loss.          *)
(***************************************************************************)
EXTENDS Naturals

CONSTANTS
    Peers,      \* identities (`PubKeyHash`) of remote peers
    Conns,      \* QUIC connections, each used once (their `ConnectionId`)
    NoPeer,     \* no identity known
    NoConn      \* no connection

ASSUME PeersAssumption == NoPeer \notin Peers
ASSUME ConnsAssumption == NoConn \notin Conns

VARIABLES
    transport,              \* the picoquic side of every connection
    incoming_con_pub_keys,  \* authenticator::Inner: the key stored for a connection
    task,                   \* what became of connection::Connection
    peer_identifier,        \* Connection::peer_identifier
    registration_token,     \* Connection::registration_token
    connected_peers,        \* registry::Inner::connected_peers
    epoch,                  \* history: how often the entry of a peer was removed
    regEpoch                \* history: the epoch in which a connection registered

vars == <<transport, incoming_con_pub_keys, task, peer_identifier,
          registration_token, connected_peers, epoch, regEpoch>>

\* The value (NewStreamHandle, RegistrationToken) of an occupied entry. The
\* stream handle is abstracted to the connection on which it opens streams.
Entry == [handle : Conns, token : Nat]

\* An entry that is not in the map.
Vacant == [handle |-> NoConn, token |-> 0]

Closed == {"eof", "error"}

Init ==
    /\ transport = [c \in Conns |-> "handshake"]
    /\ incoming_con_pub_keys = [c \in Conns |-> NoPeer]
    /\ task = [c \in Conns |-> "none"]
    /\ peer_identifier = [c \in Conns |-> NoPeer]
    /\ registration_token = [c \in Conns |-> 0]
    /\ connected_peers = [p \in Peers |-> Vacant]
    /\ epoch = [p \in Peers |-> 0]
    /\ regEpoch = [c \in Conns |-> 0]

-----------------------------------------------------------------------------
(* registry::Inner *)

Occupied(p) == connected_peers[p] # Vacant

\* Mutant: the token is not increased.
TokenForReused(p) == IF Occupied(p) THEN connected_peers[p].token ELSE 0

\* register_peer: an occupied entry is overwritten under the next token, a
\* vacant one starts again at token 0.
TokenFor(p) == IF Occupied(p) THEN connected_peers[p].token + 1 ELSE 0

RegisterPeer(p, c) ==
    /\ connected_peers' =
           [connected_peers EXCEPT ![p] = [handle |-> c, token |-> TokenFor(p)]]
    /\ registration_token' = [registration_token EXCEPT ![c] = TokenFor(p)]
    /\ regEpoch' = [regEpoch EXCEPT ![c] = epoch[p]]
    /\ UNCHANGED epoch

\* The token is the one of the entry.
UnregisterMatches(p, token) == Occupied(p) /\ connected_peers[p].token = token

\* unregister_peer: only the matching token removes the entry.
UnregisterPeer(p, token) ==
    IF UnregisterMatches(p, token)
    THEN /\ connected_peers' = [connected_peers EXCEPT ![p] = Vacant]
         /\ epoch' = [epoch EXCEPT ![p] = @ + 1]
    ELSE UNCHANGED <<connected_peers, epoch>>

-----------------------------------------------------------------------------
(* Authenticator *)

\* Authenticator::verify, called by picoquic during the handshake of c with a
\* peer that shows the certificate of p. The key is stored whenever the check
\* itself succeeded (`res.is_ok()`), whatever its verdict.
Verify(c, p, verdict) ==
    /\ transport[c] = "handshake"
    /\ incoming_con_pub_keys' = [incoming_con_pub_keys EXCEPT ![c] = p]
    /\ transport' = [transport EXCEPT ![c] = IF verdict THEN "open" ELSE "refused"]
    /\ UNCHANGED <<task, peer_identifier, registration_token, connected_peers,
                   epoch, regEpoch>>

\* verify returns an error (no certificate store answer, or no readable key):
\* nothing is stored and picoquic refuses the connection.
VerifyError(c) ==
    /\ transport[c] = "handshake"
    /\ transport' = [transport EXCEPT ![c] = "refused"]
    /\ UNCHANGED <<incoming_con_pub_keys, task, peer_identifier,
                   registration_token, connected_peers, epoch, regEpoch>>

\* Mutant: all keys are drained.
TakeKeyDrains(c) ==
    incoming_con_pub_keys' = [d \in Conns |-> NoPeer]

\* incoming_con_pub_key removes the key it returns.
TakeKey(c) ==
    incoming_con_pub_keys' = [incoming_con_pub_keys EXCEPT ![c] = NoPeer]

-----------------------------------------------------------------------------
(* Connection *)

\* The transport has finished its handshake; it may be lost again already.
Established(c) == transport[c] \in {"open"} \cup Closed

\* Connection::new, called by ContextInner::poll for an incoming connection
\* and by NewConnectionFuture::poll for an outgoing one; in both cases the new
\* Connection is spawned at once as a task. Without a key it fails.
NewConnection(c) ==
    LET key == incoming_con_pub_keys[c] IN
    /\ Established(c)
    /\ task[c] = "none"
    /\ TakeKey(c)
    /\ IF key = NoPeer
       THEN /\ task' = [task EXCEPT ![c] = "failed"]
            /\ UNCHANGED <<peer_identifier, registration_token,
                           connected_peers, epoch, regEpoch>>
       ELSE /\ RegisterPeer(key, c)
            /\ peer_identifier' = [peer_identifier EXCEPT ![c] = key]
            /\ task' = [task EXCEPT ![c] = "running"]
    /\ UNCHANGED transport

\* The NewConnectionFuture of an outgoing connection is dropped before it
\* resolved: the connections that only open a NAT port, the candidates that
\* lost against another one, and the ones a timeout gave up.
DropNewConnectionFuture(c) ==
    /\ task[c] = "none"
    /\ task' = [task EXCEPT ![c] = "dropped"]
    /\ UNCHANGED <<transport, incoming_con_pub_keys, peer_identifier,
                   registration_token, connected_peers, epoch, regEpoch>>

\* External: the QUIC connection is closed by the other side or fails.
TransportCloses(c, how) ==
    /\ transport[c] = "open"
    /\ transport' = [transport EXCEPT ![c] = how]
    /\ UNCHANGED <<incoming_con_pub_keys, task, peer_identifier,
                   registration_token, connected_peers, epoch, regEpoch>>

\* Mutant: the connection unregisters only when it was closed in order.
ConnectionEndsErrKeeps(c) ==
    /\ task[c] = "running"
    /\ transport[c] \in Closed
    /\ IF transport[c] = "eof"
       THEN UnregisterPeer(peer_identifier[c], registration_token[c])
       ELSE UNCHANGED <<connected_peers, epoch>>
    /\ task' = [task EXCEPT ![c] = "done"]
    /\ UNCHANGED <<transport, incoming_con_pub_keys, peer_identifier,
                   registration_token, regEpoch>>

\* Connection::poll finds the stream of incoming streams ended (None) or
\* failed (Err): both unregister the peer and end the task. (A poll that
\* yields a stream spawns an IncomingStream and changes nothing here.)
ConnectionEnds(c) ==
    /\ task[c] = "running"
    /\ transport[c] \in Closed
    /\ UnregisterPeer(peer_identifier[c], registration_token[c])
    /\ task' = [task EXCEPT ![c] = "done"]
    /\ UNCHANGED <<transport, incoming_con_pub_keys, peer_identifier,
                   registration_token, regEpoch>>

Next ==
    \E c \in Conns :
        \/ \E p \in Peers, verdict \in BOOLEAN : Verify(c, p, verdict)
        \/ VerifyError(c)
        \/ NewConnection(c)
        \/ DropNewConnectionFuture(c)
        \/ \E how \in Closed : TransportCloses(c, how)
        \/ ConnectionEnds(c)

Spec == Init /\ [][Next]_vars

\* A spawned task is polled again once the transport has something to report.
Fairness == \A c \in Conns : WF_vars(ConnectionEnds(c))

FairSpec == Spec /\ Fairness

-----------------------------------------------------------------------------
(* Properties *)

\* Every variable has its type; an entry is vacant or names a connection.
TypeOK ==
    /\ transport \in [Conns -> {"handshake", "open", "refused"} \cup Closed]
    /\ incoming_con_pub_keys \in [Conns -> Peers \cup {NoPeer}]
    /\ task \in [Conns -> {"none", "running", "done", "failed", "dropped"}]
    /\ peer_identifier \in [Conns -> Peers \cup {NoPeer}]
    /\ registration_token \in [Conns -> Nat]
    /\ connected_peers \in [Peers -> Entry \cup {Vacant}]
    /\ epoch \in [Peers -> Nat]
    /\ regEpoch \in [Conns -> Nat]

\* Whoever looks a peer up (`peer`, `has_peer`, `find_peer`) gets a handle to
\* a connection whose task is running and that leads to exactly that peer:
\* a connection never leaves its own entry behind when it ends, however many
\* other connections to the peer came and went meanwhile.
NoDanglingEntry ==
    \A p \in Peers : Occupied(p) =>
        /\ task[connected_peers[p].handle] = "running"
        /\ peer_identifier[connected_peers[p].handle] = p

\* An occupied entry carries the token and the epoch of its connection.
EntryTokenMatches(p) ==
    Occupied(p) =>
        /\ registration_token[connected_peers[p].handle] = connected_peers[p].token
        /\ regEpoch[connected_peers[p].handle] = epoch[p]

\* The token of c is that of the entry of p, which names c, or below it.
TokenBelowEntry(c, p) ==
    /\ Occupied(p)
    /\ \/ connected_peers[p].handle = c
       \/ registration_token[c] < connected_peers[p].token

\* A running connection registered in the current epoch of the entry of its
\* peer, which is then still occupied, or in an earlier one.
RegistrationInOrder(c) ==
    task[c] = "running" =>
        /\ peer_identifier[c] \in Peers
        /\ regEpoch[c] <= epoch[peer_identifier[c]]
        /\ regEpoch[c] = epoch[peer_identifier[c]]
               => TokenBelowEntry(c, peer_identifier[c])

\* Tokens order the registrations of one epoch of an entry: a running
\* connection that registered since the entry of its peer was last vacant
\* still finds the entry occupied, and its token is below the entry's unless
\* it is the one the entry names, whose token is the entry's. This is what
\* lets unregister_peer tell the last registration by comparing tokens.
TokensOrderRegistrations ==
    /\ \A p \in Peers : EntryTokenMatches(p)
    /\ \A c \in Conns : RegistrationInOrder(c)

\* The entry of p is removed in this step.
Removes(p) == Occupied(p) /\ connected_peers'[p] = Vacant

\* Connection c ends in this step.
Ends(c) == task[c] = "running" /\ task'[c] = "done"

\* While the entry of a peer stays occupied, only the connection registered
\* last removes it: a connection that registered in the same epoch and was
\* overwritten since leaves the entry alone when it ends.
OverwrittenNeverRemoves ==
    [][\A p \in Peers, c \in Conns :
           /\ Removes(p) /\ Ends(c) /\ peer_identifier[c] = p
           /\ regEpoch[c] = epoch[p]
           => connected_peers[p].handle = c]_vars

\* Connection::new finds a key for every connection whose handshake succeeded
\* (the `bail!` "Could not find public key for connection!" is not taken), and
\* no key stays in the store once its connection was picked up.
KeyHandedOverOnce ==
    \A c \in Conns :
        /\ task[c] = "none" /\ Established(c) => incoming_con_pub_keys[c] # NoPeer
        /\ task[c] # "failed"
        /\ task[c] \in {"running", "done"} => incoming_con_pub_keys[c] = NoPeer

\* The connections, and what a look-up of a peer returns.
Abstract == INSTANCE ConnectedPeers WITH
    leadsTo <- [c \in Conns |-> IF task[c] = "running" THEN peer_identifier[c]
                                ELSE NoPeer],
    ended <- {c \in Conns : task[c] = "done"},
    registered <- [p \in Peers |-> connected_peers[p].handle],
    usable <- TRUE

\* Tokens and key store implement the registry that ConnectedPeers describes:
\* every step of a connection is a registration that takes the entry over, an
\* end that gives up at least the own entry, or invisible to a look-up.
ImplementsConnectedPeers == Abstract!Spec

\* The registry stops handing out a connection whose transport is gone.
LostConnectionForgotten ==
    \A c \in Conns :
        transport[c] \in Closed /\ task[c] # "none"
            ~> \A p \in Peers : connected_peers[p].handle # c

\* registry.rs:17-19, "The token prevents to remove an valid entry of a peer,
\* if it is connected multiple times. Only the last registered connection, with
\* the correct token, can remove the peer from the registry."
OnlyLastRegisteredRemoves ==
    [][\A p \in Peers : Removes(p) => Ends(connected_peers[p].handle)]_vars
=============================================================================
