---------------------------- MODULE MdnsRegistry ----------------------------
(***************************************************************************)
(* The registry provider that finds peers in the local network             *)
(* (src/registries/mdns.rs): callers of MdnsRegistry::find_peer, the task  *)
(* Discovery that answers them, the tasks fulfill_request spawns to        *)
(* connect, and the state machine MdnsResponder that announces this peer.  *)
(*                                                                         *)
(* A request for a peer that is not known yet is queued with a timer of    *)
(* 10 s; known peers are kept in an LRU cache for 60 s.                    *)
(***************************************************************************)
EXTENDS Naturals, Sequences, FiniteSets, SequencesExt

CONSTANTS
    Peers,                  \* peers in the local network, without this one
    MaxRequests,            \* bound: calls of find_peer
    MAX_QUEUED_REQUESTS,
    KnownCapacity,          \* capacity of known_peers
    NoPeer

ASSUME MdnsAssumption ==
    /\ NoPeer \notin Peers
    /\ MaxRequests \in Nat
    /\ MAX_QUEUED_REQUESTS \in Nat \ {0}
    /\ KnownCapacity \in Nat \ {0}

VARIABLES
    registry,           \* the MdnsRegistry is alive or dropped
    discovery,          \* the task Discovery
    request_recv,       \* the channel from the callers
    target,             \* the peer a request asks for
    slot,               \* the oneshot channel of a request
    known_peers,        \* least recently used first
    queued_requests,    \* peer -> the request waiting for it
    timers,             \* queued_requests_timeouts, named by their request
    connecting,         \* requests for which fulfill_request is connecting
    responder           \* state of MdnsResponder

vars == <<registry, discovery, request_recv, target, slot, known_peers,
          queued_requests, timers, connecting, responder>>

queueVars == <<known_peers, queued_requests, timers>>

\* Calls of find_peer, numbered in the order in which they are made.
Requests == 1..MaxRequests
NoRequest == 0

NothingQueued == [p \in Peers |-> NoRequest]

Init ==
    /\ registry = "alive"
    /\ discovery = "running"
    /\ request_recv = <<>>
    /\ target = [r \in Requests |-> NoPeer]
    /\ slot = [r \in Requests |-> "unused"]
    /\ known_peers = <<>>
    /\ queued_requests = NothingQueued
    /\ timers = {}
    /\ connecting = {}
    /\ responder = "RegisterResponder"

\* The senders in S are used, or dropped, which the receiver sees as well.
Resolve(S, value) == slot' = [r \in Requests |-> IF r \in S THEN value ELSE slot[r]]

Queued == {queued_requests[p] : p \in Peers} \ {NoRequest}

\* DiscoveryResult: a known peer, and whether any address came with it.
Result(p, addrs) == [peer |-> p, addrs |-> addrs]

IsKnown(p) == \E i \in DOMAIN known_peers : known_peers[i].peer = p
KnownResult(p) == known_peers[CHOOSE i \in DOMAIN known_peers : known_peers[i].peer = p]

\* The cache without p, which it holds at most once.
Without(p) ==
    IF IsKnown(p)
    THEN RemoveAt(known_peers, CHOOSE i \in DOMAIN known_peers : known_peers[i].peer = p)
    ELSE known_peers

\* External: LruCache::insert evicts the least recently used entry when full.
Insert(res) ==
    LET rest == Without(res.peer) IN
    Append(IF Len(rest) >= KnownCapacity THEN Tail(rest) ELSE rest, res)

-----------------------------------------------------------------------------
(* Callers *)

\* MdnsRegistry::find_peer: without Discovery the sender is dropped at once.
FindPeer(r, p) ==
    /\ registry = "alive"
    /\ slot[r] = "unused"
    /\ \A q \in 1..(r - 1) : slot[q] # "unused"
    /\ target' = [target EXCEPT ![r] = p]
    /\ IF discovery = "running"
       THEN /\ request_recv' = Append(request_recv, r)
            /\ Resolve({r}, "empty")
       ELSE /\ Resolve({r}, "dropped")
            /\ UNCHANGED request_recv
    /\ UNCHANGED <<registry, discovery, queueVars, connecting, responder>>

DropRegistry ==
    /\ registry = "alive"
    /\ registry' = "dropped"
    /\ UNCHANGED <<discovery, request_recv, target, slot, queueVars, connecting,
                   responder>>

-----------------------------------------------------------------------------
(* Discovery *)

\* The task is over and drops all it holds.
DiscoveryEnds(how) ==
    /\ discovery' = how
    /\ Resolve(ToSet(request_recv) \cup Queued, "dropped")
    /\ request_recv' = <<>>
    /\ known_peers' = <<>>
    /\ queued_requests' = NothingQueued
    /\ timers' = {}

\* Mutant: the queued request is fulfilled and stays in the queue.
PollResultsKeepsQueued(p, addrs) ==
    /\ discovery = "running"
    /\ queued_requests[p] # NoRequest => addrs
    /\ connecting' = connecting \cup ({queued_requests[p]} \ {NoRequest})
    /\ known_peers' = Insert(Result(p, addrs))
    /\ UNCHANGED <<registry, discovery, request_recv, target, slot,
                   queued_requests, timers, responder>>

\* poll_results: a response for p arrived. A queued request for p is fulfilled;
\* select_ok, called by fulfill_request, panics without any address. (The
\* responses of this peer itself and of other services are skipped.)
PollResults(p, addrs) ==
    /\ discovery = "running"
    /\ IF queued_requests[p] # NoRequest /\ ~addrs
       THEN /\ DiscoveryEnds("panicked")
            /\ UNCHANGED connecting
       ELSE /\ connecting' = connecting \cup ({queued_requests[p]} \ {NoRequest})
            /\ queued_requests' = [queued_requests EXCEPT ![p] = NoRequest]
            /\ known_peers' = Insert(Result(p, addrs))
            /\ UNCHANGED <<discovery, request_recv, slot, timers>>
    /\ UNCHANGED <<registry, target, responder>>

\* mDNS itself fails or ends.
MdnsFails ==
    /\ discovery = "running"
    /\ DiscoveryEnds("ended")
    /\ UNCHANGED <<registry, target, connecting, responder>>

\* Mutants: the request is taken out of the queue but its sender kept; the
\* request is left in the queue.
PollTimeoutsLeaksSender(r) ==
    /\ discovery = "running"
    /\ r \in timers
    /\ timers' = timers \ {r}
    /\ queued_requests' = [queued_requests EXCEPT ![target[r]] = NoRequest]
    /\ UNCHANGED <<registry, discovery, request_recv, target, slot, known_peers,
                   connecting, responder>>

PollTimeoutsKeepsRequest(r) ==
    /\ discovery = "running"
    /\ r \in timers
    /\ timers' = timers \ {r}
    /\ UNCHANGED <<registry, discovery, request_recv, target, slot, known_peers,
                   queued_requests, connecting, responder>>

\* poll_queued_requests_timeouts: the timer of request r elapsed. It removes
\* whatever request is queued for the peer by now.
PollQueuedRequestsTimeouts(r) ==
    LET p == target[r] IN
    /\ discovery = "running"
    /\ r \in timers
    /\ timers' = timers \ {r}
    /\ queued_requests' = [queued_requests EXCEPT ![p] = NoRequest]
    /\ Resolve({queued_requests[p]}, "dropped")
    /\ UNCHANGED <<registry, discovery, request_recv, target, known_peers,
                   connecting, responder>>

\* The limit counts the timers, those of fulfilled requests included.
QueueFull == Cardinality(timers) >= MAX_QUEUED_REQUESTS

\* One request in Discovery::poll: a known peer is connected to; otherwise the
\* request is queued, unless one for the peer is queued already or there are
\* too many, in which cases its sender is dropped.
PollRequest ==
    LET r == Head(request_recv)
        p == target[r]
    IN
    /\ discovery = "running"
    /\ request_recv # <<>>
    /\ \/ /\ IsKnown(p) /\ KnownResult(p).addrs
          /\ request_recv' = Tail(request_recv)
          /\ connecting' = connecting \cup {r}
          /\ known_peers' = Append(Without(p), KnownResult(p))
          /\ UNCHANGED <<discovery, slot, queued_requests, timers>>
       \/ /\ IsKnown(p) /\ ~KnownResult(p).addrs
          /\ DiscoveryEnds("panicked")
          /\ UNCHANGED connecting
       \/ /\ ~IsKnown(p)
          /\ queued_requests[p] # NoRequest \/ QueueFull
          /\ request_recv' = Tail(request_recv)
          /\ Resolve({r}, "dropped")
          /\ UNCHANGED <<discovery, connecting, queueVars>>
       \/ /\ ~IsKnown(p)
          /\ queued_requests[p] = NoRequest
          /\ ~QueueFull
          /\ request_recv' = Tail(request_recv)
          /\ queued_requests' = [queued_requests EXCEPT ![p] = r]
          /\ timers' = timers \cup {r}
          /\ UNCHANGED <<discovery, slot, connecting, known_peers>>
    /\ UNCHANGED <<registry, target, responder>>

\* The channel is closed and drained.
PollRequestNone ==
    /\ discovery = "running"
    /\ registry = "dropped"
    /\ request_recv = <<>>
    /\ DiscoveryEnds("ended")
    /\ UNCHANGED <<registry, target, connecting, responder>>

\* External: an entry of known_peers expires after 60 s. A timer for the peer
\* would be older than the entry, and only lasts 10 s.
KnownPeerExpires(p) ==
    /\ IsKnown(p)
    /\ \A r \in timers : target[r] # p
    /\ known_peers' = Without(p)
    /\ UNCHANGED <<registry, discovery, request_recv, target, slot,
                   queued_requests, timers, connecting, responder>>

\* The task spawned by fulfill_request: the first address that could be
\* connected to answers the request; the sender is dropped if there is none.
FulfillRequest(r, outcome) ==
    /\ r \in connecting
    /\ connecting' = connecting \ {r}
    /\ Resolve({r}, outcome)
    /\ UNCHANGED <<registry, discovery, request_recv, target, queueVars, responder>>

-----------------------------------------------------------------------------
(* MdnsResponder; every state looks for the shutdown first *)

\* Mutant: a registered responder does not look for the shutdown.
ResponderShutdownUnlessPolled ==
    /\ registry = "dropped"
    /\ responder \notin {"PollResponder", "ReadyState"}
    /\ responder' = "ReadyState"
    /\ UNCHANGED <<registry, discovery, request_recv, target, slot, queueVars, connecting>>

ResponderShutdown ==
    /\ registry = "dropped"
    /\ responder # "ReadyState"
    /\ responder' = "ReadyState"
    /\ UNCHANGED <<registry, discovery, request_recv, target, slot, queueVars, connecting>>

\* poll_register_responder: Responder::create succeeds only with a network.
RegisterResponder(network) ==
    /\ registry = "alive"
    /\ responder = "RegisterResponder"
    /\ responder' = IF network THEN "PollResponder" ELSE "WaitForRetry"
    /\ UNCHANGED <<registry, discovery, request_recv, target, slot, queueVars, connecting>>

\* Mutant: an error of the responder task ends the state machine.
ResponderReturnsForGood ==
    /\ registry = "alive"
    /\ responder = "PollResponder"
    /\ responder' = "ReadyState"
    /\ UNCHANGED <<registry, discovery, request_recv, target, slot, queueVars, connecting>>

\* poll_poll_responder: the responder task returned.
ResponderReturns ==
    /\ registry = "alive"
    /\ responder = "PollResponder"
    /\ responder' = "WaitForRetry"
    /\ UNCHANGED <<registry, discovery, request_recv, target, slot, queueVars, connecting>>

\* poll_wait_for_retry: the delay is over.
RetryResponder ==
    /\ registry = "alive"
    /\ responder = "WaitForRetry"
    /\ responder' = "RegisterResponder"
    /\ UNCHANGED <<registry, discovery, request_recv, target, slot, queueVars, connecting>>

Next ==
    \/ \E r \in Requests :
           \/ \E p \in Peers : FindPeer(r, p)
           \/ PollQueuedRequestsTimeouts(r)
           \/ \E outcome \in {"Found", "dropped"} : FulfillRequest(r, outcome)
    \/ DropRegistry
    \/ \E p \in Peers :
           \/ \E addrs \in BOOLEAN : PollResults(p, addrs)
           \/ KnownPeerExpires(p)
    \/ MdnsFails
    \/ PollRequest
    \/ PollRequestNone
    \/ ResponderShutdown
    \/ \E network \in BOOLEAN : RegisterResponder(network)
    \/ ResponderReturns
    \/ RetryResponder

Spec == Init /\ [][Next]_vars

\* The task Discovery is polled at least with every interval of mDNS, timers
\* elapse, connecting has timeouts, and once in a while there is a network.
Fairness ==
    /\ WF_vars(PollRequest)
    /\ WF_vars(PollRequestNone)
    /\ \A r \in Requests :
           /\ WF_vars(PollQueuedRequestsTimeouts(r))
           /\ WF_vars(\E outcome \in {"Found", "dropped"} :
                          FulfillRequest(r, outcome))
    /\ WF_vars(ResponderShutdown)
    /\ WF_vars(RetryResponder)
    /\ SF_vars(RegisterResponder(TRUE))

FairSpec == Spec /\ Fairness

-----------------------------------------------------------------------------
(* Properties *)

\* The type invariant: the states of Discovery, of its queue, of the requests
\* and of the responder; a panic and an end leave nothing in the queue.
TypeOK ==
    /\ registry \in {"alive", "dropped"}
    /\ discovery \in {"running", "ended", "panicked"}
    /\ request_recv \in Seq(Requests)
    /\ target \in [Requests -> Peers \cup {NoPeer}]
    /\ slot \in [Requests -> {"unused", "empty", "Found", "dropped"}]
    /\ known_peers \in Seq([peer : Peers, addrs : BOOLEAN])
    /\ queued_requests \in [Peers -> Requests \cup {NoRequest}]
    /\ timers \subseteq Requests
    /\ connecting \subseteq Requests
    /\ responder \in {"RegisterResponder", "PollResponder", "WaitForRetry", "ReadyState"}

\* Where the sender of a request can be.
InChannel(r) == \E i \in DOMAIN request_recv : request_recv[i] = r
InQueue(r) == \E p \in Peers : queued_requests[p] = r

\* No request is lost or answered twice: as long as its caller waits, its
\* sender is in exactly one place, the channel, the queue or a task that
\* connects, and afterwards in none (mdns.rs moves it between them).
NoRequestLost ==
    \A r \in Requests :
        /\ slot[r] = "empty" <=> InChannel(r) \/ InQueue(r) \/ r \in connecting
        /\ ~(InChannel(r) /\ InQueue(r))
        /\ r \in connecting => ~InChannel(r) /\ ~InQueue(r)
        /\ \A i, j \in DOMAIN request_recv :
               request_recv[i] = r /\ request_recv[j] = r => i = j
        /\ \A p, q \in Peers :
               queued_requests[p] = r /\ queued_requests[q] = r => p = q

\* Every queued request has its own timer running, so that it cannot wait for
\* ever for a peer that is not there (mdns.rs:290-295).
QueuedHasTimer ==
    \A p \in Peers : queued_requests[p] # NoRequest =>
        queued_requests[p] \in timers /\ target[queued_requests[p]] = p

\* No request waits for a peer that was discovered already: one that comes
\* after the response finds it in known_peers, one that came before it is
\* taken out of the queue by it (mdns.rs:206-210, 275-301).
WaitsOnlyForUnknownPeer ==
    \A p \in Peers : queued_requests[p] # NoRequest => ~IsKnown(p)

\* At most MAX_QUEUED_REQUESTS timers run, fulfilled requests included
\* (mdns.rs:40-41, 280-287).
QueueBounded == Cardinality(timers) <= MAX_QUEUED_REQUESTS

\* Every caller of find_peer gets an answer or an error: the future has no
\* timeout of its own and relies on Discovery dropping the sender.
RequestsResolve == \A r \in Requests : slot[r] = "empty" ~> slot[r] # "empty"

\* Dropping the MdnsRegistry ends both tasks that it started.
DropEndsTasks ==
    registry = "dropped" ~> discovery # "running" /\ responder = "ReadyState"

\* MdnsResponder "makes sure we have the responder registered/reregistered"
\* (mdns.rs:358): from any failure it gets back to a registered responder,
\* unless it is told to shut down.
ResponderReregisters ==
    responder # "PollResponder" ~> responder = "PollResponder" \/ registry = "dropped"
=============================================================================
