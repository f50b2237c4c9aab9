--------------------------- MODULE RemoteRegistry ---------------------------
(***************************************************************************)
(* The registry provider that asks a remote peer for searched peers        *)
(* (src/registries/remote.rs): the callers of RemoteRegistry::find_peer,   *)
(* the task ConnectionHandler with its OutgoingStream, and IncomingStream, *)
(* the task that answers on the remote peer.                               *)
(*                                                                         *)
(* One poll of OutgoingStream drains the queue of requests and then the    *)
(* stream; each item is a step of its own here, because callers, the       *)
(* remote peer and the transport run concurrently with the poll. The       *)
(* request for a peer that is already asked for joins the pending one.     *)
(***************************************************************************)
EXTENDS Naturals, Sequences

CONSTANTS
    Peers,      \* peers that can be searched
    Remote,     \* the remote peer itself
    MaxRequests, \* bound: calls of find_peer
    Capacity,   \* messages the write buffer takes before start_send is NotReady
    NoPeer

ASSUME RemoteAssumption == Remote \in Peers /\ NoPeer \notin Peers
ASSUME CapacityAssumption == Capacity \in Nat \ {0} /\ MaxRequests \in Nat

VARIABLES
    registry,           \* the RemoteRegistry is alive or dropped
    handler,            \* state of ConnectionHandler
    find_peer_request,  \* the unbounded channel to the handler
    requests,           \* OutgoingStream::requests: peer -> waiting senders
    target,             \* the peer a request asks for
    caller,             \* state of the TimeoutRequest future
    slot,               \* the oneshot channel of a request
    link,               \* the stream to the remote peer
    toRemote, toLocal,  \* messages on the stream
    connected_peers,    \* the registry of the remote peer
    unsent,             \* history: peers whose Find or answer was refused by a
                        \* full write buffer of this stream
    observed            \* history: the true answers about a peer, at some time
                        \* since it was last asked for

vars == <<registry, handler, find_peer_request, requests, target, caller, slot,
          link, toRemote, toLocal, connected_peers, unsent, observed>>

callerVars == <<target, caller>>
linkVars == <<link, toRemote, toLocal, unsent>>
remoteVars == <<connected_peers, observed>>

Find(p) == [type |-> "Find", peer |-> p]
Answer(p, type) == [type |-> type, peer |-> p]

\* What the remote peer finds in its registry.
Lookup(p) == IF p \in connected_peers THEN "Found" ELSE "NotFound"

\* Calls of find_peer, numbered in the order in which they are made.
Requests == 1..MaxRequests

NoRequests == [p \in Peers |-> {}]

\* The handler task is over; the receiving half of its channel is dropped.
Over == {"ErrorState", "panicked"}

Init ==
    /\ registry = "alive"
    /\ handler = "RequestNextPeerAddr"
    /\ find_peer_request = <<>>
    /\ requests = NoRequests
    /\ target = [r \in Requests |-> NoPeer]
    /\ caller = [r \in Requests |-> "idle"]
    /\ slot = [r \in Requests |-> "empty"]
    /\ link = "none"
    /\ toRemote = <<>>
    /\ toLocal = <<>>
    /\ connected_peers = {}
    /\ unsent = {}
    /\ observed = [p \in Peers |-> {}]

\* The caller still holds the receiver.
IsCanceled(r) == caller[r] # "waiting"

\* The senders in S are used or dropped: a receiver that still waits for its
\* value sees it, or that the sender is gone.
Send(S, value) == slot' = [r \in Requests |-> IF r \in S THEN value ELSE slot[r]]

Pending == UNION {requests[p] : p \in Peers}

-----------------------------------------------------------------------------
(* Callers *)

\* RemoteRegistry::find_peer. With the handler gone, the `expect` panics.
FindPeer(r, p) ==
    /\ registry = "alive"
    /\ caller[r] = "idle"
    /\ \A q \in 1..(r - 1) : caller[q] # "idle"
    /\ target' = [target EXCEPT ![r] = p]
    /\ IF handler \in Over
       THEN /\ caller' = [caller EXCEPT ![r] = "panicked"]
            /\ UNCHANGED find_peer_request
       ELSE /\ caller' = [caller EXCEPT ![r] = "waiting"]
            /\ find_peer_request' = Append(find_peer_request, r)
    /\ UNCHANGED <<registry, handler, requests, slot, linkVars, remoteVars>>

\* TimeoutRequest::poll: the result, or an error if the sender was dropped.
RequestResolves(r) ==
    /\ caller[r] = "waiting"
    /\ slot[r] # "empty"
    /\ caller' = [caller EXCEPT ![r] = slot[r]]
    /\ UNCHANGED <<registry, handler, find_peer_request, requests, target, slot,
                   linkVars, remoteVars>>

\* The timeout, which is looked at first, or the caller dropped the future
\* because another registry was faster.
RequestGivenUp(r) ==
    /\ caller[r] = "waiting"
    /\ caller' = [caller EXCEPT ![r] = "gone"]
    /\ UNCHANGED <<registry, handler, find_peer_request, requests, target, slot,
                   linkVars, remoteVars>>

\* The Context, and with it the RemoteRegistry, is dropped.
DropRegistry ==
    /\ registry = "alive"
    /\ registry' = "dropped"
    /\ UNCHANGED <<handler, find_peer_request, requests, callerVars, slot,
                   linkVars, remoteVars>>

-----------------------------------------------------------------------------
(* ConnectionHandler *)

\* The handler ends and drops the channel and all senders it holds.
HandlerEnds(how) ==
    /\ handler' = how
    /\ find_peer_request' = <<>>
    /\ requests' = NoRequests
    /\ Send({find_peer_request[i] : i \in DOMAIN find_peer_request} \cup Pending, "canceled")
    /\ link' = "none"
    /\ toRemote' = <<>>
    /\ toLocal' = <<>>
    /\ unsent' = {}

\* poll_request_next_peer_addr: an address was resolved. Only now is the drop
\* of the registry noticed.
NextPeerAddr ==
    /\ handler = "RequestNextPeerAddr"
    /\ IF registry = "dropped"
       THEN HandlerEnds("ErrorState")
       ELSE /\ handler' = "ConnectToPeer"
            /\ UNCHANGED <<find_peer_request, requests, slot, linkVars>>
    /\ UNCHANGED <<registry, callerVars, remoteVars>>

\* Mutant: poll_handle_connection does not look for the drop.
NoticesDropUnlessConnected ==
    /\ handler = "ConnectToPeer"
    /\ registry = "dropped"
    /\ HandlerEnds("ErrorState")
    /\ UNCHANGED <<registry, callerVars, remoteVars>>

\* poll_connect_to_peer and poll_handle_connection notice the drop first.
NoticesDrop ==
    /\ handler \in {"ConnectToPeer", "HandleConnection"}
    /\ registry = "dropped"
    /\ HandlerEnds("ErrorState")
    /\ UNCHANGED <<registry, callerVars, remoteVars>>

Connected ==
    /\ handler = "ConnectToPeer"
    /\ handler' = "HandleConnection"
    /\ link' = "up"
    /\ UNCHANGED <<registry, find_peer_request, requests, callerVars, slot,
                   toRemote, toLocal, remoteVars, unsent>>

ConnectError ==
    /\ handler = "ConnectToPeer"
    /\ handler' = "RequestNextPeerAddr"
    /\ UNCHANGED <<registry, find_peer_request, requests, callerVars, slot,
                   linkVars, remoteVars>>

\* The connection is lost between opening the stream and sending its hello:
\* NewStreamFuture::poll, run by the handler, panics ("start sending stream
\* hello", "poll complete stream hello").
HelloPanics ==
    /\ handler = "ConnectToPeer"
    /\ HandlerEnds("panicked")
    /\ UNCHANGED <<registry, callerVars, remoteVars>>

\* Mutants: the requests already sent survive the connection; what was read
\* from it but not handled does.
ConnectionOverKeepsRequests(S) ==
    /\ handler' = "RequestNextPeerAddr"
    /\ Send(S, "canceled")
    /\ link' = "none"
    /\ toRemote' = <<>>
    /\ toLocal' = <<>>
    /\ unsent' = {}
    /\ UNCHANGED requests

ConnectionOverKeepsAnswers(S) ==
    /\ handler' = "RequestNextPeerAddr"
    /\ requests' = NoRequests
    /\ Send(Pending \cup S, "canceled")
    /\ link' = "none"
    /\ toRemote' = <<>>
    /\ unsent' = {}
    /\ UNCHANGED toLocal

\* poll_handle_connection: the OutgoingStream is over. Its channel is kept,
\* the senders it holds are dropped.
ConnectionOver(S) ==
    /\ handler' = "RequestNextPeerAddr"
    /\ requests' = NoRequests
    /\ Send(Pending \cup S, "canceled")
    /\ link' = "none"
    /\ toRemote' = <<>>
    /\ toLocal' = <<>>
    /\ unsent' = {}

\* The stream ended or failed, or no Pong came for three ping intervals.
StreamEnds ==
    /\ handler = "HandleConnection"
    /\ link = "eof" => toLocal = <<>>
    /\ ConnectionOver({})
    /\ UNCHANGED <<registry, find_peer_request, callerVars, remoteVars>>

\* Find is written; a full write buffer drops it, since the code does not look
\* whether start_send took the message.
SendFind(p) ==
    IF link # "up" \/ Len(toRemote) < Capacity
    THEN /\ toRemote' = IF link = "up" THEN Append(toRemote, Find(p)) ELSE toRemote
         /\ UNCHANGED unsent
    ELSE unsent' = unsent \cup {p} /\ UNCHANGED toRemote

\* One item of poll_find_peer_request.
PollFindPeerRequest ==
    LET r == Head(find_peer_request)
        p == target[r]
    IN
    /\ handler = "HandleConnection"
    /\ find_peer_request # <<>>
    /\ find_peer_request' = Tail(find_peer_request)
    /\ \/ /\ IsCanceled(r)
          /\ UNCHANGED <<handler, requests, slot, linkVars, observed>>
       \/ /\ ~IsCanceled(r) /\ p = Remote
          /\ Send({r}, "FoundWithHandle")
          /\ UNCHANGED <<handler, requests, linkVars, observed>>
       \/ /\ ~IsCanceled(r) /\ p # Remote /\ requests[p] # {}
          /\ requests' = [requests EXCEPT ![p] = @ \cup {r}]
          /\ UNCHANGED <<handler, slot, linkVars, observed>>
       \/ /\ ~IsCanceled(r) /\ p # Remote /\ requests[p] = {}
          /\ requests' = [requests EXCEPT ![p] = {r}]
          /\ SendFind(p)
          /\ observed' = [observed EXCEPT ![p] = {Lookup(p)}]
          /\ UNCHANGED <<handler, slot, link, toLocal>>
       \/ /\ ~IsCanceled(r) /\ p # Remote /\ requests[p] = {} /\ link # "up"
          /\ ConnectionOver({r})
          /\ UNCHANGED observed
    /\ UNCHANGED <<registry, callerVars, connected_peers>>

\* Mutant: an answer clears all requests instead of those for its peer.
PollAnswerClears ==
    LET msg == Head(toLocal) IN
    /\ handler = "HandleConnection"
    /\ toLocal # <<>>
    /\ toLocal' = Tail(toLocal)
    /\ Send(requests[msg.peer], IF msg.type = "Found" THEN "FoundRemote" ELSE "NotFound")
    /\ requests' = NoRequests
    /\ UNCHANGED <<registry, handler, find_peer_request, callerVars, link,
                   toRemote, remoteVars, unsent>>

\* One message in OutgoingStream::poll: all who wait for the peer are told.
PollAnswer ==
    LET msg == Head(toLocal) IN
    /\ handler = "HandleConnection"
    /\ toLocal # <<>>
    /\ toLocal' = Tail(toLocal)
    /\ Send(requests[msg.peer], IF msg.type = "Found" THEN "FoundRemote" ELSE "NotFound")
    /\ requests' = [requests EXCEPT ![msg.peer] = {}]
    /\ UNCHANGED <<registry, handler, find_peer_request, callerVars, link,
                   toRemote, remoteVars, unsent>>

-----------------------------------------------------------------------------
(* The remote peer *)

\* The answer is written, with the same disregard for a full write buffer.
SendAnswer(p) ==
    IF Len(toLocal) < Capacity
    THEN toLocal' = Append(toLocal, Answer(p, Lookup(p))) /\ UNCHANGED unsent
    ELSE unsent' = unsent \cup {p} /\ UNCHANGED toLocal

\* IncomingStream::poll answers from the registry as it is now.
RemoteAnswers ==
    LET p == Head(toRemote).peer IN
    /\ link = "up"
    /\ toRemote # <<>>
    /\ toRemote' = Tail(toRemote)
    /\ SendAnswer(p)
    /\ UNCHANGED <<registry, handler, find_peer_request, requests, callerVars,
                   slot, link, remoteVars>>

\* The remote peer closes its end; what it wrote before is still read.
RemoteCloses ==
    /\ link = "up"
    /\ link' = "eof"
    /\ toRemote' = <<>>
    /\ UNCHANGED <<registry, handler, find_peer_request, requests, callerVars,
                   slot, toLocal, remoteVars, unsent>>

\* The connection fails; what was in transit is lost.
LinkLost ==
    /\ link = "up"
    /\ link' = "lost"
    /\ toRemote' = <<>>
    /\ toLocal' = <<>>
    /\ UNCHANGED <<registry, handler, find_peer_request, requests, callerVars,
                   slot, remoteVars, unsent>>

\* Peers come and go at the remote peer.
RemoteRegistryChanges(p) ==
    /\ \/ /\ p \in connected_peers
          /\ connected_peers' = connected_peers \ {p}
          /\ observed' = [observed EXCEPT ![p] = @ \cup {"NotFound"}]
       \/ /\ p \notin connected_peers
          /\ connected_peers' = connected_peers \cup {p}
          /\ observed' = [observed EXCEPT ![p] = @ \cup {"Found"}]
    /\ UNCHANGED <<registry, handler, find_peer_request, requests, callerVars,
                   slot, linkVars>>

Next ==
    \/ \E r \in Requests :
           \/ \E p \in Peers : FindPeer(r, p)
           \/ RequestResolves(r)
           \/ RequestGivenUp(r)
    \/ DropRegistry
    \/ NextPeerAddr
    \/ NoticesDrop
    \/ Connected
    \/ ConnectError
    \/ HelloPanics
    \/ StreamEnds
    \/ PollFindPeerRequest
    \/ PollAnswer
    \/ RemoteAnswers
    \/ RemoteCloses
    \/ LinkLost
    \/ \E p \in Peers \ {Remote} : RemoteRegistryChanges(p)

Spec == Init /\ [][Next]_vars

\* The handler, the callers and the remote peer are polled when their input is
\* ready. A poll of HandleConnection takes the queued requests before it looks
\* at the stream, so requests are taken whenever connections keep being made.
\* Among repeated attempts to connect, one succeeds.
HandlerFairness ==
    /\ WF_vars(NoticesDrop)
    /\ SF_vars(Connected)
    /\ SF_vars(PollFindPeerRequest)
    /\ WF_vars(PollAnswer)
    /\ WF_vars(link # "up" /\ StreamEnds)
    /\ WF_vars(RemoteAnswers)
    /\ \A r \in Requests : WF_vars(RequestResolves(r))

\* Some resolver yields an address now and then.
FairSpec == Spec /\ HandlerFairness /\ WF_vars(NextPeerAddr)

\* GetNextAddr may wait forever: the test get_next_addr of remote.rs expects it
\* to, while its resolver fails.
FairSpecNoAddress == Spec /\ HandlerFairness

-----------------------------------------------------------------------------
(* Properties *)

\* Every variable has its type.
TypeOK ==
    /\ registry \in {"alive", "dropped"}
    /\ handler \in {"RequestNextPeerAddr", "ConnectToPeer", "HandleConnection"} \cup Over
    /\ find_peer_request \in Seq(Requests)
    /\ requests \in [Peers -> SUBSET Requests]
    /\ target \in [Requests -> Peers \cup {NoPeer}]
    /\ caller \in [Requests -> {"idle", "waiting", "FoundRemote", "FoundWithHandle",
                                "NotFound", "canceled", "gone", "panicked"}]
    /\ slot \in [Requests -> {"empty", "FoundRemote", "FoundWithHandle", "NotFound",
                              "canceled"}]
    /\ link \in {"none", "up", "eof", "lost"}
    /\ toRemote \in Seq([type : {"Find"}, peer : Peers])
    /\ toLocal \in Seq([type : {"Found", "NotFound"}, peer : Peers])
    /\ connected_peers \in SUBSET Peers
    /\ unsent \in SUBSET Peers
    /\ observed \in [Peers -> SUBSET {"Found", "NotFound"}]

\* A Find for p, or an answer about it, is under way.
Asked(p) == \E i \in DOMAIN toRemote : toRemote[i].peer = p
Answered(p) == \E i \in DOMAIN toLocal : toLocal[i].peer = p

\* For every peer with waiting requests exactly one Find or answer is under
\* way, for every other peer none: `requests` and the stream never disagree,
\* however requests are joined, given up or answered. The exception is a peer
\* whose Find (remote.rs:458) or answer (remote.rs:566) a full write buffer
\* refused: nothing is under way for it, its requests are kept all the same,
\* and later ones only join them, so it is not asked for again before the
\* connection is over.
AskedExactlyOnce ==
    link = "up" =>
        /\ \A p \in Peers :
               /\ Asked(p) \/ Answered(p) <=> requests[p] # {} /\ p \notin unsent
               /\ ~(Asked(p) /\ Answered(p))
               /\ p \in unsent => requests[p] # {}
        /\ \A i, j \in DOMAIN toRemote : toRemote[i].peer = toRemote[j].peer => i = j
        /\ \A i, j \in DOMAIN toLocal : toLocal[i].peer = toLocal[j].peer => i = j

InChannel(r) == \E i \in DOMAIN find_peer_request : find_peer_request[i] = r

\* A caller that waits for a value has its sender in exactly one place: in the
\* channel to the handler, or among those that wait for the peer it asked for.
\* So no reconnect, error or end of the handler leaves a caller behind without
\* its sender being used or dropped.
NoSenderLost ==
    /\ \A i, j \in DOMAIN find_peer_request :
           find_peer_request[i] = find_peer_request[j] => i = j
    /\ \A r \in Requests : \A p \in Peers :
           r \in requests[p] => p = target[r] /\ ~InChannel(r)
    /\ \A r \in Requests : caller[r] = "waiting" /\ slot[r] = "empty" =>
           InChannel(r) \/ r \in requests[target[r]]

\* A request is answered FoundRemote (NotFound) only if the peer was (was not)
\* connected to the remote peer at some time since the Find that answers it was
\* written; answers are never taken for those of another peer, or of an earlier
\* connection.
AnswersAreTrue ==
    [][\A r \in Requests : slot'[r] # slot[r] =>
           /\ slot'[r] = "FoundRemote" => "Found" \in observed[target[r]]
           /\ slot'[r] = "NotFound" => "NotFound" \in observed[target[r]]]_vars

\* Every request is answered or fails even without the help of its timeout: the
\* queue survives reconnects, and a lost connection fails what it was asked.
\* Only a request for a peer whose Find, or the answer to it, a full write
\* buffer refused is left to its timeout.
RequestsResolve ==
    \A r \in Requests :
        caller[r] = "waiting" ~> caller[r] # "waiting" \/ target[r] \in unsent

\* remote.rs:105-106, "Will make sure that the `ConnectionHandlerContext` is
\* dropped the `RemoteRegistry` is dropped."
DropEndsHandler == registry = "dropped" ~> handler \in Over

\* remote.rs:147, "ConnectionHandler should never end!": while the registry is
\* alive, the handler is there to take requests.
HandlerNeverEnds == registry = "alive" => handler \notin Over
=============================================================================
