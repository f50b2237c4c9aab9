----------------------- MODULE BuildConnectionToPeer -----------------------
(***************************************************************************)
(* Building a connection from peer0 to peer2 with the help of peer1, the   *)
(* peer both are connected to (src/build_connection_to_peer.rs), with the  *)
(* part of src/incoming_stream.rs that runs on peer1 and peer2.            *)
(*                                                                         *)
(* peer0 runs the state machine BuildConnectionToPeer, peer1 relays        *)
(* between two streams, peer2 runs BuildConnectionToPeerRemote. One        *)
(* attempt is modelled; the three peers are independent tasks that         *)
(* communicate over two streams, each of which can be lost at any time.    *)
(***************************************************************************)
EXTENDS Naturals, Sequences

CONSTANTS
    Candidates,     \* the addresses at which peer2 says it is reachable
    Data            \* items the users write to a proxied stream, each once

\* ExchangeAddressInformation always carries the internet address.
ASSUME CandidatesAssumption == Candidates # {}

VARIABLES
    p0,             \* state of BuildConnectionToPeer on peer0
    timer,          \* the Timeout of WaitingForConnection
    cand,           \* the NewConnectionFutures of peer0, one per address
    direct,         \* whom the connection selected by peer0 leads to
    result,         \* what the future of peer0 resolved to
    p1,             \* IncomingStream / handle_proxy_stream on peer1
    p2,             \* IncomingStream / BuildConnectionToPeerRemote on peer2
    direct2,        \* IncomingStream on peer2 for the stream on that connection
    internet_addr,  \* BuildConnectionToPeerRemote::internet_addr, an Option
    wire,           \* messages in transit, per direction of the two streams
    broken,         \* streams whose connection was lost
    passed,         \* streams pass_stream gave to the Context of peer2
    sent,           \* items written by the user of each end to a proxied stream
    got             \* items read by the user of each end from a proxied stream

vars == <<p0, timer, cand, direct, result, p1, p2, direct2, internet_addr, wire,
          broken, passed, sent, got>>

peer0Vars == <<p0, timer, cand, direct, result>>
peer1Vars == <<p1>>
peer2Vars == <<p2, direct2, internet_addr, passed>>
userVars  == <<sent, got>>

\* "p0p1" and "p1p0" are the two directions of the stream between peer0 and
\* peer1, "p1p2" and "p2p1" those of the stream between peer1 and peer2.
Channels == {"p0p1", "p1p0", "p1p2", "p2p1"}
StreamOf(ch) == IF ch \in {"p0p1", "p1p0"} THEN "s01" ELSE "s12"

\* StreamHello and BuildConnectionToPeerProtocol. "Eof": the writing end was
\* dropped. "Reset": reading fails because the connection is lost.
Protocol == {"ProxyBuildConnectionToPeer", "BuildConnectionToPeer",
             "InternetAddressInformation", "ExchangeAddressInformation",
             "ProxyConnection"}
Message == Protocol \cup {"Eof", "Reset"} \cup Data

\* The bytes of a user are no frame of a protocol, and no end of a stream.
ASSUME DataAssumption == Data \cap (Protocol \cup {"Eof", "Reset"}) = {}

Init ==
    /\ p0 = "WaitingForProxyStream"
    /\ timer = "off"
    /\ cand = [a \in Candidates |-> "none"]
    /\ direct = "none"
    /\ result = "none"
    /\ p1 = "none"
    /\ p2 = "none"
    /\ direct2 = "none"
    /\ internet_addr = "None"
    /\ wire = [ch \in Channels |-> <<>>]
    /\ broken = {}
    /\ passed = <<>>
    /\ sent = [u \in {"peer0", "peer2"} |-> <<>>]
    /\ got = [u \in {"peer0", "peer2"} |-> <<>>]

-----------------------------------------------------------------------------
(* External: the streams *)

\* Writing msgs to ch in the state w of the wires; a lost stream takes nothing.
Put(w, ch, msgs) ==
    IF StreamOf(ch) \in broken THEN w ELSE [w EXCEPT ![ch] = @ \o msgs]

Take(w, ch) == [w EXCEPT ![ch] = Tail(@)]

\* ch has a next message, and it is one of msgs.
Receives(ch, msgs) == wire[ch] # <<>> /\ Head(wire[ch]) \in msgs

Ended == {"Eof", "Reset"}

\* The reading end of ch is gone; the writer may learn that from a failing
\* write, or later, or never.
ReaderGone(ch) ==
    CASE ch = "p0p1" -> p1 = "done"
      [] ch = "p2p1" -> p1 = "done"
      [] ch = "p1p0" -> p0 \in {"PeerToPeerError", "Dropped"} \/ result = "direct"
      [] ch = "p1p2" -> p2 \in {"done", "panicked"}

WriteFails(ch) == StreamOf(ch) \in broken \/ ReaderGone(ch)
WriteWorks(ch) == StreamOf(ch) \notin broken

\* The connection below a stream is lost: what is in transit is lost with it
\* and both ends read an error.
Breaks(s) ==
    /\ s \notin broken
    /\ s = "s01" => p0 # "WaitingForProxyStream"
    /\ s = "s12" => p2 # "none"
    /\ broken' = broken \cup {s}
    /\ wire' = [ch \in Channels |->
                   IF StreamOf(ch) = s THEN <<"Reset">> ELSE wire[ch]]
    /\ UNCHANGED <<peer0Vars, peer1Vars, peer2Vars, userVars>>

-----------------------------------------------------------------------------
(* peer0: BuildConnectionToPeer *)

\* poll_proxy_stream, reached by transition within the poll of another state:
\* the proxy stream becomes the result.
ProxyStream ==
    \/ /\ WriteWorks("p0p1")
       /\ wire' = Put(wire, "p0p1", <<"ProxyConnection">>)
       /\ p0' = "ConnectionBuilt"
       /\ result' = "proxy"
    \/ /\ WriteFails("p0p1")
       /\ wire' = Put(wire, "p0p1", <<"Eof">>)
       /\ p0' = "PeerToPeerError"
       /\ UNCHANGED result

\* An error ends the future, which drops its proxy stream.
PeerToPeerError ==
    /\ p0' = "PeerToPeerError"
    /\ wire' = Put(wire, "p0p1", <<"Eof">>)

\* new, poll_waiting_for_proxy_stream: the stream to peer1 is opened and the
\* hello sent, or the attempt fails.
PollWaitingForProxyStream ==
    /\ p0 = "WaitingForProxyStream"
    /\ \/ /\ p0' = "WaitingForInternetAddressInformation"
          /\ p1' = "IncomingStream"
          /\ wire' = Put(wire, "p0p1", <<"ProxyBuildConnectionToPeer">>)
       \/ /\ p0' = "PeerToPeerError"
          /\ UNCHANGED <<p1, wire>>
    /\ UNCHANGED <<timer, cand, direct, result, peer2Vars, broken, userVars>>

PollWaitingForInternetAddressInformation ==
    /\ p0 = "WaitingForInternetAddressInformation"
    /\ wire["p1p0"] # <<>>
    /\ \/ /\ Receives("p1p0", {"InternetAddressInformation"})
          /\ WriteWorks("p0p1")
          /\ wire' = Put(Take(wire, "p1p0"), "p0p1", <<"ExchangeAddressInformation">>)
          /\ p0' = "WaitingForExchangeAddressInformation"
       \/ /\ Receives("p1p0", {"InternetAddressInformation"}) => WriteFails("p0p1")
          /\ PeerToPeerError
    /\ UNCHANGED <<timer, cand, direct, result, peer1Vars, peer2Vars, broken, userVars>>

\* Mutant: no timeout is started with the connections.
PollExchangeWithoutTimeout ==
    /\ p0 = "WaitingForExchangeAddressInformation"
    /\ Receives("p1p0", {"ExchangeAddressInformation"})
    /\ p0' = "WaitingForConnection"
    /\ wire' = Take(wire, "p1p0")
    /\ cand' = [a \in Candidates |-> "pending"]
    /\ UNCHANGED <<timer, direct, result, peer1Vars, peer2Vars, broken, userVars>>

\* The addresses of peer2 arrived: a connection to each is started, and with
\* them the timeout.
PollWaitingForExchangeAddressInformation ==
    /\ p0 = "WaitingForExchangeAddressInformation"
    /\ wire["p1p0"] # <<>>
    /\ IF Receives("p1p0", {"ExchangeAddressInformation"})
       THEN /\ p0' = "WaitingForConnection"
            /\ wire' = Take(wire, "p1p0")
            /\ timer' = "running"
            /\ cand' = [a \in Candidates |-> "pending"]
       ELSE PeerToPeerError /\ UNCHANGED <<timer, cand>>
    /\ UNCHANGED <<direct, result, peer1Vars, peer2Vars, broken, userVars>>

\* External: the outcome of the connection attempt to address a. An interface
\* address of peer2 may belong to another host in the network of peer0.
CandidateResolves(a, outcome) ==
    /\ p0 = "WaitingForConnection"
    /\ cand[a] = "pending"
    /\ cand' = [cand EXCEPT ![a] = outcome]
    /\ UNCHANGED <<p0, timer, direct, result, peer1Vars, peer2Vars, wire, broken, userVars>>

TimerElapses ==
    /\ timer = "running"
    /\ timer' = "elapsed"
    /\ UNCHANGED <<p0, cand, direct, result, peer1Vars, peer2Vars, wire, broken, userVars>>

\* Leaving WaitingForConnection drops the timeout and the other attempts.
LeaveWaitingForConnection ==
    /\ timer' = "off"
    /\ cand' = [a \in Candidates |-> "none"]

\* poll_waiting_for_connection looks at the timeout first.
ConnectionTimeout ==
    /\ p0 = "WaitingForConnection"
    /\ timer = "elapsed"
    /\ ProxyStream
    /\ LeaveWaitingForConnection
    /\ UNCHANGED <<direct, peer1Vars, peer2Vars, broken, userVars>>

\* The next candidate to resolve failed: fall back to the proxy stream.
ConnectionError(a) ==
    /\ p0 = "WaitingForConnection"
    /\ timer # "elapsed"
    /\ cand[a] = "failed"
    /\ ProxyStream
    /\ LeaveWaitingForConnection
    /\ UNCHANGED <<direct, peer1Vars, peer2Vars, broken, userVars>>

\* The next candidate to resolve is connected: it is selected, and a stream
\* requested on it.
ConnectionReady(a) ==
    /\ p0 = "WaitingForConnection"
    /\ timer # "elapsed"
    /\ cand[a] \in {"peer2", "other"}
    /\ p0' = "WaitingForStream"
    /\ direct' = cand[a]
    /\ LeaveWaitingForConnection
    /\ UNCHANGED <<result, peer1Vars, peer2Vars, wire, broken, userVars>>

\* Mutant: the proxy stream is kept.
StreamReadyKeepsProxy ==
    /\ p0 = "WaitingForStream"
    /\ p0' = "ConnectionBuilt"
    /\ result' = "direct"
    /\ direct2' = IF direct = "peer2" THEN "IncomingStream" ELSE "none"
    /\ UNCHANGED <<timer, cand, direct, peer1Vars, p2, internet_addr, passed,
                   wire, broken, userVars>>

\* The stream on the selected connection is open and its hello sent: it is the
\* result, and the proxy stream is dropped.
StreamReady ==
    /\ p0 = "WaitingForStream"
    /\ p0' = "ConnectionBuilt"
    /\ result' = "direct"
    /\ wire' = Put(wire, "p0p1", <<"Eof">>)
    /\ direct2' = IF direct = "peer2" THEN "IncomingStream" ELSE "none"
    /\ UNCHANGED <<timer, cand, direct, peer1Vars, p2, internet_addr, passed,
                   broken, userVars>>

StreamError ==
    /\ p0 = "WaitingForStream"
    /\ ProxyStream
    /\ UNCHANGED <<timer, cand, direct, peer1Vars, peer2Vars, broken, userVars>>

\* The user drops the future before it resolved, and with it all it holds.
DropFuture ==
    /\ p0 \notin {"ConnectionBuilt", "PeerToPeerError", "Dropped"}
    /\ p0' = "Dropped"
    /\ wire' = IF p0 = "WaitingForProxyStream" THEN wire ELSE Put(wire, "p0p1", <<"Eof">>)
    /\ LeaveWaitingForConnection
    /\ UNCHANGED <<direct, result, peer1Vars, peer2Vars, broken, userVars>>

-----------------------------------------------------------------------------
(* peer1: IncomingStream, handle_proxy_stream, prepare_streams_for_building *)

\* IncomingStream::poll reads the hello. handle_proxy_stream asks the registry
\* for peer2; without an entry the stream is just dropped, as it is when the
\* hello does not arrive in time or the stream ends.
Peer1Hello ==
    /\ p1 = "IncomingStream"
    /\ \/ /\ Receives("p0p1", {"ProxyBuildConnectionToPeer"})
          /\ p1' = "OpeningStream"
          /\ wire' = Take(wire, "p0p1")
       \/ /\ p1' = "done"
          /\ wire' = Put(wire, "p1p0", <<"Eof">>)
    /\ UNCHANGED <<peer0Vars, peer2Vars, broken, userVars>>

\* Mutant: only peer0 is told its internet address.
Peer1PreparesOne ==
    /\ p1 = "OpeningStream"
    /\ WriteWorks("p1p0")
    /\ p1' = "Relaying"
    /\ p2' = "IncomingStream"
    /\ wire' = Put(Put(wire, "p1p0", <<"InternetAddressInformation">>),
                   "p1p2", <<"BuildConnectionToPeer">>)
    /\ UNCHANGED <<peer0Vars, direct2, internet_addr, passed, broken, userVars>>

\* The stream to peer2 is open and its hello sent. Both peers are told their
\* internet address before anything is relayed.
Peer1Prepares ==
    /\ p1 = "OpeningStream"
    /\ WriteWorks("p1p0")
    /\ p1' = "Relaying"
    /\ p2' = "IncomingStream"
    /\ wire' = Put(Put(wire, "p1p0", <<"InternetAddressInformation">>),
                   "p1p2", <<"BuildConnectionToPeer", "InternetAddressInformation">>)
    /\ UNCHANGED <<peer0Vars, direct2, internet_addr, passed, broken, userVars>>

\* Opening the stream to peer2 fails, or telling peer0 its address does, or
\* telling peer2 does because its connection is just lost: both streams are
\* dropped.
Peer1Fails ==
    /\ p1 = "OpeningStream"
    /\ p1' = "done"
    /\ \/ /\ wire' = Put(wire, "p1p0", <<"Eof">>)
          /\ UNCHANGED p2
       \/ /\ WriteFails("p1p0")
          /\ p2' = "IncomingStream"
          /\ wire' = Put(Put(wire, "p1p0", <<"Eof">>),
                         "p1p2", <<"BuildConnectionToPeer", "Eof">>)
       \/ /\ WriteWorks("p1p0")
          /\ wire' = Put(wire, "p1p0", <<"InternetAddressInformation", "Eof">>)
          /\ UNCHANGED p2
    /\ UNCHANGED <<peer0Vars, direct2, internet_addr, passed, broken, userVars>>

\* Mutant: a direction that ends only drops the stream it writes to.
RelayEndsOneWay(from, to) ==
    /\ p1 = "Relaying"
    /\ wire[from] # <<>>
    /\ \/ /\ ~Receives(from, Ended)
          /\ WriteWorks(to)
          /\ wire' = Put(Take(wire, from), to, <<Head(wire[from])>>)
          /\ UNCHANGED p1
       \/ /\ Receives(from, Ended) \/ WriteFails(to)
          /\ wire' = Put(wire, to, <<"Eof">>)
          /\ p1' = "done"
    /\ UNCHANGED <<peer0Vars, peer2Vars, broken, userVars>>

\* The relay is the `select` of the two directions: the first one to end, by
\* the end of its input or by an error, drops both streams.
Relay(from, to) ==
    /\ p1 = "Relaying"
    /\ wire[from] # <<>>
    /\ \/ /\ ~Receives(from, Ended)
          /\ WriteWorks(to)
          /\ wire' = Put(Take(wire, from), to, <<Head(wire[from])>>)
          /\ UNCHANGED p1
       \/ /\ Receives(from, Ended) \/ WriteFails(to)
          /\ wire' = Put(Put(wire, "p1p0", <<"Eof">>), "p1p2", <<"Eof">>)
          /\ p1' = "done"
    /\ UNCHANGED <<peer0Vars, peer2Vars, broken, userVars>>

-----------------------------------------------------------------------------
(* peer2: IncomingStream, BuildConnectionToPeerRemote *)

\* The future ends and drops its stream.
Peer2Ends ==
    /\ p2' = "done"
    /\ wire' = Put(wire, "p2p1", <<"Eof">>)

Peer2Hello ==
    /\ p2 = "IncomingStream"
    /\ \/ /\ Receives("p1p2", {"BuildConnectionToPeer"})
          /\ p2' = "BuildConnectionToPeerRemote"
          /\ wire' = Take(wire, "p1p2")
       \/ Peer2Ends
    /\ UNCHANGED <<peer0Vars, peer1Vars, direct2, internet_addr, passed, broken, userVars>>

Peer2InternetAddress ==
    /\ p2 = "BuildConnectionToPeerRemote"
    /\ Receives("p1p2", {"InternetAddressInformation"})
    /\ internet_addr' = "Some"
    /\ wire' = Take(wire, "p1p2")
    /\ UNCHANGED <<peer0Vars, peer1Vars, p2, direct2, passed, broken, userVars>>

\* The addresses of peer0 arrived: peer2 answers with its own and opens its NAT
\* towards peer0 (create_poke_connections, whose futures are dropped at once).
\* Without internet address the `expect` panics.
Peer2ExchangeAddresses ==
    /\ p2 = "BuildConnectionToPeerRemote"
    /\ Receives("p1p2", {"ExchangeAddressInformation"})
    /\ IF internet_addr = "Some"
       THEN \/ /\ WriteWorks("p2p1")
               /\ wire' = Put(Take(wire, "p1p2"), "p2p1", <<"ExchangeAddressInformation">>)
               /\ UNCHANGED p2
            \/ /\ WriteFails("p2p1")
               /\ Peer2Ends
       ELSE /\ p2' = "panicked"
            /\ wire' = Put(wire, "p2p1", <<"Eof">>)
    /\ UNCHANGED <<peer0Vars, peer1Vars, direct2, internet_addr, passed, broken, userVars>>

\* Mutant: what the protocol read ahead is not reinserted into the stream.
Peer2ProxyConnectionLosesBuffer ==
    /\ p2 = "BuildConnectionToPeerRemote"
    /\ Receives("p1p2", {"ProxyConnection"})
    /\ passed' = Append(passed, "proxy")
    /\ p2' = "passed"
    /\ wire' = [wire EXCEPT !["p1p2"] = <<>>]
    /\ UNCHANGED <<peer0Vars, peer1Vars, direct2, internet_addr, broken, userVars>>

Peer2ProxyConnection ==
    /\ p2 = "BuildConnectionToPeerRemote"
    /\ Receives("p1p2", {"ProxyConnection"})
    /\ passed' = Append(passed, "proxy")
    /\ p2' = "passed"
    /\ wire' = Take(wire, "p1p2")
    /\ UNCHANGED <<peer0Vars, peer1Vars, direct2, internet_addr, broken, userVars>>

\* Mutant: the stream is passed on when the protocol is over.
Peer2StreamEndsPasses ==
    /\ p2 = "BuildConnectionToPeerRemote"
    /\ Receives("p1p2", Ended)
    /\ passed' = Append(passed, "proxy")
    /\ p2' = "passed"
    /\ UNCHANGED <<peer0Vars, peer1Vars, direct2, internet_addr, wire, broken, userVars>>

\* The stream ends, fails or carries something that is no protocol message.
Peer2StreamEnds ==
    /\ p2 = "BuildConnectionToPeerRemote"
    /\ Receives("p1p2", Ended \cup Data \cup {"BuildConnectionToPeer",
                                              "ProxyBuildConnectionToPeer"})
    /\ Peer2Ends
    /\ UNCHANGED <<peer0Vars, peer1Vars, direct2, internet_addr, passed, broken, userVars>>

\* IncomingStream of peer2 for the stream on the direct connection, whose peer
\* is the one its hello names: the stream is passed on unless the hello comes
\* too late.
Peer2DirectHello ==
    /\ direct2 = "IncomingStream"
    /\ \/ direct2' = "passed" /\ passed' = Append(passed, "direct")
       \/ direct2' = "done" /\ UNCHANGED passed
    /\ UNCHANGED <<peer0Vars, peer1Vars, p2, internet_addr, wire, broken, userVars>>

-----------------------------------------------------------------------------
(* The users of a proxied stream *)

HasProxied(u) ==
    IF u = "peer0" THEN p0 = "ConnectionBuilt" /\ result = "proxy" ELSE p2 = "passed"

Outgoing(u) == IF u = "peer0" THEN "p0p1" ELSE "p2p1"
Incoming(u) == IF u = "peer0" THEN "p1p0" ELSE "p1p2"

UserWrites(u, d) ==
    /\ HasProxied(u)
    /\ WriteWorks(Outgoing(u))
    /\ \A v \in DOMAIN sent : \A i \in DOMAIN sent[v] : sent[v][i] # d
    /\ sent' = [sent EXCEPT ![u] = Append(@, d)]
    /\ wire' = Put(wire, Outgoing(u), <<d>>)
    /\ UNCHANGED <<peer0Vars, peer1Vars, peer2Vars, broken, got>>

UserReads(u) ==
    /\ HasProxied(u)
    /\ wire[Incoming(u)] # <<>>
    /\ ~Receives(Incoming(u), Ended)
    /\ got' = [got EXCEPT ![u] = Append(@, Head(wire[Incoming(u)]))]
    /\ wire' = Take(wire, Incoming(u))
    /\ UNCHANGED <<peer0Vars, peer1Vars, peer2Vars, broken, sent>>

\* A user drops its end.
UserCloses(u) ==
    /\ HasProxied(u)
    /\ IF u = "peer0" THEN p0' = "Dropped" /\ UNCHANGED p2
                      ELSE p2' = "done" /\ UNCHANGED p0
    /\ wire' = Put(wire, Outgoing(u), <<"Eof">>)
    /\ UNCHANGED <<timer, cand, direct, result, peer1Vars, direct2,
                   internet_addr, passed, broken, userVars>>

-----------------------------------------------------------------------------
Next ==
    \/ \E s \in {"s01", "s12"} : Breaks(s)
    \/ PollWaitingForProxyStream
    \/ PollWaitingForInternetAddressInformation
    \/ PollWaitingForExchangeAddressInformation
    \/ \E a \in Candidates :
           \/ \E outcome \in {"peer2", "other", "failed"} : CandidateResolves(a, outcome)
           \/ ConnectionError(a)
           \/ ConnectionReady(a)
    \/ TimerElapses
    \/ ConnectionTimeout
    \/ StreamReady
    \/ StreamError
    \/ DropFuture
    \/ Peer1Hello
    \/ Peer1Prepares
    \/ Peer1Fails
    \/ Relay("p0p1", "p1p2")
    \/ Relay("p2p1", "p1p0")
    \/ Peer2Hello
    \/ Peer2InternetAddress
    \/ Peer2ExchangeAddresses
    \/ Peer2ProxyConnection
    \/ Peer2StreamEnds
    \/ Peer2DirectHello
    \/ \E u \in {"peer0", "peer2"} :
           \/ \E d \in Data : UserWrites(u, d)
           \/ UserReads(u)
           \/ UserCloses(u)

Spec == Init /\ [][Next]_vars

\* Tasks are polled when their input is ready, timers elapse, and the
\* transport answers a request for a stream. Nothing is assumed about the
\* outcome of a connection attempt, the loss of streams or the users.
Fairness ==
    /\ WF_vars(PollWaitingForProxyStream)
    /\ WF_vars(PollWaitingForInternetAddressInformation)
    /\ WF_vars(PollWaitingForExchangeAddressInformation)
    /\ WF_vars(TimerElapses)
    /\ WF_vars(ConnectionTimeout)
    /\ WF_vars(StreamReady \/ StreamError)
    /\ WF_vars(Peer1Hello)
    /\ WF_vars(Peer1Prepares \/ Peer1Fails)
    /\ WF_vars(Relay("p0p1", "p1p2"))
    /\ WF_vars(Relay("p2p1", "p1p0"))
    /\ WF_vars(Peer2Hello)
    /\ WF_vars(Peer2InternetAddress \/ Peer2ExchangeAddresses
               \/ Peer2ProxyConnection \/ Peer2StreamEnds)
    /\ WF_vars(Peer2DirectHello)

FairSpec == Spec /\ Fairness

-----------------------------------------------------------------------------
(* Properties *)

\* Every variable has its type.
TypeOK ==
    /\ p0 \in {"WaitingForProxyStream", "WaitingForInternetAddressInformation",
               "WaitingForExchangeAddressInformation", "WaitingForConnection",
               "WaitingForStream", "ConnectionBuilt", "PeerToPeerError", "Dropped"}
    /\ timer \in {"off", "running", "elapsed"}
    /\ cand \in [Candidates -> {"none", "pending", "peer2", "other", "failed"}]
    /\ direct \in {"none", "peer2", "other"}
    /\ result \in {"none", "direct", "proxy"}
    /\ p1 \in {"none", "IncomingStream", "OpeningStream", "Relaying", "done"}
    /\ p2 \in {"none", "IncomingStream", "BuildConnectionToPeerRemote", "passed",
               "done", "panicked"}
    /\ direct2 \in {"none", "IncomingStream", "passed", "done"}
    /\ internet_addr \in {"None", "Some"}
    /\ wire \in [Channels -> Seq(Message)]
    /\ broken \in SUBSET {"s01", "s12"}
    /\ passed \in Seq({"direct", "proxy"})
    /\ sent \in [{"peer0", "peer2"} -> Seq(Data)]
    /\ got \in [{"peer0", "peer2"} -> Seq(Message)]

\* BuildConnectionToPeerRemote always knows its internet address when the
\* addresses of peer0 arrive: the `expect` "Internet address should already be
\* set!" holds through every relay, loss and timeout.
InternetAddressSet == p2 # "panicked"

\* One attempt gives the Context of peer2 at most one stream, and one of the
\* kind (direct or proxied) that peer0 got.
PeersAgreeOnStream ==
    /\ Len(passed) <= 1
    /\ \A i \in DOMAIN passed : passed[i] = result

\* What a user reads from a proxied stream is what the other user wrote, in
\* order: no message of the build protocol reaches a user, and the change from
\* the build protocol to the user's loses or repeats nothing.
ProxiedDataIntact ==
    /\ \E n \in 0 .. Len(sent["peer0"]) : got["peer2"] = SubSeq(sent["peer0"], 1, n)
    /\ \E n \in 0 .. Len(sent["peer2"]) : got["peer0"] = SubSeq(sent["peer2"], 1, n)

\* No item of user data is ever read as a message of the build protocol: while
\* BuildConnectionToPeerRemote runs, data follows ProxyConnection on the wire.
DataFollowsSwitch ==
    p2 \in {"IncomingStream", "BuildConnectionToPeerRemote"} =>
        \A i \in DOMAIN wire["p1p2"] : wire["p1p2"][i] \in Data =>
            \E j \in 1 .. i : wire["p1p2"][j] = "ProxyConnection"

\* The future of peer0 resolves, unless the user drops it.
BuildResolves == <>(p0 \in {"ConnectionBuilt", "PeerToPeerError", "Dropped"})

\* Once peer0 no longer needs the proxy stream, the tasks that peer1 and peer2
\* run for it end: no relay is left behind.
HelpersEnd ==
    (p0 \in {"PeerToPeerError", "Dropped"} \/ result = "direct")
        ~> (p1 \in {"none", "done"} /\ p2 \in {"none", "passed", "done"})

\* A proxied result of peer0 is no dead end: peer2 gets the other end of the
\* stream, or peer0 reads that the stream is over (or drops it itself).
ProxyReachesPeer2 ==
    result = "proxy" ~>
        \/ Len(passed) = 1
        \/ p0 = "Dropped"
        \/ \E i \in DOMAIN wire["p1p0"] : wire["p1p0"][i] \in Ended

\* build_connection_to_peer.rs:32-46, "try to reach peer2 via all known
\* addresses", "select successful created connection", "[timeout or no
\* connection] --> use proxy stream as result": while an attempt can still
\* succeed, only the timeout switches to the proxy stream.
ProxyIsLastResort ==
    [][p0 = "WaitingForConnection" /\ result' = "proxy" =>
           \/ timer = "elapsed"
           \/ \A a \in Candidates : cand[a] = "failed"]_vars

\* tests/integration.rs:182, "Did not connect to requested peer": a direct
\* stream returned for peer2 leads to peer2.
DirectStreamLeadsToPeer == result = "direct" => direct = "peer2"
=============================================================================
