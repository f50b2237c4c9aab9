----------------------------- MODULE UserStreams ----------------------------
(***************************************************************************)
(* Streams between the users of two peers, from NewStreamHandle::new_stream *)
(* to the user who takes the stream from the Context and reads from it     *)
(* (src/stream.rs, src/strategies/mod.rs, src/incoming_stream.rs and the   *)
(* channel of src/context.rs). peer0 and peer2 are connected directly, or  *)
(* both to peer1, which then relays their streams.                         *)
(*                                                                         *)
(* The model follows one stream at a time, in the direction of its opener, *)
(* and each of the two ends may open the next one from the handle that its *)
(* stream carries. A stream is a pipeline of one or two hops. On each hop  *)
(* the writer hands chunks to the send channel of the transport, and the   *)
(* reader gets chunks of any size from it.                                 *)
(***************************************************************************)
EXTENDS Naturals, Sequences

CONSTANTS
    Capacity,   \* chunks that the send channel of a stream takes
    BufSize,    \* room in the read buffer of Framed
    MaxData,    \* bound: data written to one stream
    MaxStreams  \* bound: streams opened one after the other

\* A new stream takes the two frames that a relay writes at its start.
ASSUME SizesAssumption ==
    /\ {Capacity, BufSize, MaxData, MaxStreams} \subseteq Nat
    /\ Capacity >= 2
    /\ BufSize >= 1

VARIABLES
    proxied,    \* the two peers are connected by way of peer1
    up,         \* connections that are not lost
    opened,     \* number of streams opened
    opener,     \* who opened the current one
    handle,     \* NewStreamHandle of each end's last Stream
    out,        \* per hop: chunks in the send channel
    net,        \* per hop: what the transport carries
    overflow,   \* per hop: read_overflow of the reader
    finished,   \* per hop: the writer is done with the stream
    reader,     \* per hop: what became of the stream on the reading side
    request,    \* the hello that the relay, then BuildConnectionToPeerRemote works on
    incoming,   \* the Stream in new_stream_recv, by its handle
    context,    \* the Context of each user
    ready,      \* the opener's user has the stream
    sent,       \* what the opener wrote
    received,   \* what the user at the other end read
    intact,     \* history: no connection was lost under the stream
    eof         \* the reading user has seen the end

pipes == <<out, net, overflow>>
dataVars == <<sent, received, intact, eof>>
vars == <<proxied, up, opened, opener, handle, pipes, finished, reader, request,
          incoming, context, ready, dataVars>>

Ends == {"peer0", "peer2"}
Relay == "peer1"
Peers == Ends \cup {Relay}
Hops == {1, 2}

OtherEnd(x) == IF x = "peer0" THEN "peer2" ELSE "peer0"

\* The peer that the connection of an end leads to.
Neighbour(x) == IF proxied THEN Relay ELSE OtherEnd(x)

\* The last hop, the one that the other end reads from.
LastHop == IF proxied THEN 2 ELSE 1

\* The connection under a hop.
Link(h) ==
    IF h = 1 THEN {opener, Neighbour(opener)} ELSE {Relay, OtherEnd(opener)}

\* The two peers of that connection.
Writer(h) == IF h = 1 THEN opener ELSE Relay
Reader(h) == IF h = LastHop THEN OtherEnd(opener) ELSE Relay

Message(kind, peer) == [kind |-> kind, peer |-> peer]
Datum(n) == [kind |-> "data", n |-> n]
Data == {Datum(n) : n \in 1..MaxData}

NoHandle == [peer |-> "nobody", proxy |-> FALSE]

\* peer0 has a connection and a handle to its neighbour (Connection::new).
Init ==
    /\ proxied \in BOOLEAN
    /\ up = IF proxied THEN {{x, Relay} : x \in Ends} ELSE {Ends}
    /\ opened = 0
    /\ opener = "peer0"
    /\ handle = [x \in Ends |-> IF x = "peer0" THEN [peer |-> Neighbour(x), proxy |-> FALSE]
                                ELSE NoHandle]
    /\ out = [h \in Hops |-> <<>>]
    /\ net = [h \in Hops |-> <<>>]
    /\ overflow = [h \in Hops |-> <<>>]
    /\ finished = [h \in Hops |-> FALSE]
    /\ reader = [h \in Hops |-> "none"]
    /\ request = Message("none", "nobody")
    /\ incoming = NoHandle
    /\ context = [p \in Peers |-> "running"]
    /\ ready = FALSE
    /\ sent = <<>>
    /\ received = <<>>
    /\ intact = TRUE
    /\ eof = FALSE

-----------------------------------------------------------------------------
(* Opening a stream *)

\* The stream before is delivered or dropped.
Idle == opened = 0 \/ \E h \in Hops : reader[h] \in {"delivered", "over"}

\* A frame is written and flushed, then the protocol of the stream changes
\* (From<ProtocolStrategiesStream>): what the send channel did not take is in
\* the write buffer that into_parts drops.
SendFrame(chunks, frame) ==
    IF Len(chunks) < Capacity THEN Append(chunks, <<frame>>) ELSE chunks

\* NewStreamFuture::poll: the hello is sent, and the Stream is made for the
\* peer at the far end.
StartStream(x, hello, stream, usable) ==
    /\ Idle
    /\ opened < MaxStreams
    /\ {x, Neighbour(x)} \in up
    /\ opened' = opened + 1
    /\ opener' = x
    /\ handle' = IF usable THEN [handle EXCEPT ![x] = stream] ELSE handle
    /\ out' = [h \in Hops |-> IF h = 1 THEN SendFrame(<<>>, hello) ELSE <<>>]
    /\ net' = [h \in Hops |-> <<>>]
    /\ overflow' = [h \in Hops |-> <<>>]
    /\ finished' = [h \in Hops |-> FALSE]
    /\ reader' = [h \in Hops |-> IF h = 1 THEN "waiting" ELSE "none"]
    /\ request' = Message("none", "nobody")
    /\ incoming' = NoHandle
    /\ ready' = usable
    /\ sent' = <<>>
    /\ received' = <<>>
    /\ intact' = TRUE
    /\ eof' = FALSE
    /\ UNCHANGED <<proxied, up, context>>

\* NewStreamHandle::new_stream. Stream::new makes the handle of the new stream
\* one for the same peer and the same way.
NewStream(x) ==
    /\ handle[x].peer \in Ends
    /\ IF handle[x].proxy
       THEN StartStream(x, Message("UserProxy", handle[x].peer),
                        [peer |-> handle[x].peer, proxy |-> TRUE], TRUE)
       ELSE StartStream(x, Message("User", x),
                        [peer |-> handle[x].peer, proxy |-> FALSE], TRUE)

\* The first relayed stream is the one of BuildConnectionToPeer, opened with
\* new_stream_with_hello on the connection to the relay.
NewProxyStream ==
    /\ proxied
    /\ opened = 0
    /\ StartStream("peer0", Message("ProxyBuildConnectionToPeer", "peer2"),
                   NoHandle, FALSE)

-----------------------------------------------------------------------------
(* strategies::Stream *)

\* copy_data: what fits into the buffer, and the rest.
CopyData(src, size) ==
    LET len == IF Len(src) < size THEN Len(src) ELSE size
    IN  <<SubSeq(src, 1, len), SubSeq(src, len + 1, Len(src))>>

\* Mutant: data is put back behind the overflow.
ReinsertDataBehind(data, rest) == rest \o data

\* reinsert_data: in front of what Read has left over.
ReinsertData(data, rest) == data \o rest

\* FStream::poll, and the start of Read::read: the overflow comes first, else
\* the transport yields what has arrived, in pieces of any size.
NextChunk(h, chunk) ==
    IF overflow[h] # <<>>
    THEN chunk = overflow[h] /\ UNCHANGED net
    ELSE /\ \E n \in 1..Len(net[h]) : chunk = SubSeq(net[h], 1, n)
         /\ net' = [net EXCEPT ![h] = SubSeq(@, Len(chunk) + 1, Len(@))]

\* The chunks that NextChunk can yield.
Chunks(h) ==
    {overflow[h]} \cup {SubSeq(net[h], 1, n) : n \in 1..Len(net[h])}

\* A frame is read by Framed, which reads ahead as far as its buffer goes. Then
\* the protocol changes: what is left in the buffer is reinserted.
ReadFrame(h, chunk) ==
    LET copied == CopyData(chunk, BufSize) IN
    /\ NextChunk(h, chunk)
    /\ overflow' = [overflow EXCEPT ![h] = ReinsertData(Tail(copied[1]), copied[2])]

\* Write::write and Sink::start_send: the chunk is taken or the caller waits.
Write ==
    /\ ready
    /\ ~finished[1]
    /\ Link(1) \in up
    /\ Len(out[1]) < Capacity
    /\ Len(sent) < MaxData
    /\ sent' = Append(sent, Datum(Len(sent) + 1))
    /\ out' = [out EXCEPT ![1] = Append(@, <<Datum(Len(sent) + 1)>>)]
    /\ UNCHANGED <<proxied, up, opened, opener, handle, net, overflow, finished, reader,
                   request, incoming, context, ready, received, intact, eof>>

\* The opener's user drops the stream, or BuildConnectionToPeer has no use for it
\* any more. (AsyncWrite::shutdown only flushes: StreamWrapper has no close of
\* its own.)
OpenerDrops ==
    /\ reader[1] # "none"
    /\ ~finished[1]
    /\ finished' = [finished EXCEPT ![1] = TRUE]
    /\ UNCHANGED <<proxied, up, opened, opener, handle, pipes, reader, request, incoming,
                   context, ready, dataVars>>

\* External: the transport takes a chunk from the send channel.
Transport(h) ==
    /\ out[h] # <<>>
    /\ Link(h) \in up
    /\ net' = [net EXCEPT ![h] = @ \o Head(out[h])]
    /\ out' = [out EXCEPT ![h] = Tail(@)]
    /\ UNCHANGED <<proxied, up, opened, opener, handle, overflow, finished, reader, request,
                   incoming, context, ready, dataVars>>

\* External: a connection is lost, with all that it carries.
ConnectionLost(c) ==
    /\ c \in up
    /\ up' = up \ {c}
    /\ LET cut == {h \in 1..LastHop : Link(h) = c} IN
       /\ out' = [h \in Hops |-> IF h \in cut THEN <<>> ELSE out[h]]
       /\ net' = [h \in Hops |-> IF h \in cut THEN <<>> ELSE net[h]]
    /\ intact' = FALSE
    /\ UNCHANGED <<proxied, opened, opener, handle, overflow, finished, reader, request,
                   incoming, context, ready, sent, received, eof>>

-----------------------------------------------------------------------------
(* IncomingStream, on the side that reads from a hop *)

\* PassStreamToContext::pass_stream: the channel is unbounded, and a Context
\* that is gone drops the stream. Stream::new makes the handle.
PassStream(h, peer, is_proxy) ==
    IF context[Reader(h)] = "dropped"
    THEN /\ reader' = [reader EXCEPT ![h] = "over"]
         /\ UNCHANGED incoming
    ELSE /\ reader' = [reader EXCEPT ![h] = "passed"]
         /\ incoming' = [peer |-> peer, proxy |-> is_proxy]

\* Mutant: a relayed stream is taken for a direct one.
HelloUserDirect(h, hello) ==
    hello.kind = "User" /\ PassStream(h, hello.peer, FALSE) /\ UNCHANGED request

\* A stream for the user. It is relayed if it is not from the peer of the
\* connection.
HelloUser(h, hello) ==
    /\ hello.kind = "User"
    /\ PassStream(h, hello.peer, hello.peer # Writer(h))
    /\ UNCHANGED request

\* A stream to be relayed: handle_proxy_stream looks the peer up and drops the
\* stream if it is not connected.
HelloProxy(h, hello) ==
    /\ hello.kind \in {"UserProxy", "ProxyBuildConnectionToPeer"}
    /\ reader' = [reader EXCEPT ![h] = IF {Relay, hello.peer} \in up THEN "opening" ELSE "over"]
    /\ request' = hello
    /\ UNCHANGED incoming

\* BuildConnectionToPeerRemote takes over.
HelloBuild(h, hello) ==
    /\ hello.kind = "BuildConnectionToPeer"
    /\ reader' = [reader EXCEPT ![h] = "building"]
    /\ request' = hello
    /\ UNCHANGED incoming

\* IncomingStream::poll when the first message is there. Anything but a hello
\* is a decoding error.
PollHello(h) ==
    /\ reader[h] = "waiting"
    /\ \E chunk \in Chunks(h) :
       /\ ReadFrame(h, chunk)
       /\ LET hello == Head(chunk) IN
          \/ HelloUser(h, hello)
          \/ HelloProxy(h, hello)
          \/ HelloBuild(h, hello)
          \/ /\ hello.kind \in {"data", "ProxyConnection", "InternetAddressInformation"}
             /\ reader' = [reader EXCEPT ![h] = "over"]
             /\ UNCHANGED <<request, incoming>>
    /\ UNCHANGED <<proxied, up, opened, opener, handle, out, finished, context, ready, dataVars>>

\* The stream ends, its connection is lost or its timeout is over before the
\* hello was read. The timeout is polled first, so the hello may be there.
HelloTimeout(h) ==
    /\ reader[h] = "waiting"
    /\ reader' = [reader EXCEPT ![h] = "over"]
    /\ UNCHANGED <<proxied, up, opened, opener, handle, pipes, finished, request, incoming,
                   context, ready, dataVars>>

\* BuildConnectionToPeerRemote::poll, as far as the stream goes: the address of
\* the relay is taken in, ProxyConnection passes the stream to the user. What
\* Framed has read ahead stays in front of the rest.
PollBuild(h) ==
    /\ reader[h] = "building"
    /\ \E chunk \in Chunks(h) :
       /\ ReadFrame(h, chunk)
       /\ CASE Head(chunk).kind = "InternetAddressInformation" ->
                 UNCHANGED <<reader, incoming>>
            [] Head(chunk).kind = "ProxyConnection" ->
                 PassStream(h, request.peer, TRUE)
            [] OTHER ->
                 reader' = [reader EXCEPT ![h] = "over"] /\ UNCHANGED incoming
    /\ UNCHANGED <<proxied, up, opened, opener, handle, out, finished, request, context, ready,
                   dataVars>>

\* Context::poll hands the stream to the user, as long as ContextInner lives.
ContextPoll(h) ==
    /\ reader[h] = "passed"
    /\ context[Reader(h)] = "running"
    /\ reader' = [reader EXCEPT ![h] = "delivered"]
    /\ handle' = IF Reader(h) \in Ends THEN [handle EXCEPT ![Reader(h)] = incoming] ELSE handle
    /\ UNCHANGED <<proxied, up, opened, opener, pipes, finished, request, incoming, context,
                   ready, dataVars>>

\* ContextInner ends: Context::poll returns an error from now on, whatever is in
\* the channel.
ContextEnds(p) ==
    /\ context[p] = "running"
    /\ context' = [context EXCEPT ![p] = "ended"]
    /\ UNCHANGED <<proxied, up, opened, opener, handle, pipes, finished, reader, request,
                   incoming, ready, dataVars>>

\* The user drops the Context, and the channel with the streams in it.
ContextDropped(p) ==
    /\ context[p] # "dropped"
    /\ context' = [context EXCEPT ![p] = "dropped"]
    /\ reader' = [h \in Hops |-> IF reader[h] = "passed" /\ Reader(h) = p THEN "over"
                                 ELSE reader[h]]
    /\ UNCHANGED <<proxied, up, opened, opener, handle, pipes, finished, request, incoming,
                   ready, dataVars>>

-----------------------------------------------------------------------------
(* Relaying: handle_proxy_stream *)

\* The hello of the second stream names the peer that asks, by the identifier
\* that its connection has.
RelayHello(peer) ==
    IF request.kind = "UserProxy" THEN Message("User", peer)
    ELSE Message("BuildConnectionToPeer", peer)

\* Mutant: prepare_streams comes before the hello.
RelayPreludePreparedFirst(hello) ==
    IF request.kind = "UserProxy" THEN SendFrame(<<>>, hello)
    ELSE SendFrame(SendFrame(<<>>, Message("InternetAddressInformation", Relay)), hello)

\* What the relay writes to the second stream on its own account: the hello and,
\* for building a connection, the address it sees (prepare_stream_for_building).
RelayPrelude(hello) ==
    IF request.kind = "UserProxy" THEN SendFrame(<<>>, hello)
    ELSE SendFrame(SendFrame(<<>>, hello), Message("InternetAddressInformation", Relay))

\* The second stream is open, and the two are joined.
RelayOpens ==
    /\ reader[1] = "opening"
    /\ Link(2) \in up
    /\ out' = [out EXCEPT ![2] = RelayPrelude(RelayHello(Writer(1)))]
    /\ reader' = [reader EXCEPT ![1] = "relaying", ![2] = "waiting"]
    /\ UNCHANGED <<proxied, up, opened, opener, handle, net, overflow, finished, request,
                   incoming, context, ready, dataVars>>

\* Mutant: only the transport is polled, and what Framed had read ahead of the
\* hello waits for ever.
RelayForwardStuck ==
    /\ reader[1] = "relaying"
    /\ overflow[1] = <<>>
    /\ Link(2) \in up
    /\ Len(out[2]) < Capacity
    /\ \E chunk \in Chunks(1) :
       /\ NextChunk(1, chunk)
       /\ out' = [out EXCEPT ![2] = Append(@, chunk)]
    /\ UNCHANGED <<proxied, up, opened, opener, handle, overflow, finished, reader, request,
                   incoming, context, ready, dataVars>>

\* Mutant: the relay does not wait for room in the send channel.
RelayForwardUnbounded ==
    /\ reader[1] = "relaying"
    /\ Link(2) \in up
    /\ \E chunk \in Chunks(1) :
       /\ NextChunk(1, chunk)
       /\ out' = [out EXCEPT ![2] = Append(@, chunk)]
    /\ overflow' = [overflow EXCEPT ![1] = <<>>]
    /\ UNCHANGED <<proxied, up, opened, opener, handle, finished, reader, request, incoming,
                   context, ready, dataVars>>

\* send_all moves a chunk from the first stream to the second.
RelayForward ==
    /\ reader[1] = "relaying"
    /\ Link(2) \in up
    /\ Len(out[2]) < Capacity
    /\ \E chunk \in Chunks(1) :
       /\ NextChunk(1, chunk)
       /\ out' = [out EXCEPT ![2] = Append(@, chunk)]
    /\ overflow' = [overflow EXCEPT ![1] = <<>>]
    /\ UNCHANGED <<proxied, up, opened, opener, handle, finished, reader, request, incoming,
                   context, ready, dataVars>>

\* The stream has no more to yield: its writer is done, or its connection lost.
Exhausted(h) ==
    /\ overflow[h] = <<>>
    /\ net[h] = <<>>
    /\ out[h] = <<>>
    /\ finished[h] \/ Link(h) \notin up

\* Mutant: the relay stops as soon as its peer is done.
RelayEndsEarly ==
    /\ reader[1] \in {"opening", "relaying"}
    /\ finished[1]
    /\ reader' = [reader EXCEPT ![1] = "over"]
    /\ finished' = [finished EXCEPT ![2] = TRUE]
    /\ UNCHANGED <<proxied, up, opened, opener, handle, pipes, request, incoming, context,
                   ready, dataVars>>

\* Mutant: a second stream that cannot be opened leaves the first one behind.
RelayEndsOnlyRelaying ==
    /\ reader[1] = "relaying"
    /\ Exhausted(1) \/ Link(2) \notin up \/ reader[2] = "over"
    /\ reader' = [reader EXCEPT ![1] = "over"]
    /\ finished' = [finished EXCEPT ![2] = TRUE]
    /\ intact' = (intact /\ Exhausted(1))
    /\ UNCHANGED <<proxied, up, opened, opener, handle, pipes, request, incoming, context,
                   ready, sent, received, eof>>

\* One of the two send_all is done or fails, and select drops both streams: the
\* first one is exhausted, or the second one is gone.
RelayEnds ==
    /\ \/ reader[1] = "opening" /\ Link(2) \notin up
       \/ /\ reader[1] = "relaying"
          /\ Exhausted(1) \/ Link(2) \notin up \/ reader[2] = "over"
    /\ reader' = [reader EXCEPT ![1] = "over"]
    /\ finished' = [finished EXCEPT ![2] = TRUE]
    /\ intact' = (intact /\ Exhausted(1))
    /\ UNCHANGED <<proxied, up, opened, opener, handle, pipes, request, incoming, context,
                   ready, sent, received, eof>>

\* poll_proxy_stream: BuildConnectionToPeer has got an answer from the relay but
\* no connection. It tells the other end and hands out the stream.
SwitchToProxy ==
    /\ ~ready
    /\ ~finished[1]
    /\ reader[1] = "relaying"
    /\ Link(1) \in up
    /\ out' = [out EXCEPT ![1] = SendFrame(@, Message("ProxyConnection", "nobody"))]
    /\ ready' = TRUE
    /\ handle' = [handle EXCEPT ![opener] = [peer |-> "peer2", proxy |-> TRUE]]
    /\ UNCHANGED <<proxied, up, opened, opener, net, overflow, finished, reader, request,
                   incoming, context, dataVars>>

-----------------------------------------------------------------------------
(* The user at the other end *)

\* Read::read with a buffer of the given size.
UserRead(h, size) ==
    /\ reader[h] = "delivered"
    /\ \E chunk \in Chunks(h) :
       LET copied == CopyData(chunk, size) IN
       /\ NextChunk(h, chunk)
       /\ overflow' = [overflow EXCEPT ![h] = copied[2]]
       /\ received' = received \o copied[1]
    /\ UNCHANGED <<proxied, up, opened, opener, handle, out, finished, reader, request, incoming,
                   context, ready, sent, intact, eof>>

\* FStream::poll: the whole chunk.
UserPoll(h) ==
    /\ reader[h] = "delivered"
    /\ \E chunk \in Chunks(h) :
       /\ NextChunk(h, chunk)
       /\ overflow' = [overflow EXCEPT ![h] = <<>>]
       /\ received' = received \o chunk
    /\ UNCHANGED <<proxied, up, opened, opener, handle, out, finished, reader, request, incoming,
                   context, ready, sent, intact, eof>>

\* The end of the stream: Ok(0) or None, or an error.
UserEof(h) ==
    /\ reader[h] = "delivered"
    /\ Exhausted(h)
    /\ eof' = TRUE
    /\ reader' = [reader EXCEPT ![h] = "over"]
    /\ UNCHANGED <<proxied, up, opened, opener, handle, pipes, finished, request, incoming,
                   context, ready, sent, received, intact>>

\* The stream is over before it reached the user, or the user drops it.
StreamDropped(h) ==
    /\ \/ reader[h] = "building" /\ Exhausted(h)
       \/ reader[h] = "delivered"
    /\ reader' = [reader EXCEPT ![h] = "over"]
    /\ UNCHANGED <<proxied, up, opened, opener, handle, pipes, finished, request, incoming,
                   context, ready, dataVars>>

-----------------------------------------------------------------------------
HopStep(h) ==
    \/ Transport(h)
    \/ PollHello(h)
    \/ HelloTimeout(h)
    \/ PollBuild(h)
    \/ ContextPoll(h)
    \/ \E size \in 1..BufSize : UserRead(h, size)
    \/ UserPoll(h)
    \/ UserEof(h)
    \/ StreamDropped(h)

Next ==
    \/ \E x \in Ends : NewStream(x)
    \/ NewProxyStream
    \/ Write
    \/ OpenerDrops
    \/ SwitchToProxy
    \/ \E h \in Hops : HopStep(h)
    \/ RelayOpens
    \/ RelayForward
    \/ RelayEnds
    \/ \E c \in up : ConnectionLost(c)
    \/ \E p \in Ends : ContextEnds(p) \/ ContextDropped(p)

Spec == Init /\ [][Next]_vars

\* The tasks of the runtime go on, and so does the transport while there is a
\* connection. The user polls the Context and reads its stream.
Fairness ==
    /\ \A h \in Hops : /\ WF_vars(Transport(h))
                       /\ WF_vars(PollHello(h))
                       /\ WF_vars(PollBuild(h))
                       /\ WF_vars(ContextPoll(h))
                       /\ WF_vars(UserRead(h, 1) \/ UserEof(h))
                       /\ WF_vars(reader[h] # "delivered" /\ StreamDropped(h))
                       /\ WF_vars(Exhausted(h) /\ HelloTimeout(h))
    /\ WF_vars(RelayOpens)
    /\ WF_vars(RelayForward)
    /\ WF_vars(RelayEnds)
    /\ WF_vars(SwitchToProxy \/ (~ready /\ OpenerDrops))

FairSpec == Spec /\ Fairness

-----------------------------------------------------------------------------
(* Properties *)

Kinds == {"none", "User", "UserProxy", "BuildConnectionToPeer", "ProxyBuildConnectionToPeer",
          "InternetAddressInformation", "ProxyConnection"}
Items == {Message(k, p) : k \in Kinds, p \in Peers \cup {"nobody"}} \cup Data
Handles == [peer : Peers \cup {"nobody"}, proxy : BOOLEAN]
Stages == {"none", "waiting", "opening", "relaying", "building", "passed", "delivered", "over"}

\* Every variable has its type, and no send channel holds more than Capacity.
TypeOK ==
    /\ proxied \in BOOLEAN
    /\ up \subseteq {{p, q} : p, q \in Peers}
    /\ opened \in 0..MaxStreams
    /\ opener \in Ends
    /\ handle \in [Ends -> Handles]
    /\ out \in [Hops -> Seq(Seq(Items))]
    /\ \A h \in Hops : Len(out[h]) <= Capacity
    /\ net \in [Hops -> Seq(Items)]
    /\ overflow \in [Hops -> Seq(Items)]
    /\ finished \in [Hops -> BOOLEAN]
    /\ reader \in [Hops -> Stages]
    /\ request \in Items
    /\ incoming \in Handles
    /\ context \in [Peers -> {"running", "ended", "dropped"}]
    /\ ready \in BOOLEAN
    /\ sent \in Seq(Data)
    /\ received \in Seq(Data)
    /\ intact \in BOOLEAN
    /\ eof \in BOOLEAN

\* The items of a sequence of chunks.
Flatten(chunks) ==
    LET flat[i \in 0..Len(chunks)] == IF i = 0 THEN <<>> ELSE flat[i - 1] \o chunks[i]
    IN  flat[Len(chunks)]

\* What is under way on a hop, in the order in which it will be read.
UnderWay(h) == overflow[h] \o net[h] \o Flatten(out[h])

IsData(item) == item.kind = "data"

\* A stream reaches the user of the peer it was opened for and no other, the two
\* ends name each other, and both know whether it is relayed (peer_identifier,
\* is_p2p), for a stream from a connection as for one from the handle of another
\* stream, at either end. On the way back from the relayed hello, User(peer),
\* only the comparison with the peer of the connection tells the two apart.
EndsAgree ==
    \A h \in Hops : reader[h] = "delivered" =>
        /\ h = LastHop
        /\ handle[opener] = [peer |-> OtherEnd(opener), proxy |-> proxied]
        /\ handle[OtherEnd(opener)] = [peer |-> opener, proxy |-> proxied]

\* "The first message send by each Stream defines its purpose" (protocol.rs):
\* the hello is what IncomingStream reads first, no message of a protocol is
\* behind data, and the user of a stream never reads one. Hello and address are
\* written with a flush that is not waited for and a write buffer that is
\* dropped (NewStreamFuture::poll, prepare_stream_for_building).
ProtocolComesFirst ==
    \A h \in Hops :
        LET items == UnderWay(h) IN
        /\ \A i, j \in DOMAIN items : i < j /\ IsData(items[i]) => IsData(items[j])
        /\ reader[h] = "waiting" /\ items # <<>> =>
              items[1].kind \in {"User", "UserProxy", "BuildConnectionToPeer",
                                 "ProxyBuildConnectionToPeer"}
        /\ reader[h] = "building" /\ items # <<>> => request.kind # items[1].kind /\ ~IsData(items[1])
        /\ reader[h] \in {"passed", "delivered"} => \A i \in DOMAIN items : IsData(items[i])

\* While nothing has cut the stream, what the user has read, followed by what is
\* under way behind the messages of the protocol, is what was written: reading
\* ahead, reinserting, buffers that are too small and relaying neither lose nor
\* reorder anything.
NothingLost ==
    intact /\ reader[LastHop] # "over" /\ reader[1] # "over" =>
        LET items == UnderWay(2) \o UnderWay(1) IN
        \E n \in 0..Len(items) :
            /\ \A i \in 1..n : ~IsData(items[i])
            /\ received \o SubSeq(items, n + 1, Len(items)) = sent

\* The stream is a channel of bytes: what is read is what was written, in order,
\* and its end is seen only after all of it.
Channel == INSTANCE ByteChannel
ImplementsByteChannel == Channel!Spec

\* A stream that was opened is relayed, reaches the user at the other end or is
\* dropped (by the reader, or with the next stream), which its writer sees, or
\* the Context of the other end has failed. It never stays in between: not in
\* the IncomingStream, the relay or the channel to the Context.
StreamResolves ==
    \A h \in Hops :
        reader[h] \in {"waiting", "opening", "building", "passed"} ~>
            \/ reader[h] \in {"relaying", "delivered", "over", "none"}
            \/ reader[h] = "passed" /\ context[Reader(h)] # "running"

\* What was written is read as long as the user holds the stream and nothing
\* cuts it, however small the buffers are.
DataArrives ==
    \A n \in 1..MaxData :
        (reader[LastHop] = "delivered" /\ Len(sent) >= n)
            ~> (Len(received) >= n \/ reader[LastHop] # "delivered" \/ ~intact)
=============================================================================
