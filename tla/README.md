# Verification of hole_punch

hole_punch connects peers directly, through NATs if needed. A peer that is known
only to a third peer is reached with the help of that peer, which tells both
sides their addresses and relays their traffic when no direct connection comes
about. Everything runs as futures (futures 0.1) on a tokio runtime: tasks that
share a mutex-protected registry and talk over channels and QUIC streams.

The TLA+ modules here model the concurrent core of the library. Paths such as
`registry.rs` are relative to `src/src/`.

## The parts of the system

| Part | Source | Module | State |
|---|---|---|---|
| Peer registry: peer -> (handle, token) | `registry.rs` | `PeerRegistry`, `Context`, `ConnectedPeers` | modelled |
| Connections: one task per QUIC connection | `connection.rs` | `PeerRegistry` | modelled |
| Authenticator: hands verified keys to connections | `authenticator.rs` | `PeerRegistry` | key store |
| Building a connection to a peer, three peers | `build_connection_to_peer.rs`, `timeout.rs` | `BuildConnectionToPeer` | modelled |
| Incoming streams: dispatch on the hello, relay | `incoming_stream.rs` | `UserStreams`, `BuildConnectionToPeer`, `RemoteRegistry` | modelled |
| Remote registry: asks a remote peer | `registries/remote.rs` | `RemoteRegistry`, `RegistryConnection` | modelled |
| Connecting with timeouts | `connect.rs` | `RegistryConnection` | modelled |
| mDNS registry: finds peers in the local network | `registries/mdns.rs` | `MdnsRegistry` | modelled |
| Context: owns all of it, entry point of the user | `context.rs` | `Context`, `UserStreams` | modelled |
| Streams and protocols | `stream.rs`, `strategies/mod.rs`, `protocol.rs` | `UserStreams`, `ByteChannel` | modelled |
| Peer identifiers | `pubkey.rs` | `PubKey` | modelled |
| QUIC strategy, configuration, errors | `strategies/quic.rs`, `config.rs`, `error.rs` | - | not modelled |

How they interact: `Context::new` starts `ContextInner`, which accepts
connections, and the registry providers. Every connection registers in the
registry. `create_connection_to_peer` asks the registry; a connected peer is
found at once, otherwise the providers are asked at the same time. A peer found
at a remote peer is reached by `BuildConnectionToPeer`. Every stream starts with
a hello, on which the `IncomingStream` at the other end decides whether it is a
user's stream, one to be relayed, or one for the registry.

## Modules

A module has the fields of the Rust structures as variables and one action per
outcome of a `poll` function or callback. One poll may handle several ready
inputs; each is a step, because other tasks and the network run concurrently.
Operations under a mutex are one step. Operators whose comment starts with
"Mutant" are deliberately wrong variants of the definition that follows; they
are not part of a specification and serve to show that the properties notice.

**PeerRegistry** - `connected_peers` with handle and token, `register_peer` and
`unregister_peer`, the life of `Connection` (created with the key the
`Authenticator` stored during the handshake, running, ended) and of a
`NewConnectionFuture` that is dropped before it resolves. `epoch` and
`regEpoch` are history variables: how often an entry was removed, and in which
of these epochs a connection registered.

**ConnectedPeers** - what a registry promises, without tokens, keys and
transports: a new connection takes the entry of its peer, and a connection that
ends is not registered any longer. It is the abstract specification of both
`PeerRegistry` and `Context`. It allows a connection that ends to remove the
entry of one that took its place, because the tokens do not exclude it (see
`registry_last_removes`).

**BuildConnectionToPeer** - one attempt of peer0 to reach peer2 through peer1.
`p0` is the state machine of peer0, `p1` the proxying task of peer1, `p2` the
`BuildConnectionToPeerRemote` of peer2, `wire` the two streams between them, in
order and with end markers. Streams are lost at any time, attempts to connect
succeed, fail, or reach another host that uses the address, and the users
write, read and close a proxied stream.

**RemoteRegistry** - calls of `find_peer` with their oneshot channels
(`slot`), the `ConnectionHandler` that resolves an address, connects and runs
an `OutgoingStream`, and the `IncomingStream` of the remote peer, whose registry
changes at any time. Neither end looks whether `start_send` took its message
(`remote.rs:458` and `566`), so a full write buffer loses a `Find` (`SendFind`) or
an answer (`SendAnswer`). `unsent`, the peers it happened to on this connection, and
`observed` are history variables.

**RegistryConnection** - the same handler seen through its clock: `GetNextAddr`
with `wait_between_resolve`, `ConnectWithStrategies` over
`ConnectStateMachine` with a timeout per stage, `ping_interval` and
`pong_timeout`. Time is discrete and a timer is the time left. The task runs
only when something woke it, at most `Lag` units late, and what can wake it is
what its last poll registered for; `task`, `delay` and `interval` keep that. The
`since...` variables are histories that measure the times the properties speak
about. `Interval` catches up one tick at a time after a delay, as tokio's does. A
full write buffer loses a Ping (`PingSent`, `writer`) or, at the remote peer, a Pong
(`PongRefused`); `answer` is a history of the latter.

**UserStreams** - a stream between two users from `NewStreamHandle::new_stream`
to the user who takes it from the `Context`, direct or relayed by peer1. Each
hop has the send channel of the writer (`out`), the transport (`net`) and the
`read_overflow` of the reader, which `reinsert_data` fills when the codec of the
hello is taken off. Chunks have any size. Each end opens the next stream from
the handle that its last one carried, so the identities travel along.
`new_stream_recv` and `Context::poll` are at the end of it. A stream ends when its
user drops it (`OpenerDrops`, `StreamDropped`): `AsyncWrite::shutdown` only flushes,
because `StreamWrapper` in `strategies/quic.rs` has no `close` of its own and the
default of `Sink` is `poll_complete`, so no stream is closed in one direction only.

**ByteChannel** - what a user relies on: the reader gets what was written, in
order and without a gap, and the end only after all of it, unless the stream was
cut. `UserStreams` implements it.

**MdnsRegistry** - `Discovery` with its request channel, queue, timers and LRU
cache of known peers, the tasks that connect, and `MdnsResponder`.

**Context** - calls of `create_connection_to_peer` for one peer, `find_peer`
and `SearchRemoteRegistries`, the providers as tasks that answer or fail, the
poisoning of the registry's mutex by a panic, connections, and the drop of the
`Context`. `resolvable` says whether the resolvers of the remote registry find an
address again and again. The answers a provider can give, and that it always answers, are
those of `RemoteRegistry` and `MdnsRegistry`; what it assumes of the registry is
`ConnectedPeers`.

**PubKey** - `PubKeyHash` as operators without state: constructors, `Eq`, `Hash`
and `Ord`, serialization, and the text used in mDNS names.

`MC*` modules add symmetry sets for TLC, `*Proofs` modules hold the theorems.
In the three largest of them `USE Zenon` makes Zenon the prover of every step that
names no other.

## What is checked

| Run | Bounds | Shows |
|---|---|---|
| `registry` | 2 peers, 3 connections | Registry entries name running connections to the right peer (`NoDanglingEntry`); a connection that was overwritten does not remove the entry within an epoch (`OverwrittenNeverRemoves`); keys are handed over exactly once (`KeyHandedOverOnce`); a lost connection is forgotten (`LostConnectionForgotten`); `ImplementsConnectedPeers` |
| `build` | 3 addresses, 3 items of data | peer2 knows its address when needed (`InternetAddressSet`); both ends agree which stream was built (`PeersAgreeOnStream`); users see exactly each other's data (`ProxiedDataIntact`); the attempt resolves (`BuildResolves`), no helper task stays (`HelpersEnd`), a proxied stream is no dead end (`ProxyReachesPeer2`) |
| `remote` | 2 requests, 2 searched peers and the remote one, write buffer 1 | Joined, given-up and interrupted requests keep `requests` and the stream consistent, and a lost `Find` or answer leaves its peer pending and unasked while the connection lasts (`AskedExactlyOnce`); no sender is lost (`NoSenderLost`), answers were true (`AnswersAreTrue`), requests that lost neither message resolve without their timeout (`RequestsResolve`), the drop ends the handler while addresses are resolved (`DropEndsHandler`) |
| `link` | intervals of 3 and 4 units, 2 strategies, polls up to 2 units late | Connecting takes bounded time (`ConnectIsBounded`) and gives each stage its whole timeout (`StageHasFullTimeout`); resolvers are asked again (`ResolvedAgain`), not in a hot loop (`NoHotLoop`); a Ping always follows unless the remote peer lost its Pong (`NextPingIsCertain`); a silent peer is noticed in time (`SilenceIsNoticed`), an answering one is not given up (`GivenUpOnlyAfterSilence`) |
| `mdns` | 2 peers, 3 requests, queue limit 2, cache 1 | Every sender is in one place (`NoRequestLost`); queued requests wait for unknown peers only (`WaitsOnlyForUnknownPeer`); requests resolve (`RequestsResolve`); both tasks end with the registry (`DropEndsTasks`); the responder comes back (`ResponderReregisters`) |
| `context` | 2 calls, both providers, 1 connection | `PeerNotFound` only when all providers denied (`NotFoundIsUnanimous`); a search waits for someone (`SearchWaitsForSomeone`); calls resolve (`CallsResolve`); dropping the `Context` stops all but a remote handler that never gets an address (`DropStopsEverything`); `ImplementsConnectedPeers` |
| `streams` | 2 streams one after the other, 2 items of data each, buffers of 2 | The two users know each other and whether they are relayed (`EndsAgree`); no hello is read as data, no data as a hello (`ProtocolComesFirst`); an intact stream loses nothing (`NothingLost`, `ImplementsByteChannel`); a stream reaches a user or is dropped (`StreamResolves`); data arrives (`DataArrives`) |

Facts that are proved for every instance and only support the properties above
have no run of their own: the type invariants except that of `UserStreams`,
`TokensOrderRegistrations`, `DataFollowsSwitch`, `QueuedHasTimer`,
`QueueBounded`, `FoundPeerHasConnection` and `PoisonedOnlyByRemote`.

Five runs show where the code differs from its own comments, tests or messages:

| Run | Difference |
|---|---|
| `registry_last_removes` | The token starts at 0 again after a removal. Connection A registers (0), B overwrites (1), B ends and removes the entry, C registers (0): when A ends, it removes the entry of C. |
| `build_last_resort` | The first attempt that fails makes peer0 use the proxy stream and drop the other attempts; the documented reasons are the timeout and that there is no connection. |
| `build_requested_peer` | The connection that is selected is not checked to lead to the requested peer. |
| `remote_drop_no_address` | `poll_request_next_peer_addr` looks for the drop of the registry only after an address was resolved. |
| `remote_handler_ends` | `NewStreamFuture::poll` panics inside the handler when the connection is lost while the hello is sent. |

The models also contain behaviour about which the repository makes no statement
to compare with; it is listed among the hazards:

* the timer of a fulfilled mDNS request removes a newer request for the same
  peer before its 10 s are over;
* an mDNS response without any address ends `Discovery` with a panic;
* a peer whose last registered connection ends is no longer found even if an
  older one is up;
* keys of connections that were refused or dropped stay in the store;
* a `Find` or an answer that a full write buffer refuses is lost, and until the
  connection is over all requests for that peer run into their timeout;
* a Pong that the remote peer's full write buffer refuses is lost, and without other
  traffic no Ping follows it until `pong_timeout` gives up the connection;
* incoming streams stay in their channel once the `Context` has failed.

### Bounds

Connections, requests and calls are used once each, which bounds the runs
without any constraint. Three connections are what it takes for an entry to be
overwritten, removed and registered anew. Two requests to a remote registry can
join or be about different peers, and the write buffer of 1 makes `start_send`
refuse the second. Three mDNS requests exceed the queue limit of 2, and two
mDNS peers evict an entry from a cache of size 1. Two calls let one meet the
poisoned mutex the other left. In `link` the intervals are larger than `Lag`, so
that late and timely polls differ, and two strategies let a failed one be
followed by another; `MaxOverdue` and `MaxPings` stop counters that the code does
not bound. In `streams` two items of data are split, merged or arrive together
with the hello, and the second stream is opened from a handle that the first one
carried, by either end. Whatever is proved below holds for any number.

Deadlock is not checked in models that may rightly come to an end (all
connections over, attempt finished, everything dropped). `UserStreams` assumes
`Capacity >= 2` (`SizesAssumption`): `incoming_stream.rs` and `stream.rs` write
two frames to a new stream without looking whether the second one was taken; the
size of the channel is fixed inside picoquic.

### Fairness

Tokio polls a woken task, so steps of a task whose input is ready are weakly
fair; so are timers. The rest is assumed where stated with the formula:

* `BuildConnectionToPeer`: the transport answers a request for a stream
  (`WaitingForStream` has no timeout).
* `RemoteRegistry`: among repeated attempts to connect one succeeds, and queued
  requests, which every poll takes first, are taken when connections keep being
  made. `FairSpecNoAddress` drops the assumption that resolvers yield addresses,
  which the test `get_next_addr` does not grant.
* `RegistryConnection`: time passes, and the resolvers come to an end, with or
  without an address. Nothing is assumed about the remote peer or the network.
* `UserStreams`: the transport moves chunks, and the user polls the `Context`
  and reads. A stream without a hello is dropped by its timeout.
* `MdnsRegistry`: `Responder::create` succeeds once in a while.
* `Context`: the calls, `ContextInner` and the providers go on. The drop ends the
  handler of the remote registry only if `resolvable` holds, because the handler
  looks for the drop behind an address (`remote.rs:316-323`). Both cases are checked,
  and `DropStopsEverything` excepts the handler in the other one.

Nobody is assumed to call, to drop, or to lose or answer a connection attempt.

## What is proved

TLAPS proves for all values of the constants, from the named assumptions of the
modules (`NoPeer` and `NoConn` are no peer and no connection, limits and
durations are positive, the bytes of a user are no protocol messages), the type
invariant of each module with state (`TypeCorrect`, `StreamsTypeCorrect`) and:

* `PeerRegistryProofs`: `HandlesAreAlive` (`NoDanglingEntry`), `TokensAreOrdered`
  (`TokensOrderRegistrations`), `OverwrittenKeepsEntry` (the action property
  `OverwrittenNeverRemoves`), `KeysAreHandedOver` (`KeyHandedOverOnce`).
  `NoDanglingEntry` is not inductive: that an ending connection does not leave
  its own entry behind follows from its token being that of the entry, and this
  from the order of tokens within an epoch. The inductive invariant is the
  conjunction of the first two. With it `RegistryImplementsConnectedPeers`
  maps every step to one of `ConnectedPeers` or to a stutter.
* `ContextProofs`: `SearchIsUnanimous` (`NotFoundIsUnanimous`), `SearchIsWokenUp`
  (`SearchWaitsForSomeone`), `FoundPeerIsConnected` (`FoundPeerHasConnection`),
  `PoisonNeedsDeadHandler` (`PoisonedOnlyByRemote`) and
  `ContextImplementsConnectedPeers`. The inductive invariant adds `HistoryOK`,
  how the set of outstanding futures relates to the providers asked and those
  that denied in the other states of a call.
* `BuildConnectionToPeerProofs`: `AddressIsKnown` (`InternetAddressSet`),
  `StreamsAgree` (`PeersAgreeOnStream`), `DataIsNoProtocol` (`DataFollowsSwitch`).
  The inductive invariant says what is on the two streams: `ProxyConnection`
  only when the proxy is the result (`AgreeInv`), the internet address first
  (`AddressInv`), data only behind `ProxyConnection`, on whichever stream that
  is (`SwitchInv`). Lemmas say what taking, relaying and dropping messages does
  to these. On top of it a second induction proves `ProxiedDataArrives`
  (`ProxiedDataIntact`). Its `StreamInv` says when a stream can end (`EndInv`),
  when the users cannot have written yet (`StageInv`), what is on the way to peer0
  (`ReturnInv`), and, for each direction, that while the two streams are joined
  what was read and what is on the two hops is all that was written, and that
  afterwards what can still be read is a beginning of it (`ForwardInv`,
  `BackInv`). The user of peer0 reads from the stream that carried the answer of
  peer2, so the proof also needs that `ExchangeAddressInformation` is sent once
  and is gone when the stream is handed over (`TokenInv`). Every action is first
  reduced to what it does to the channels (`StepKinds`: it writes, takes,
  forwards or cuts); the invariants are then proved about these kinds of steps.
* `UserStreamsStageProofs` and `UserStreamsProofs`: `StreamsEndsAgree` (`EndsAgree`),
  `StreamsProtocolComesFirst` (`ProtocolComesFirst`), `StreamsNothingLost`
  (`NothingLost`) and the refinement `StreamsImplementByteChannel`
  (`ImplementsByteChannel`). None of them is inductive, because a hello, the data
  behind it and what a codec has read ahead share the same buffers. The inductive
  invariant `IInv` relates the stages of the two hops and the handles
  (`StageInv`), and says that data comes last on every hop (`DataInv`) and that
  there is a list of messages that the far end has still to read, given by the
  stage, which together with the data that was not read yet is what is under way,
  or of which a beginning is under way when a connection was lost (`FlowInv`).
  The first module has the invariant, what each operation does to the buffers, and
  that steps keep everything but `FlowInv`; the second shows that they keep
  `FlowInv`, and draws the conclusions. Chunks are joined by `Flatten`, a recursive
  function. The lemmas take `FlattenLaws`, the laws about it, as a hypothesis; at
  the end these are proved by looking at the least length at which one would fail,
  since the induction theorems of the library cannot be instantiated. `SizesAssumption` is
  needed for the two frames that are written without looking.
* `RemoteRegistryProofs`: `SendersAreNotLost` (`NoSenderLost`),
  `PeersAreAskedOnce` (`AskedExactlyOnce`), `AnswersAreAlwaysTrue`
  (`AnswersAreTrue`). `SenderInv` says where senders are; on it rests
  `MessageInv`, that a `Find` or its answer is under way for exactly those peers
  that somebody waits for and whose messages no write buffer refused (`StreamInv`)
  and that answers under way were true (`TruthInv`).
* `MdnsRegistryProofs`: `RequestsAreNotLost` (`NoRequestLost`),
  `QueuedRequestsTimeOut` (`QueuedHasTimer`), `KnownPeersAreNotWaitedFor`
  (`WaitsOnlyForUnknownPeer`), `QueueIsBounded` (`QueueBounded`). The first three
  are inductive together, with `TargetsKnown`.
* `RegistryConnectionProofs`: `ResolvesAreApart` (`NoHotLoop`),
  `ConnectEndsInTime` (`ConnectIsBounded`), `StagesAreNotCutShort`
  (`StageHasFullTimeout`), `SilenceIsAlwaysNoticed` (`SilenceIsNoticed`),
  `AnsweringPeerIsKept` (`GivenUpOnlyAfterSilence`), `PingGoesOn`
  (`NextPingIsCertain`). The invariant ties each measured time to the timer of
  the code: their sum is the duration of the timer while it runs, and once it has
  elapsed the task is woken, so that only `Lag` is added. `PingGoesOn` follows the
  task from a poll that registered nothing: the Ping it sent, the write buffer that
  refused it, or the Pong, unless that was refused, wakes it again.
* `PeerRegistryProofs`, of `PubKey`: the other modules take peers as values that
  are equal or not, and this is why they may. Every constructor pads the buffer (`BufferIsPadded`),
  so `Eq` means the same hash (`EqIsSameHash`) and agrees with `Hash`
  (`EqAgreesWithHash`); an identifier survives a message (`SerializedArrives`)
  and an mDNS announcement (`AnnouncedPeerIsFound`). `Ord` is an order
  (`OrdIsConsistent`) that agrees with `Eq` on digests of one length
  (`OrdAgreesOnDigests`) but not on hashes of different lengths
  (`OrdIgnoresLength`), because it leaves out the length; the program itself only
  makes sha256 digests.

Every safety property and refinement that a passing run checks is also proved.
Only model-checked are the liveness properties, which are out of the prover's
reach: `LostConnectionForgotten`, `BuildResolves`, `HelpersEnd`,
`ProxyReachesPeer2`, `RequestsResolve`, `DropEndsHandler`, `ResolvedAgain`,
`DropEndsTasks`, `ResponderReregisters`, `CallsResolve`, `DropStopsEverything`,
`StreamResolves` and `DataArrives`.

## Not modelled

* `strategies/quic.rs` has no state of its own. It passes calls on to picoquic, except
  `close`, which only flushes (see `UserStreams`); picoquic is what the external
  actions of the models do.
* Certificate parsing and verification are a nondeterministic verdict, DNS
  look-ups (`registries/mod.rs`) a nondeterministic answer.
* The JSON text of messages and the layout of mDNS packets.
* `config.rs` and `error.rs` hold values and change nothing.
* Time is discrete in `RegistryConnection`; elsewhere it is abstracted, a timer
  may elapse at any moment it runs.
