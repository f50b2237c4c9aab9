------------------------------ MODULE Context -------------------------------
(***************************************************************************)
(* The Context of a peer (src/context.rs) and the search of a peer         *)
(* (Inner::find_peer and SearchRemoteRegistries of src/registry.rs):       *)
(* concurrent calls of create_connection_to_peer for one peer, the         *)
(* registry providers they ask, the task ContextInner that accepts         *)
(* connections, and what dropping the Context does to all of them.         *)
(*                                                                         *)
(* What the parts do inside is modelled elsewhere: registering connections *)
(* in PeerRegistry, the providers in RemoteRegistry and MdnsRegistry, the  *)
(* way to a peer found remotely in BuildConnectionToPeer.                  *)
(***************************************************************************)
EXTENDS FiniteSets

CONSTANTS
    Calls,          \* calls of create_connection_to_peer
    Conns,          \* connections to the peer that is looked for
    NoConn

ASSUME ContextAssumption == NoConn \notin Conns

VARIABLES
    context,        \* the Context is alive or dropped
    inner,          \* the task ContextInner
    strategy,       \* the strategy, which carries all connections
    registries,     \* the providers the registry asks
    provider,       \* the task behind each provider
    resolvable,     \* the resolvers of the remote registry find addresses, again
                    \* and again
    poisoned,       \* a panic happened under the mutex of the registry
    con,            \* the connections
    connected_peer, \* the connection registered for the peer
    call,           \* state of each call
    futures,        \* SearchRemoteRegistries: providers that have not answered
    handle,         \* the connection whose NewStreamHandle a call got
    asked, denied   \* history: providers a call asked, those that had no peer

vars == <<context, inner, strategy, registries, provider, resolvable, poisoned, con,
          connected_peer, call, futures, handle, asked, denied>>

callVars == <<call, futures, handle, asked, denied>>

Providers == {"remote", "mdns"}

StreamOutcomes == {"stream", "error", "panicked"}

Resolved == StreamOutcomes \cup {"PeerNotFound"}

\* Context::new: the configuration decides which providers there are.
Init ==
    /\ context = "alive"
    /\ inner = "running"
    /\ strategy = "running"
    /\ registries \in SUBSET Providers
    /\ provider = [r \in Providers |-> IF r \in registries THEN "running" ELSE "none"]
    /\ resolvable \in BOOLEAN
    /\ poisoned = FALSE
    /\ con = [c \in Conns |-> "none"]
    /\ connected_peer = NoConn
    /\ call = [k \in Calls |-> "idle"]
    /\ futures = [k \in Calls |-> {}]
    /\ handle = [k \in Calls |-> NoConn]
    /\ asked = [k \in Calls |-> {}]
    /\ denied = [k \in Calls |-> {}]

-----------------------------------------------------------------------------
(* create_connection_to_peer *)

\* RemoteRegistry::find_peer panics if its handler is gone, the mDNS one does not.
FindPeerPanics == "remote" \in registries /\ provider["remote"] = "failed"

\* Mutants: the first provider that has no peer ends the search; an empty set
\* of futures is taken for one that is not ready.
NoneLeftAtOnce(rest) == TRUE
NoneLeftNever(rest) == FALSE

\* FuturesUnordered has no future left: Ready(None).
NoneLeft(rest) == rest = {}

\* create_connection_to_peer: what a positive answer leads to.
AfterSearch(answer) == IF answer = "Found" THEN "stream" ELSE answer

\* Inner::find_peer, under the mutex: a connected peer is found at once,
\* otherwise all providers are asked. Without any the search ends at once.
FindPeer(k) ==
    /\ call[k] = "idle"
    /\ \/ /\ poisoned
          /\ call' = [call EXCEPT ![k] = "panicked"]
          /\ UNCHANGED <<futures, handle, asked, poisoned>>
       \/ /\ ~poisoned
          /\ connected_peer # NoConn
          /\ call' = [call EXCEPT ![k] = "FoundWithHandle"]
          /\ handle' = [handle EXCEPT ![k] = connected_peer]
          /\ UNCHANGED <<futures, asked, poisoned>>
       \/ /\ ~poisoned
          /\ connected_peer = NoConn
          /\ FindPeerPanics
          /\ call' = [call EXCEPT ![k] = "panicked"]
          /\ poisoned' = TRUE
          /\ UNCHANGED <<futures, handle, asked>>
       \/ /\ ~poisoned
          /\ connected_peer = NoConn
          /\ ~FindPeerPanics
          /\ call' = [call EXCEPT ![k] = IF NoneLeft(registries) THEN "PeerNotFound"
                                         ELSE "searching"]
          /\ futures' = [futures EXCEPT ![k] = registries]
          /\ asked' = [asked EXCEPT ![k] = registries]
          /\ UNCHANGED <<handle, poisoned>>
    /\ UNCHANGED <<context, inner, strategy, registries, provider, resolvable, con,
                   connected_peer, denied>>

\* SearchRemoteRegistries::poll: NotFound and errors are skipped, a provider
\* that found the peer ends the search. The remote peer itself is found with
\* the handle of the connection to it.
SearchRemoteRegistries(k, r, answer) ==
    LET rest == futures[k] \ {r} IN
    /\ call[k] = "searching"
    /\ r \in futures[k]
    /\ answer # "Err" => provider[r] = "running"
    /\ IF answer \in {"NotFound", "Err"}
       THEN /\ futures' = [futures EXCEPT ![k] = rest]
            /\ denied' = [denied EXCEPT ![k] = @ \cup {r}]
            /\ call' = [call EXCEPT ![k] = IF NoneLeft(rest) THEN "PeerNotFound" ELSE @]
            /\ UNCHANGED handle
       ELSE /\ futures' = [futures EXCEPT ![k] = {}]
            /\ call' = [call EXCEPT ![k] = AfterSearch(answer)]
            /\ IF answer = "FoundWithHandle"
               THEN \E c \in Conns : /\ con[c] # "none"
                                     /\ handle' = [handle EXCEPT ![k] = c]
               ELSE UNCHANGED handle
            /\ UNCHANGED denied
    /\ UNCHANGED <<context, inner, strategy, registries, provider, resolvable, poisoned,
                   con, connected_peer, asked>>

\* What each provider can answer.
Answers == [remote |-> {"FoundRemote", "FoundWithHandle", "NotFound", "Err"},
            mdns |-> {"Found", "Err"}]

\* NewStreamFuture on the handle: the connection may be lost by now, noticed
\* when the stream is opened or when the hello is sent, which panics.
NewStream(k, outcome) ==
    /\ call[k] = "FoundWithHandle"
    /\ outcome = "stream" <=> con[handle[k]] = "up"
    /\ call' = [call EXCEPT ![k] = outcome]
    /\ UNCHANGED <<context, inner, strategy, registries, provider, resolvable, poisoned,
                   con, connected_peer, futures, handle, asked, denied>>

\* External to this module: BuildConnectionToPeer resolves, or panics in the
\* task of the caller when the hello of its stream cannot be sent.
BuildConnection(k, outcome) ==
    /\ call[k] = "FoundRemote"
    /\ call' = [call EXCEPT ![k] = outcome]
    /\ UNCHANGED <<context, inner, strategy, registries, provider, resolvable, poisoned,
                   con, connected_peer, futures, handle, asked, denied>>

-----------------------------------------------------------------------------
(* Connections *)

\* A connection is accepted by ContextInner, or made by this peer, and
\* registers itself; with a poisoned mutex its task panics instead.
Connected(c, incoming) ==
    /\ con[c] = "none"
    /\ strategy = "running"
    /\ incoming => inner = "running"
    /\ con' = [con EXCEPT ![c] = IF poisoned THEN "over" ELSE "up"]
    /\ connected_peer' = IF poisoned THEN connected_peer ELSE c
    /\ inner' = IF incoming /\ poisoned THEN "ended" ELSE inner
    /\ strategy' = IF incoming /\ poisoned THEN "closed" ELSE strategy
    /\ UNCHANGED <<context, registries, provider, resolvable, poisoned, callVars>>

\* External: the transport loses the connection, as it does with every one
\* when the strategy is closed.
ConnectionLost(c) ==
    /\ con[c] = "up"
    /\ con' = [con EXCEPT ![c] = "lost"]
    /\ UNCHANGED <<context, inner, strategy, registries, provider, resolvable, poisoned,
                   connected_peer, callVars>>

\* Mutant: the connection does not unregister.
ConnectionOverStaysRegistered(c) ==
    /\ con[c] = "lost"
    /\ con' = [con EXCEPT ![c] = "over"]
    /\ UNCHANGED <<context, inner, strategy, registries, provider, resolvable, poisoned,
                   connected_peer, callVars>>

\* The task of the connection ends and unregisters. The token of a connection
\* that is not the registered one may match all the same (see PeerRegistry).
ConnectionOver(c) ==
    /\ con[c] = "lost"
    /\ con' = [con EXCEPT ![c] = "over"]
    /\ connected_peer' \in IF poisoned THEN {connected_peer}
                           ELSE IF connected_peer = c THEN {NoConn}
                           ELSE {connected_peer, NoConn}
    /\ UNCHANGED <<context, inner, strategy, registries, provider, resolvable,
                   poisoned, callVars>>

-----------------------------------------------------------------------------
(* The life of the Context *)

\* Mutant: Context::drop does not call context_being_dropped.
DropContextKeepsRegistries ==
    /\ context = "alive"
    /\ context' = "dropped"
    /\ UNCHANGED <<inner, strategy, registries, provider, resolvable, poisoned, con,
                   connected_peer, callVars>>

\* Context::drop clears the registries, which drops the providers. (With a
\* poisoned mutex it panics; the fields of the Context are dropped all the same.)
DropContext ==
    /\ context = "alive"
    /\ context' = "dropped"
    /\ registries' = IF poisoned THEN registries ELSE {}
    /\ UNCHANGED <<inner, strategy, provider, resolvable, poisoned, con,
                   connected_peer, callVars>>

\* ContextInner::poll: the Context was dropped, or the strategy failed. The
\* strategy is dropped with ContextInner.
ContextInnerEnds(strategyFails) ==
    /\ inner = "running"
    /\ context = "dropped" \/ strategyFails
    /\ inner' = "ended"
    /\ strategy' = "closed"
    /\ UNCHANGED <<context, registries, provider, resolvable, poisoned, con,
                   connected_peer, callVars>>

\* The task of a provider ends after the provider was dropped.
ProviderEnds(r) ==
    /\ provider[r] = "running"
    /\ r \notin registries
    /\ provider' = [provider EXCEPT ![r] = "ended"]
    /\ UNCHANGED <<context, inner, strategy, registries, resolvable, poisoned, con,
                   connected_peer, callVars>>

\* It can fail before that: RemoteRegistry by a panic, mDNS by an error.
ProviderFails(r) ==
    /\ provider[r] = "running"
    /\ provider' = [provider EXCEPT ![r] = "failed"]
    /\ UNCHANGED <<context, inner, strategy, registries, resolvable, poisoned, con,
                   connected_peer, callVars>>

Next ==
    \/ \E k \in Calls :
           \/ FindPeer(k)
           \/ \E r \in Providers : \E answer \in Answers[r] :
                  SearchRemoteRegistries(k, r, answer)
           \/ \E outcome \in StreamOutcomes : NewStream(k, outcome)
           \/ \E outcome \in StreamOutcomes : BuildConnection(k, outcome)
    \/ \E c \in Conns :
           \/ \E incoming \in BOOLEAN : Connected(c, incoming)
           \/ ConnectionLost(c)
           \/ ConnectionOver(c)
    \/ DropContext
    \/ \E strategyFails \in BOOLEAN : ContextInnerEnds(strategyFails)
    \/ \E r \in Providers : ProviderEnds(r) \/ ProviderFails(r)

Spec == Init /\ [][Next]_vars

\* Futures that can make progress are polled; providers resolve every request
\* (RemoteRegistry, MdnsRegistry); the mDNS tasks notice that they were dropped,
\* the handler of the remote registry only if an address is resolved before
\* (GetNextAddr waits without looking at the channel of the registry); without
\* the strategy no connection survives. Callers need not call and nobody need
\* drop the Context.
Fairness ==
    /\ \A k \in Calls :
           /\ WF_vars(\E r \in Providers : \E answer \in Answers[r] :
                          SearchRemoteRegistries(k, r, answer))
           /\ WF_vars(\E outcome \in StreamOutcomes : NewStream(k, outcome))
           /\ WF_vars(\E outcome \in StreamOutcomes : BuildConnection(k, outcome))
    /\ \A c \in Conns :
           /\ WF_vars(strategy = "closed" /\ ConnectionLost(c))
           /\ WF_vars(ConnectionOver(c))
    /\ WF_vars(ContextInnerEnds(FALSE))
    /\ WF_vars(ProviderEnds("mdns"))
    /\ WF_vars(resolvable /\ ProviderEnds("remote"))

FairSpec == Spec /\ Fairness

-----------------------------------------------------------------------------
(* Properties *)

\* The type invariant: the states of the tasks, connections and calls, and the
\* handle that a call works with being one of a connection that was made.
TypeOK ==
    /\ context \in {"alive", "dropped"}
    /\ inner \in {"running", "ended"}
    /\ strategy \in {"running", "closed"}
    /\ registries \subseteq Providers
    /\ provider \in [Providers -> {"none", "running", "ended", "failed"}]
    /\ resolvable \in BOOLEAN
    /\ poisoned \in BOOLEAN
    /\ con \in [Conns -> {"none", "up", "lost", "over"}]
    /\ connected_peer \in Conns \cup {NoConn}
    /\ call \in [Calls -> {"idle", "searching", "FoundWithHandle", "FoundRemote"}
                           \cup Resolved]
    /\ futures \in [Calls -> SUBSET Providers]
    /\ handle \in [Calls -> Conns \cup {NoConn}]
    /\ asked \in [Calls -> SUBSET Providers]
    /\ denied \in [Calls -> SUBSET Providers]
    /\ \A k \in Calls : call[k] = "FoundWithHandle" => handle[k] # NoConn

\* A call fails with PeerNotFound only after every provider the registry had
\* when it was made answered NotFound or failed; one provider that does not
\* know the peer, or an error, never ends the search (registry.rs:140-152).
NotFoundIsUnanimous ==
    \A k \in Calls : call[k] = "PeerNotFound" => denied[k] = asked[k]

\* A search always waits for someone: for exactly the providers that were
\* asked and have not answered, and for at least one of them. A search of
\* nobody would never be woken up.
SearchWaitsForSomeone ==
    \A k \in Calls : call[k] = "searching" =>
        futures[k] # {} /\ futures[k] = asked[k] \ denied[k]

\* As long as no panic happened under the mutex, a peer that find_peer answers
\* with a handle has a connection whose task is not over yet.
FoundPeerHasConnection ==
    ~poisoned /\ connected_peer # NoConn => con[connected_peer] \in {"up", "lost"}

\* The registry seen by the calls: one peer, its connections, and the mutex.
Abstract == INSTANCE ConnectedPeers WITH
    Peers <- {"peer"},
    NoPeer <- "nobody",
    leadsTo <- [c \in Conns |-> IF con[c] \in {"up", "lost"} THEN "peer" ELSE "nobody"],
    ended <- {c \in Conns : con[c] = "over"},
    registered <- [p \in {"peer"} |-> connected_peer],
    usable <- ~poisoned

\* The registry that the calls work with is the one ConnectedPeers describes,
\* which PeerRegistry implements, also when the Context is dropped and after a
\* panic under the mutex.
ImplementsConnectedPeers == Abstract!Spec

\* Only a RemoteRegistry whose handler is gone can poison the registry.
PoisonedOnlyByRemote == poisoned => provider["remote"] = "failed"

\* Every call resolves, also when the Context is dropped during the search.
CallsResolve ==
    \A k \in Calls : call[k] # "idle" ~> call[k] \in Resolved

\* Dropping the Context stops everything it started and for good (test
\* dropping_context_stops_stream): ContextInner and the tasks of the providers
\* end, no connection is left and no peer is registered. The providers end
\* because Context::drop clears the registries; the registry itself lives on
\* in their tasks and in the handles of the user. The one task that may stay
\* is the handler of the remote registry, as long as no address is resolved
\* (remote.rs:316-323, see RemoteRegistry).
DropStopsEverything ==
    context = "dropped" /\ ~poisoned ~>
        [](/\ inner = "ended"
           /\ \A r \in Providers : provider[r] = "running" => r = "remote" /\ ~resolvable
           /\ \A c \in Conns : con[c] \in {"none", "over"}
           /\ connected_peer = NoConn)
=============================================================================
