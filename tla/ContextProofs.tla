--------------------------- MODULE ContextProofs ----------------------------
(***************************************************************************)
(* Proofs about Context for any sets of calls and connections.             *)
(***************************************************************************)
EXTENDS Context, TLAPS

\* What the history of a call is: nobody is asked before the call, and only
\* those that were asked can have denied to know the peer.
HistoryOK ==
    \A k \in Calls :
        /\ denied[k] \subseteq asked[k]
        /\ call[k] = "idle" => asked[k] = {} /\ denied[k] = {}

\* The inductive invariant. NotFoundIsUnanimous needs SearchWaitsForSomeone,
\* which accounts for every provider while the search runs, and HistoryOK for
\* the start of it.
IInv ==
    /\ TypeOK
    /\ HistoryOK
    /\ SearchWaitsForSomeone
    /\ NotFoundIsUnanimous
    /\ FoundPeerHasConnection
    /\ PoisonedOnlyByRemote

\* Every step of a call, a connection, a provider or the Context keeps the
\* inductive invariant.
LEMMA IInvStep == IInv /\ [Next]_vars => IInv'
<1> SUFFICES ASSUME IInv, [Next]_vars PROVE IInv'
  OBVIOUS
<1> USE ContextAssumption DEF IInv, TypeOK, HistoryOK, SearchWaitsForSomeone,
        NotFoundIsUnanimous, FoundPeerHasConnection, PoisonedOnlyByRemote, Resolved,
        StreamOutcomes, callVars
<1>1. ASSUME NEW k \in Calls, FindPeer(k) PROVE IInv'
  <2>1. CASE poisoned
    BY <1>1, <2>1 DEF FindPeer
  <2>2. CASE ~poisoned /\ connected_peer # NoConn
    BY <1>1, <2>2 DEF FindPeer
  <2>3. CASE ~poisoned /\ connected_peer = NoConn /\ FindPeerPanics
    <3>1. /\ call' = [call EXCEPT ![k] = "panicked"]
          /\ poisoned' = TRUE
          /\ provider["remote"] = "failed"
          /\ call[k] = "idle"
          /\ UNCHANGED <<context, inner, strategy, registries, provider, resolvable, con,
                         connected_peer, denied, futures, handle, asked>>
      BY <1>1, <2>3 DEF FindPeer, FindPeerPanics
    <3> QED
      BY <3>1
  <2>4. CASE ~poisoned /\ connected_peer = NoConn /\ ~FindPeerPanics
    <3>1. /\ call' = [call EXCEPT ![k] = IF registries = {} THEN "PeerNotFound"
                                         ELSE "searching"]
          /\ futures' = [futures EXCEPT ![k] = registries]
          /\ asked' = [asked EXCEPT ![k] = registries]
          /\ call[k] = "idle"
          /\ UNCHANGED <<context, inner, strategy, registries, provider, resolvable, poisoned,
                         con, connected_peer, denied, handle>>
      BY <1>1, <2>4 DEF FindPeer, NoneLeft
    <3> QED
      BY <3>1
  <2> QED
    BY <2>1, <2>2, <2>3, <2>4
<1>2. ASSUME NEW k \in Calls, NEW r \in Providers, NEW answer \in Answers[r],
             SearchRemoteRegistries(k, r, answer)
      PROVE  IInv'
  <2>1. answer \in {"FoundRemote", "FoundWithHandle", "NotFound", "Err", "Found"}
    BY DEF Answers, Providers
  <2>2. CASE answer \in {"NotFound", "Err"}
    <3>1. /\ futures' = [futures EXCEPT ![k] = futures[k] \ {r}]
          /\ denied' = [denied EXCEPT ![k] = denied[k] \cup {r}]
          /\ call' = [call EXCEPT ![k] = IF futures[k] \ {r} = {} THEN "PeerNotFound"
                                         ELSE call[k]]
          /\ call[k] = "searching"
          /\ r \in futures[k]
          /\ UNCHANGED <<context, inner, strategy, registries, provider, resolvable, poisoned,
                         con, connected_peer, handle, asked>>
      BY <1>2, <2>2 DEF SearchRemoteRegistries, NoneLeft
    <3>2. TypeOK'
      BY <3>1
    <3>3. HistoryOK'
      BY <3>1
    <3>4. futures[k] = asked[k] \ denied[k] /\ denied[k] \subseteq asked[k]
      BY <3>1
    <3>5. SearchWaitsForSomeone'
      BY <3>1, <3>4
    <3>6. NotFoundIsUnanimous'
      BY <3>1, <3>4
    <3>7. FoundPeerHasConnection' /\ PoisonedOnlyByRemote'
      BY <3>1
    <3> QED
      BY <3>2, <3>3, <3>5, <3>6, <3>7
  <2>3. CASE answer \notin {"NotFound", "Err"}
    <3>1. CASE answer = "FoundWithHandle"
      BY <1>2, <3>1 DEF SearchRemoteRegistries, AfterSearch
    <3>2. CASE answer # "FoundWithHandle"
      BY <1>2, <2>1, <2>3, <3>2 DEF SearchRemoteRegistries, AfterSearch
    <3> QED
      BY <3>1, <3>2
  <2> QED
    BY <2>2, <2>3
<1>3. ASSUME NEW k \in Calls, NEW outcome \in StreamOutcomes, NewStream(k, outcome)
      PROVE  IInv'
  BY <1>3 DEF NewStream
<1>4. ASSUME NEW k \in Calls, NEW outcome \in StreamOutcomes,
             BuildConnection(k, outcome)
      PROVE  IInv'
  BY <1>4 DEF BuildConnection
<1>5. ASSUME NEW c \in Conns, NEW incoming \in BOOLEAN, Connected(c, incoming)
      PROVE  IInv'
  BY <1>5 DEF Connected
<1>6. ASSUME NEW c \in Conns, ConnectionLost(c) PROVE IInv'
  BY <1>6 DEF ConnectionLost
<1>7. ASSUME NEW c \in Conns, ConnectionOver(c) PROVE IInv'
  BY <1>7 DEF ConnectionOver
<1>8. CASE DropContext
  BY <1>8 DEF DropContext
<1>9. ASSUME NEW strategyFails \in BOOLEAN, ContextInnerEnds(strategyFails)
      PROVE  IInv'
  BY <1>9 DEF ContextInnerEnds
<1>10. ASSUME NEW r \in Providers, ProviderEnds(r) \/ ProviderFails(r) PROVE IInv'
  <2>1. TypeOK'
    BY <1>10 DEF ProviderEnds, ProviderFails
  <2>2. PoisonedOnlyByRemote'
    <3>1. "remote" \in Providers
      BY DEF Providers
    <3>2. provider[r] = "running" /\ \E x : provider' = [provider EXCEPT ![r] = x]
      BY <1>10 DEF ProviderEnds, ProviderFails
    <3>3. UNCHANGED poisoned
      BY <1>10 DEF ProviderEnds, ProviderFails
    <3>4. provider["remote"] = "failed" => provider'["remote"] = "failed"
      BY <3>1, <3>2
    <3> QED
      BY <3>3, <3>4
  <2> QED
    BY <1>10, <2>1, <2>2 DEF ProviderEnds, ProviderFails
<1>11. CASE UNCHANGED vars
  BY <1>11 DEF vars
<1> HIDE DEF IInv, TypeOK, HistoryOK, SearchWaitsForSomeone, NotFoundIsUnanimous,
             FoundPeerHasConnection, PoisonedOnlyByRemote, Resolved, StreamOutcomes, callVars
<1> QED
  BY <1>1, <1>2, <1>3, <1>4, <1>5, <1>6, <1>7, <1>8, <1>9, <1>10, <1>11 DEF Next

\* The inductive invariant holds in every reachable state.
LEMMA IInvHolds == Spec => []IInv
<1>1. Init => IInv
  <2> SUFFICES ASSUME Init PROVE IInv
    OBVIOUS
  <2>1. TypeOK
    BY DEF Init, TypeOK, Resolved, StreamOutcomes
  <2>2. HistoryOK /\ SearchWaitsForSomeone /\ NotFoundIsUnanimous
    BY DEF Init, HistoryOK, SearchWaitsForSomeone, NotFoundIsUnanimous
  <2>3. FoundPeerHasConnection /\ PoisonedOnlyByRemote
    BY DEF Init, FoundPeerHasConnection, PoisonedOnlyByRemote
  <2> QED
    BY <2>1, <2>2, <2>3 DEF IInv
<1> QED
  BY <1>1, IInvStep, PTL DEF Spec

\* Type correctness of the Context.
THEOREM TypeCorrect == Spec => []TypeOK
<1>1. IInv => TypeOK
  BY DEF IInv
<1> QED
  BY <1>1, IInvHolds, PTL

\* A search ends with PeerNotFound only when every provider that was asked has
\* answered NotFound or failed, whatever the calls, the connections and the
\* drop of the Context do meanwhile.
THEOREM SearchIsUnanimous == Spec => []NotFoundIsUnanimous
<1>1. IInv => NotFoundIsUnanimous
  BY DEF IInv
<1> QED
  BY <1>1, IInvHolds, PTL

\* No search is left waiting for nobody.
THEOREM SearchIsWokenUp == Spec => []SearchWaitsForSomeone
<1>1. IInv => SearchWaitsForSomeone
  BY DEF IInv
<1> QED
  BY <1>1, IInvHolds, PTL

\* The connection find_peer hands out has a running task, for every number of
\* connections, as long as the registry was not poisoned.
THEOREM FoundPeerIsConnected == Spec => []FoundPeerHasConnection
<1>1. IInv => FoundPeerHasConnection
  BY DEF IInv
<1> QED
  BY <1>1, IInvHolds, PTL

\* The mutex of the registry is poisoned only after the handler of the remote
\* registry has died: no other find_peer panics while the mutex is held.
THEOREM PoisonNeedsDeadHandler == Spec => []PoisonedOnlyByRemote
<1>1. IInv => PoisonedOnlyByRemote
  BY DEF IInv
<1> QED
  BY <1>1, IInvHolds, PTL

-----------------------------------------------------------------------------
(* The registry of the Context implements ConnectedPeers *)

\* Steps of the calls and of the providers are invisible to a look-up.
LEMMA InvisibleStep ==
    ASSUME UNCHANGED <<con, connected_peer, poisoned>>
    PROVE  UNCHANGED Abstract!cvars
  BY DEF Abstract!cvars

\* What the calls see of the registry is a behaviour of ConnectedPeers, for any
\* number of connections.
THEOREM ContextImplementsConnectedPeers == Spec => ImplementsConnectedPeers
<1> DEFINE leads == [c \in Conns |-> IF con[c] \in {"up", "lost"} THEN "peer"
                                     ELSE "nobody"]
           entries == [p \in {"peer"} |-> connected_peer]
           over == {c \in Conns : con[c] = "over"}
<1>1. Init => Abstract!Init
  BY DEF Init, Abstract!Init
<1>2. IInv /\ [Next]_vars => [Abstract!Next]_(Abstract!cvars)
  <2> SUFFICES ASSUME IInv, [Next]_vars
               PROVE  Abstract!Next \/ UNCHANGED Abstract!cvars
    OBVIOUS
  <2> USE ContextAssumption DEF IInv, TypeOK
  <2>1. ASSUME NEW k \in Calls, FindPeer(k)
        PROVE  Abstract!Next \/ UNCHANGED Abstract!cvars
    <3>1. UNCHANGED <<con, connected_peer>> /\ (poisoned' = poisoned \/ poisoned' = TRUE)
      BY <2>1 DEF FindPeer
    <3>2. CASE poisoned' = poisoned
      BY <3>1, <3>2, InvisibleStep
    <3>3. CASE poisoned' = TRUE
      <4>1. Abstract!Poison
        BY <3>1, <3>3 DEF Abstract!Poison
      <4> QED
        BY <4>1 DEF Abstract!Next
    <3> QED
      BY <3>1, <3>2, <3>3
  <2>2. ASSUME NEW k \in Calls, NEW r \in Providers, NEW answer \in Answers[r],
               SearchRemoteRegistries(k, r, answer)
        PROVE  UNCHANGED Abstract!cvars
    BY <2>2, InvisibleStep DEF SearchRemoteRegistries
  <2>3. ASSUME NEW k \in Calls, NEW outcome \in StreamOutcomes, NewStream(k, outcome)
        PROVE  UNCHANGED Abstract!cvars
    BY <2>3, InvisibleStep DEF NewStream
  <2>4. ASSUME NEW k \in Calls, NEW outcome \in StreamOutcomes,
               BuildConnection(k, outcome)
        PROVE  UNCHANGED Abstract!cvars
    BY <2>4, InvisibleStep DEF BuildConnection
  <2>5. ASSUME NEW c \in Conns, NEW incoming \in BOOLEAN, Connected(c, incoming)
        PROVE  Abstract!Next
    <3>1. con[c] = "none" /\ poisoned' = poisoned
      BY <2>5 DEF Connected
    <3>2. leads[c] = "nobody" /\ c \notin over
      BY <3>1
    <3>3. CASE poisoned
      <4>1. con' = [con EXCEPT ![c] = "over"] /\ connected_peer' = connected_peer
        BY <2>5, <3>3 DEF Connected
      <4>2. over' = over \cup {c} /\ leads' = leads /\ entries' = entries
        BY <3>1, <4>1
      <4>3. Abstract!Refuse(c)
        BY <3>1, <3>2, <3>3, <4>2 DEF Abstract!Refuse
      <4> QED
        BY <4>3 DEF Abstract!Next
    <3>4. CASE ~poisoned
      <4>1. con' = [con EXCEPT ![c] = "up"] /\ connected_peer' = c
        BY <2>5, <3>4 DEF Connected
      <4>2. over' = over
        BY <3>1, <4>1
      <4>3. leads' = [leads EXCEPT ![c] = "peer"]
        BY <3>1, <4>1
      <4>4. entries' = [entries EXCEPT !["peer"] = c]
        BY <4>1
      <4>5. Abstract!Register(c, "peer")
        BY <3>1, <3>2, <3>4, <4>2, <4>3, <4>4 DEF Abstract!Register
      <4> QED
        BY <4>5 DEF Abstract!Next
    <3> QED
      BY <3>3, <3>4
  <2>6. ASSUME NEW c \in Conns, ConnectionLost(c) PROVE UNCHANGED Abstract!cvars
    <3>1. /\ con[c] = "up" /\ con' = [con EXCEPT ![c] = "lost"]
          /\ UNCHANGED <<connected_peer, poisoned>>
      BY <2>6 DEF ConnectionLost
    <3>2. leads' = leads /\ over' = over /\ entries' = entries
      BY <3>1
    <3> QED
      BY <3>1, <3>2 DEF Abstract!cvars
  <2>7. ASSUME NEW c \in Conns, ConnectionOver(c) PROVE Abstract!Next
    <3>1. /\ con[c] = "lost" /\ con' = [con EXCEPT ![c] = "over"]
          /\ UNCHANGED poisoned
      BY <2>7 DEF ConnectionOver
    <3>2. leads[c] = "peer" /\ leads' = [leads EXCEPT ![c] = "nobody"]
      BY <3>1
    <3>3. over' = over \cup {c}
      BY <3>1
    <3>4. \/ connected_peer' = NoConn /\ ~poisoned
          \/ connected_peer' = connected_peer /\ (~poisoned => connected_peer # c)
      BY <2>7 DEF ConnectionOver
    <3>5. \/ entries' = [entries EXCEPT !["peer"] = NoConn] /\ ~poisoned
          \/ entries' = entries /\ (~poisoned => entries["peer"] # c)
      BY <3>4
    <3>6. Abstract!Unregister(c, "peer")
      BY <3>1, <3>2, <3>3, <3>5 DEF Abstract!Unregister
    <3> QED
      BY <3>6 DEF Abstract!Next
  <2>8. CASE DropContext
    BY <2>8, InvisibleStep DEF DropContext
  <2>9. ASSUME NEW strategyFails \in BOOLEAN, ContextInnerEnds(strategyFails)
        PROVE  UNCHANGED Abstract!cvars
    BY <2>9, InvisibleStep DEF ContextInnerEnds
  <2>10. ASSUME NEW r \in Providers, ProviderEnds(r) \/ ProviderFails(r)
         PROVE  UNCHANGED Abstract!cvars
    BY <2>10, InvisibleStep DEF ProviderEnds, ProviderFails
  <2>11. CASE UNCHANGED vars
    BY <2>11, InvisibleStep DEF vars
  <2> QED
    BY <2>1, <2>2, <2>3, <2>4, <2>5, <2>6, <2>7, <2>8, <2>9, <2>10, <2>11 DEF Next
<1> QED
  BY <1>1, <1>2, IInvHolds, PTL DEF Spec, ImplementsConnectedPeers, Abstract!Spec
=============================================================================
