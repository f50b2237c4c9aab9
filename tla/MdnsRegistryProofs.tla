------------------------- MODULE MdnsRegistryProofs -------------------------
(***************************************************************************)
(* Proofs about MdnsRegistry, for any number of peers and requests and any *)
(* limit of the queue and of the cache.                                    *)
(***************************************************************************)
EXTENDS MdnsRegistry, SequenceTheorems, FiniteSetTheorems, TLAPS

\* A request that was made asks for a peer.
TargetsKnown ==
    /\ \A r \in Requests : slot[r] # "unused" => target[r] \in Peers
    /\ \A r \in timers : target[r] \in Peers

\* The inductive invariant: where the senders are, what the queue promises
\* about them, and that whoever is asked for is a peer.
IInv == TypeOK /\ NoRequestLost /\ QueuedHasTimer /\ WaitsOnlyForUnknownPeer /\ TargetsKnown

\* What a request is called is never what an empty place is called.
LEMMA NoRequestIsNone == NoRequest \notin Requests
BY MdnsAssumption DEF NoRequest, Requests

\* Removing an entry from the cache leaves only entries of the cache.
LEMMA RemovedIsPart ==
    ASSUME NEW S, NEW s \in Seq(S), NEW i \in DOMAIN s
    PROVE  /\ RemoveAt(s, i) \in Seq(S)
           /\ \A k \in DOMAIN RemoveAt(s, i) : \E j \in DOMAIN s : RemoveAt(s, i)[k] = s[j]
<1>1. Len(s) \in Nat /\ DOMAIN s = 1..Len(s) /\ i \in 1..Len(s)
  OBVIOUS
<1>2. SubSeq(s, 1, i - 1) \in Seq(S) /\ SubSeq(s, i + 1, Len(s)) \in Seq(S)
  BY <1>1
<1>3. Len(SubSeq(s, 1, i - 1)) = i - 1 /\ Len(SubSeq(s, i + 1, Len(s))) = Len(s) - i
  BY <1>1
<1>4. RemoveAt(s, i) \in Seq(S)
  BY <1>2 DEF RemoveAt
<1>5. ASSUME NEW k \in 1..(Len(s) - 1)
      PROVE  \E j \in DOMAIN s : RemoveAt(s, i)[k] = s[j]
  <2>1. k \in DOMAIN s /\ k + 1 \in DOMAIN s
    BY <1>1
  <2>2. CASE k < i
    <3>1. RemoveAt(s, i)[k] = SubSeq(s, 1, i - 1)[k]
      BY <1>1, <1>2, <1>3, <2>2 DEF RemoveAt
    <3>2. SubSeq(s, 1, i - 1)[k] = s[k]
      BY <1>1, <2>2
    <3> QED
      BY <2>1, <3>1, <3>2
  <2>3. CASE k >= i
    <3>1. k \in 1..((i - 1) + (Len(s) - i)) /\ ~(k <= i - 1)
      BY <1>1, <2>3
    <3>2. RemoveAt(s, i)[k] = SubSeq(s, i + 1, Len(s))[k - (i - 1)]
      <4> DEFINE front == SubSeq(s, 1, i - 1)
                 back == SubSeq(s, i + 1, Len(s))
      <4> HIDE DEF front, back
      <4>1. front \in Seq(S) /\ back \in Seq(S) /\ Len(front) = i - 1 /\ Len(back) = Len(s) - i
        BY <1>2, <1>3 DEF front, back
      <4>2. \A x \in 1..(Len(front) + Len(back)) :
                (front \o back)[x] = IF x <= Len(front) THEN front[x] ELSE back[x - Len(front)]
        BY <4>1, ConcatProperties
      <4>3. (front \o back)[k] = back[k - Len(front)]
        BY <4>1, <4>2, <3>1
      <4> QED
        BY <4>1, <4>3 DEF RemoveAt, front, back
    <3>3. SubSeq(s, i + 1, Len(s))[k - (i - 1)] = s[k + 1]
      BY <1>1, <2>3
    <3> QED
      BY <2>1, <3>2, <3>3
  <2> QED
    BY <1>1, <2>2, <2>3
<1>6. DOMAIN RemoveAt(s, i) = 1..(Len(s) - 1)
  BY <1>1, <1>2, <1>3 DEF RemoveAt
<1> QED
  BY <1>1, <1>4, <1>5, <1>6

\* Without and Insert put nobody into the cache but the peer that is inserted.
LEMMA CacheOperations ==
    ASSUME TypeOK, NEW p \in Peers, NEW addrs \in BOOLEAN
    PROVE  /\ Without(p) \in Seq([peer : Peers, addrs : BOOLEAN])
           /\ \A k \in DOMAIN Without(p) : IsKnown(Without(p)[k].peer)
           /\ Insert(Result(p, addrs)) \in Seq([peer : Peers, addrs : BOOLEAN])
           /\ \A k \in DOMAIN Insert(Result(p, addrs)) :
                  LET q == Insert(Result(p, addrs))[k].peer IN q = p \/ IsKnown(q)
           /\ IsKnown(p) => KnownResult(p) \in [peer : Peers, addrs : BOOLEAN]
                            /\ KnownResult(p).peer = p
<1> DEFINE Results == [peer : Peers, addrs : BOOLEAN]
<1> DEFINE at == CHOOSE i \in DOMAIN known_peers : known_peers[i].peer = p
<1>1. known_peers \in Seq(Results)
  BY DEF TypeOK
<1>2. IsKnown(p) => at \in DOMAIN known_peers /\ known_peers[at].peer = p
  BY DEF IsKnown
<1> HIDE DEF at
<1>3. /\ Without(p) \in Seq(Results)
      /\ \A k \in DOMAIN Without(p) : \E j \in DOMAIN known_peers : Without(p)[k] = known_peers[j]
  <2>1. CASE IsKnown(p)
    <3>1. Without(p) = RemoveAt(known_peers, at)
      BY <2>1 DEF Without, at
    <3> HIDE DEF Results
    <3> QED
      BY <1>1, <1>2, <2>1, <3>1, RemovedIsPart
  <2>2. CASE ~IsKnown(p)
    BY <1>1, <2>2 DEF Without
  <2> QED
    BY <2>1, <2>2
<1>4. \A k \in DOMAIN Without(p) : IsKnown(Without(p)[k].peer)
  BY <1>3 DEF IsKnown
<1>5. Result(p, addrs) \in Results /\ Result(p, addrs).peer = p
  BY DEF Result
<1>6. IsKnown(p) => KnownResult(p) \in Results /\ KnownResult(p).peer = p
  <2>1. KnownResult(p) = known_peers[at]
    BY DEF KnownResult, at
  <2>2. \A i \in DOMAIN known_peers : known_peers[i] \in Results
    <3> HIDE DEF Results
    <3> QED
      BY <1>1, ElementOfSeq
  <2> QED
    BY <1>2, <2>1, <2>2
<1>7. PICK rest \in Seq(Results) :
          /\ Insert(Result(p, addrs)) = Append(rest, Result(p, addrs))
          /\ \A k \in DOMAIN rest : IsKnown(rest[k].peer)
  <2>1. CASE Len(Without(p)) >= KnownCapacity
    <3>1. Without(p) # <<>>
      BY <2>1, MdnsAssumption
    <3>2. Tail(Without(p)) \in Seq(Results)
      BY <1>3, <3>1
    <3>3. \A k \in DOMAIN Tail(Without(p)) : /\ k + 1 \in DOMAIN Without(p)
                                            /\ Tail(Without(p))[k] = Without(p)[k + 1]
      BY <1>3, <3>1
    <3>4. Insert(Result(p, addrs)) = Append(Tail(Without(p)), Result(p, addrs))
      BY <1>5, <2>1 DEF Insert
    <3> QED
      BY <1>4, <3>2, <3>3, <3>4
  <2>2. CASE ~(Len(Without(p)) >= KnownCapacity)
    <3>1. Insert(Result(p, addrs)) = Append(Without(p), Result(p, addrs))
      BY <1>5, <2>2 DEF Insert
    <3> QED
      BY <1>3, <1>4, <3>1
  <2> QED
    BY <2>1, <2>2
<1>8. /\ Insert(Result(p, addrs)) \in Seq(Results)
      /\ \A k \in DOMAIN Insert(Result(p, addrs)) :
             Insert(Result(p, addrs))[k] = Result(p, addrs)
             \/ (k \in DOMAIN rest /\ Insert(Result(p, addrs))[k] = rest[k])
  <2> HIDE DEF Results
  <2> QED
    BY <1>5, <1>7
<1> QED
  BY <1>3, <1>4, <1>5, <1>6, <1>7, <1>8

\* What DiscoveryEnds drops is all that was in the channel or the queue.
LEMMA EndKeepsInvariant ==
    ASSUME IInv, NEW how \in {"ended", "panicked"}, DiscoveryEnds(how),
           UNCHANGED <<registry, target, connecting, responder>>
    PROVE  IInv'
<1> USE DEF DiscoveryEnds, Resolve, NothingQueued
<1>1. \A r \in Requests :
          /\ r \in ToSet(request_recv) <=> InChannel(r)
          /\ r \in Queued <=> InQueue(r)
  BY NoRequestIsNone DEF ToSet, Queued, InChannel, InQueue
<1>2. \A r \in Requests :
          slot'[r] = IF InChannel(r) \/ InQueue(r) THEN "dropped" ELSE slot[r]
  BY <1>1
<1>3. TypeOK'
  BY DEF IInv, TypeOK
<1>4. request_recv' = <<>> /\ \A p \in Peers : queued_requests'[p] = NoRequest
  OBVIOUS
<1>5. \A r \in Requests : ~InChannel(r)' /\ ~InQueue(r)'
  BY <1>4, NoRequestIsNone DEF InChannel, InQueue
<1>6. NoRequestLost'
  <2> SUFFICES ASSUME NEW r \in Requests
               PROVE  /\ slot'[r] = "empty" <=> r \in connecting
                      /\ \A i, j \in DOMAIN request_recv' :
                             request_recv'[i] = r /\ request_recv'[j] = r => i = j
                      /\ \A p, q \in Peers :
                             queued_requests'[p] = r /\ queued_requests'[q] = r => p = q
    BY <1>5 DEF NoRequestLost
  <2> QED
    BY <1>2, <1>4, NoRequestIsNone DEF IInv, NoRequestLost
<1>7. QueuedHasTimer' /\ WaitsOnlyForUnknownPeer'
  BY <1>4 DEF QueuedHasTimer, WaitsOnlyForUnknownPeer
<1>8. TargetsKnown'
  BY <1>2 DEF IInv, TargetsKnown, NoRequestLost
<1> QED
  BY <1>3, <1>6, <1>7, <1>8 DEF IInv

\* The responder and the registry handle are no part of the queue.
LEMMA QueueUntouched ==
    ASSUME IInv, TypeOK',
           UNCHANGED <<request_recv, target, slot, queueVars, connecting>>
    PROVE  IInv'
BY DEF IInv, NoRequestLost, QueuedHasTimer, WaitsOnlyForUnknownPeer, TargetsKnown, queueVars,
       InChannel, InQueue, IsKnown

\* Every step of Discovery, of a caller and of a connecting task preserves the
\* invariant.
LEMMA InvariantStep == IInv /\ [Next]_vars => IInv'
<1> SUFFICES ASSUME IInv, [Next]_vars PROVE IInv'
  OBVIOUS
<1> USE NoRequestIsNone
<1>1. ASSUME NEW r \in Requests, NEW p \in Peers, FindPeer(r, p) PROVE IInv'
  <2>1. /\ slot[r] = "unused" /\ ~InChannel(r) /\ ~InQueue(r) /\ r \notin connecting
        /\ UNCHANGED <<registry, discovery, known_peers, queued_requests, timers, connecting,
                       responder>>
        /\ target' = [target EXCEPT ![r] = p]
    BY <1>1 DEF FindPeer, IInv, NoRequestLost, queueVars
  <2>2. CASE discovery = "running"
    <3>1. request_recv' = Append(request_recv, r) /\ slot' = [slot EXCEPT ![r] = "empty"]
      BY <1>1, <2>2 DEF FindPeer, Resolve, IInv, TypeOK
    <3>2. TypeOK'
      BY <2>1, <3>1 DEF IInv, TypeOK
    <3>3. /\ DOMAIN request_recv' = 1..(Len(request_recv) + 1)
          /\ request_recv'[Len(request_recv) + 1] = r
          /\ \A i \in DOMAIN request_recv : i \in 1..Len(request_recv) /\ request_recv'[i] = request_recv[i]
          /\ Len(request_recv) \in Nat
          /\ DOMAIN request_recv = 1..Len(request_recv)
      BY <3>1 DEF IInv, TypeOK
    <3>4. \A q \in Requests : /\ InChannel(q)' <=> InChannel(q) \/ q = r
                              /\ InQueue(q)' <=> InQueue(q)
      BY <2>1, <3>3 DEF InChannel, InQueue
    <3>5. ASSUME NEW q \in Requests, NEW i \in DOMAIN request_recv', NEW j \in DOMAIN request_recv',
                 request_recv'[i] = q, request_recv'[j] = q
          PROVE  i = j
      <4>1. CASE q = r
        BY <2>1, <3>3, <3>5, <4>1 DEF InChannel
      <4>2. CASE q # r
        <5>1. i \in DOMAIN request_recv /\ j \in DOMAIN request_recv
          BY <3>3, <3>5, <4>2
        <5> QED
          BY <3>3, <3>5, <5>1 DEF IInv, NoRequestLost
      <4> QED
        BY <4>1, <4>2
    <3>6. \A q \in Requests : slot'[q] = IF q = r THEN "empty" ELSE slot[q]
      BY <3>1 DEF IInv, TypeOK
    <3>7. NoRequestLost'
      BY <2>1, <3>4, <3>5, <3>6 DEF IInv, NoRequestLost
    <3>8. \A q \in Requests : target'[q] = IF q = r THEN p ELSE target[q]
      BY <2>1 DEF IInv, TypeOK
    <3>9. QueuedHasTimer' /\ WaitsOnlyForUnknownPeer'
      BY <2>1, <3>8 DEF IInv, TypeOK, QueuedHasTimer, WaitsOnlyForUnknownPeer, InQueue, IsKnown
    <3>10. TargetsKnown'
      BY <2>1, <3>6, <3>8 DEF IInv, TypeOK, TargetsKnown
    <3> QED
      BY <3>2, <3>7, <3>9, <3>10 DEF IInv
  <2>3. CASE discovery # "running"
    <3>1. request_recv' = request_recv /\ slot' = [slot EXCEPT ![r] = "dropped"]
      BY <1>1, <2>3 DEF FindPeer, Resolve, IInv, TypeOK
    <3>2. TypeOK'
      BY <2>1, <3>1 DEF IInv, TypeOK
    <3>3. \A q \in Requests : /\ slot'[q] = IF q = r THEN "dropped" ELSE slot[q]
                              /\ target'[q] = IF q = r THEN p ELSE target[q]
      BY <2>1, <3>1 DEF IInv, TypeOK
    <3>4. NoRequestLost'
      BY <2>1, <3>1, <3>3 DEF IInv, NoRequestLost, InChannel, InQueue
    <3>5. QueuedHasTimer' /\ WaitsOnlyForUnknownPeer'
      BY <2>1, <3>3 DEF IInv, TypeOK, QueuedHasTimer, WaitsOnlyForUnknownPeer, InQueue, IsKnown
    <3>6. TargetsKnown'
      BY <2>1, <3>3 DEF IInv, TypeOK, TargetsKnown
    <3> QED
      BY <3>2, <3>4, <3>5, <3>6 DEF IInv
  <2> QED
    BY <2>2, <2>3
<1>2. ASSUME NEW r \in Requests, PollQueuedRequestsTimeouts(r) PROVE IInv'
  <2> DEFINE p == target[r]
             late == queued_requests[p]
  <2>1. p \in Peers /\ r \in timers
    BY <1>2 DEF PollQueuedRequestsTimeouts, IInv, TargetsKnown
  <2>2. /\ UNCHANGED <<registry, discovery, request_recv, target, known_peers, connecting, responder>>
        /\ timers' = timers \ {r}
        /\ \A q \in Peers : queued_requests'[q] = IF q = p THEN NoRequest ELSE queued_requests[q]
        /\ \A q \in Requests : slot'[q] = IF q = late THEN "dropped" ELSE slot[q]
    BY <1>2, <2>1 DEF PollQueuedRequestsTimeouts, Resolve, IInv, TypeOK
  <2>3. TypeOK'
    BY <1>2, <2>1 DEF PollQueuedRequestsTimeouts, Resolve, IInv, TypeOK
  <2>4. \A q \in Requests : /\ InChannel(q)' <=> InChannel(q)
                            /\ InQueue(q)' <=> InQueue(q) /\ q # late
    BY <2>1, <2>2 DEF InChannel, InQueue, IInv, NoRequestLost
  <2>5. late # NoRequest => late \in Requests /\ InQueue(late)
    BY <2>1 DEF IInv, TypeOK, InQueue
  <2>6. NoRequestLost'
    BY <2>1, <2>2, <2>4, <2>5 DEF IInv, NoRequestLost
  <2>7. QueuedHasTimer'
    BY <2>1, <2>2 DEF IInv, QueuedHasTimer
  <2>8. WaitsOnlyForUnknownPeer' /\ TargetsKnown'
    BY <2>1, <2>2, <2>5 DEF IInv, WaitsOnlyForUnknownPeer, TargetsKnown, IsKnown, NoRequestLost
  <2> QED
    BY <2>3, <2>6, <2>7, <2>8 DEF IInv
<1>3. ASSUME NEW r \in Requests, NEW outcome \in {"Found", "dropped"}, FulfillRequest(r, outcome)
      PROVE  IInv'
  <2>1. /\ UNCHANGED <<registry, discovery, request_recv, target, known_peers, queued_requests,
                       timers, responder>>
        /\ r \in connecting /\ connecting' = connecting \ {r}
        /\ \A q \in Requests : slot'[q] = IF q = r THEN outcome ELSE slot[q]
    BY <1>3 DEF FulfillRequest, Resolve, queueVars, IInv, TypeOK
  <2>2. TypeOK'
    BY <1>3, <2>1 DEF FulfillRequest, Resolve, IInv, TypeOK
  <2>3. NoRequestLost'
    BY <2>1 DEF IInv, NoRequestLost, InChannel, InQueue
  <2>4. QueuedHasTimer' /\ WaitsOnlyForUnknownPeer' /\ TargetsKnown'
    BY <2>1 DEF IInv, QueuedHasTimer, WaitsOnlyForUnknownPeer, TargetsKnown, IsKnown, NoRequestLost
  <2> QED
    BY <2>2, <2>3, <2>4 DEF IInv
<1>4. ASSUME NEW p \in Peers, NEW addrs \in BOOLEAN, PollResults(p, addrs) PROVE IInv'
  <2>1. CASE queued_requests[p] # NoRequest /\ ~addrs
    BY <1>4, <2>1, EndKeepsInvariant DEF PollResults
  <2>2. CASE ~(queued_requests[p] # NoRequest /\ ~addrs)
    <3>1. /\ UNCHANGED <<registry, discovery, request_recv, target, slot, timers, responder>>
          /\ connecting' = connecting \cup ({queued_requests[p]} \ {NoRequest})
          /\ \A q \in Peers : queued_requests'[q] = IF q = p THEN NoRequest ELSE queued_requests[q]
          /\ known_peers' = Insert(Result(p, addrs))
      BY <1>4, <2>2 DEF PollResults, IInv, TypeOK
    <3>2. /\ known_peers' \in Seq([peer : Peers, addrs : BOOLEAN])
          /\ \A k \in DOMAIN known_peers' : known_peers'[k].peer = p \/ IsKnown(known_peers'[k].peer)
      <4> DEFINE cache == Insert(Result(p, addrs))
      <4>1. /\ cache \in Seq([peer : Peers, addrs : BOOLEAN])
            /\ \A k \in DOMAIN cache : cache[k].peer = p \/ IsKnown(cache[k].peer)
        BY CacheOperations DEF IInv
      <4> HIDE DEF cache
      <4>2. known_peers' = cache
        BY <3>1 DEF cache
      <4> QED
        BY <4>1, <4>2
    <3>3. queued_requests' \in [Peers -> Requests \cup {NoRequest}] /\ connecting' \subseteq Requests
      BY <1>4, <2>2 DEF PollResults, IInv, TypeOK
    <3>4. TypeOK'
      BY <3>1, <3>2, <3>3 DEF IInv, TypeOK
    <3>5. \A q \in Requests : /\ InChannel(q)' <=> InChannel(q)
                              /\ InQueue(q)' <=> InQueue(q) /\ q # queued_requests[p]
      BY <3>1 DEF InChannel, InQueue, IInv, NoRequestLost
    <3>6. queued_requests[p] # NoRequest =>
              queued_requests[p] \in Requests /\ InQueue(queued_requests[p])
      BY DEF IInv, TypeOK, InQueue
    <3>7. NoRequestLost'
      BY <3>1, <3>5, <3>6 DEF IInv, NoRequestLost
    <3>8. QueuedHasTimer'
      BY <3>1 DEF IInv, QueuedHasTimer
    <3>9. WaitsOnlyForUnknownPeer'
      BY <3>1, <3>2 DEF IInv, WaitsOnlyForUnknownPeer, IsKnown
    <3>10. TargetsKnown'
      BY <3>1 DEF IInv, TargetsKnown
    <3> QED
      BY <3>4, <3>7, <3>8, <3>9, <3>10 DEF IInv
  <2> QED
    BY <2>1, <2>2
<1>5. ASSUME NEW p \in Peers, KnownPeerExpires(p) PROVE IInv'
  <2>1. /\ UNCHANGED <<registry, discovery, request_recv, target, slot, queued_requests, timers,
                       connecting, responder>>
        /\ known_peers' = Without(p)
    BY <1>5 DEF KnownPeerExpires
  <2>2. /\ known_peers' \in Seq([peer : Peers, addrs : BOOLEAN])
        /\ \A k \in DOMAIN known_peers' : IsKnown(known_peers'[k].peer)
    BY <2>1, CacheOperations DEF IInv
  <2>3. TypeOK' /\ NoRequestLost' /\ QueuedHasTimer' /\ TargetsKnown'
    BY <2>1, <2>2 DEF IInv, TypeOK, NoRequestLost, QueuedHasTimer, TargetsKnown, InChannel, InQueue
  <2>4. WaitsOnlyForUnknownPeer'
    BY <2>1, <2>2 DEF IInv, WaitsOnlyForUnknownPeer, IsKnown
  <2> QED
    BY <2>3, <2>4 DEF IInv
<1>6. ASSUME MdnsFails \/ PollRequestNone PROVE IInv'
  BY <1>6, EndKeepsInvariant DEF MdnsFails, PollRequestNone
<1>7. ASSUME PollRequest PROVE IInv'
  <2> DEFINE r == Head(request_recv)
             p == target[r]
  <2>1. request_recv # <<>> /\ UNCHANGED <<registry, target, responder>>
    BY <1>7 DEF PollRequest
  <2>2. /\ Len(request_recv) \in Nat \ {0} /\ DOMAIN request_recv = 1..Len(request_recv)
        /\ r = request_recv[1] /\ r \in Requests
        /\ Tail(request_recv) \in Seq(Requests)
        /\ DOMAIN Tail(request_recv) = 1..(Len(request_recv) - 1)
        /\ \A k \in 1..(Len(request_recv) - 1) : Tail(request_recv)[k] = request_recv[k + 1]
    BY <2>1 DEF IInv, TypeOK
  <2>3. InChannel(r) /\ slot[r] = "empty" /\ ~InQueue(r) /\ r \notin connecting
    <3>1. InChannel(r)
      BY <2>2 DEF InChannel
    <3> QED
      BY <2>2, <3>1 DEF IInv, NoRequestLost
  <2>4. p \in Peers
    BY <2>2, <2>3 DEF IInv, TargetsKnown
  <2> HIDE DEF r, p
  <2>5. ASSUME request_recv' = Tail(request_recv)
        PROVE  /\ \A q \in Requests : InChannel(q)' <=> InChannel(q) /\ q # r
               /\ \A q \in Requests : \A i, j \in DOMAIN request_recv' :
                      request_recv'[i] = q /\ request_recv'[j] = q => i = j
    <3>1. \A q \in Requests : \A i, j \in DOMAIN request_recv :
              request_recv[i] = q /\ request_recv[j] = q => i = j
      BY DEF IInv, NoRequestLost
    <3>2. ASSUME NEW q \in Requests PROVE InChannel(q)' <=> InChannel(q) /\ q # r
      <4>1. ASSUME InChannel(q)' PROVE InChannel(q) /\ q # r
        <5>1. PICK k \in 1..(Len(request_recv) - 1) : request_recv[k + 1] = q
          BY <2>2, <2>5, <4>1 DEF InChannel
        <5>2. k + 1 \in DOMAIN request_recv /\ 1 \in DOMAIN request_recv /\ k + 1 # 1
          BY <2>2
        <5> QED
          BY <2>2, <3>1, <5>1, <5>2 DEF InChannel
      <4>2. ASSUME InChannel(q), q # r PROVE InChannel(q)'
        <5>1. PICK i \in DOMAIN request_recv : request_recv[i] = q
          BY <4>2 DEF InChannel
        <5>2. i - 1 \in 1..(Len(request_recv) - 1) /\ (i - 1) + 1 = i
          BY <2>2, <4>2, <5>1
        <5> QED
          BY <2>2, <2>5, <5>1, <5>2 DEF InChannel
      <4> QED
        BY <4>1, <4>2
    <3>3. ASSUME NEW q \in Requests, NEW i \in DOMAIN request_recv', NEW j \in DOMAIN request_recv',
                 request_recv'[i] = q, request_recv'[j] = q
          PROVE  i = j
      <4>1. i \in 1..(Len(request_recv) - 1) /\ j \in 1..(Len(request_recv) - 1)
        BY <2>2, <2>5, <3>3
      <4>2. i + 1 \in DOMAIN request_recv /\ j + 1 \in DOMAIN request_recv
        BY <2>2, <4>1
      <4>3. request_recv[i + 1] = q /\ request_recv[j + 1] = q
        BY <2>2, <2>5, <3>3, <4>1
      <4>4. i + 1 = j + 1
        BY <3>1, <4>2, <4>3
      <4> QED
        BY <4>1, <4>4
    <3> QED
      BY <3>2, <3>3
  <2>6. CASE IsKnown(p) /\ KnownResult(p).addrs
    <3>1. /\ request_recv' = Tail(request_recv)
          /\ connecting' = connecting \cup {r}
          /\ known_peers' = Append(Without(p), KnownResult(p))
          /\ UNCHANGED <<discovery, slot, queued_requests, timers>>
      BY <1>7, <2>6 DEF PollRequest, r, p
    <3>2. /\ known_peers' \in Seq([peer : Peers, addrs : BOOLEAN])
          /\ \A k \in DOMAIN known_peers' : IsKnown(known_peers'[k].peer)
      <4> DEFINE rest == Without(p)
                 known == KnownResult(p)
                 Results == [peer : Peers, addrs : BOOLEAN]
      <4>1. /\ rest \in Seq(Results) /\ known \in Results /\ IsKnown(known.peer)
            /\ \A k \in DOMAIN rest : IsKnown(rest[k].peer)
        BY <2>4, <2>6, CacheOperations DEF IInv
      <4> HIDE DEF rest, known, Results
      <4>2. known_peers' = Append(rest, known)
        BY <3>1 DEF rest, known
      <4>3. /\ known_peers' \in Seq(Results)
            /\ \A k \in DOMAIN known_peers' :
                   known_peers'[k] = known \/ (k \in DOMAIN rest /\ known_peers'[k] = rest[k])
        BY <4>1, <4>2
      <4> QED
        BY <4>1, <4>3 DEF Results
    <3>3. TypeOK'
      BY <2>1, <2>2, <3>1, <3>2 DEF IInv, TypeOK
    <3>4. NoRequestLost'
      BY <2>3, <2>5, <3>1 DEF IInv, NoRequestLost, InQueue
    <3>5. QueuedHasTimer' /\ TargetsKnown'
      BY <2>1, <3>1 DEF IInv, QueuedHasTimer, TargetsKnown
    <3>6. ASSUME NEW q \in Peers, IsKnown(q)' PROVE IsKnown(q)
      <4>1. PICK k \in DOMAIN known_peers' : known_peers'[k].peer = q
        BY <3>6 DEF IsKnown
      <4> QED
        BY <3>2, <4>1
    <3>7. WaitsOnlyForUnknownPeer'
      BY <3>1, <3>6 DEF IInv, WaitsOnlyForUnknownPeer
    <3> QED
      BY <3>3, <3>4, <3>5, <3>7 DEF IInv
  <2>7. CASE IsKnown(p) /\ ~KnownResult(p).addrs
    BY <1>7, <2>1, <2>7, EndKeepsInvariant DEF PollRequest, r, p
  <2>8. CASE ~IsKnown(p) /\ (queued_requests[p] # NoRequest \/ QueueFull)
    <3>1. /\ request_recv' = Tail(request_recv)
          /\ \A q \in Requests : slot'[q] = IF q = r THEN "dropped" ELSE slot[q]
          /\ slot' \in [Requests -> {"unused", "empty", "Found", "dropped"}]
          /\ UNCHANGED <<discovery, connecting, known_peers, queued_requests, timers>>
      BY <1>7, <2>8 DEF PollRequest, r, p, Resolve, queueVars, IInv, TypeOK
    <3>2. TypeOK'
      BY <2>1, <2>2, <3>1 DEF IInv, TypeOK
    <3>3. NoRequestLost'
      BY <2>3, <2>5, <3>1 DEF IInv, NoRequestLost, InQueue
    <3>4. QueuedHasTimer' /\ TargetsKnown' /\ WaitsOnlyForUnknownPeer'
      BY <2>1, <2>3, <3>1 DEF IInv, QueuedHasTimer, TargetsKnown, WaitsOnlyForUnknownPeer, IsKnown
    <3> QED
      BY <3>2, <3>3, <3>4 DEF IInv
  <2>9. CASE ~IsKnown(p) /\ ~(queued_requests[p] # NoRequest \/ QueueFull)
    <3>1. /\ request_recv' = Tail(request_recv)
          /\ \A q \in Peers : queued_requests'[q] = IF q = p THEN r ELSE queued_requests[q]
          /\ queued_requests' \in [Peers -> Requests \cup {NoRequest}]
          /\ timers' = timers \cup {r}
          /\ UNCHANGED <<discovery, slot, connecting, known_peers>>
      <4>1. /\ request_recv' = Tail(request_recv)
            /\ queued_requests' = [queued_requests EXCEPT ![p] = r]
            /\ timers' = timers \cup {r}
            /\ UNCHANGED <<discovery, slot, connecting, known_peers>>
        BY <1>7, <2>9 DEF PollRequest, r, p
      <4>2. queued_requests \in [Peers -> Requests \cup {NoRequest}] /\ r \in Requests
        BY <2>2 DEF IInv, TypeOK
      <4> HIDE DEF r, p
      <4> QED
        BY <4>1, <4>2
    <3>2. TypeOK'
      BY <2>1, <2>2, <3>1 DEF IInv, TypeOK
    <3>3. \A q \in Requests : InQueue(q)' <=> InQueue(q) \/ q = r
      BY <2>4, <2>9, <3>1 DEF InQueue
    <3>4. \A q \in Requests : \A a, b \in Peers :
              queued_requests'[a] = q /\ queued_requests'[b] = q => a = b
      BY <2>3, <3>1 DEF IInv, NoRequestLost, InQueue
    <3>5. NoRequestLost'
      BY <2>3, <2>5, <3>1, <3>3, <3>4 DEF IInv, NoRequestLost
    <3>6. p = target[r]
      BY DEF p
    <3>7. QueuedHasTimer' /\ TargetsKnown' /\ WaitsOnlyForUnknownPeer'
      BY <2>1, <2>4, <2>9, <3>1, <3>6
         DEF IInv, QueuedHasTimer, TargetsKnown, WaitsOnlyForUnknownPeer, IsKnown
    <3> QED
      BY <3>2, <3>5, <3>7 DEF IInv
  <2> QED
    BY <2>6, <2>7, <2>8, <2>9
<1>8. ASSUME \/ DropRegistry \/ ResponderShutdown \/ ResponderReturns \/ RetryResponder
             \/ \E network \in BOOLEAN : RegisterResponder(network)
             \/ UNCHANGED vars
      PROVE  IInv'
  <2>1. UNCHANGED <<request_recv, target, slot, queueVars, connecting>> /\ TypeOK'
    BY <1>8 DEF DropRegistry, ResponderShutdown, ResponderReturns, RetryResponder,
                RegisterResponder, vars, queueVars, IInv, TypeOK
  <2> QED
    BY <2>1, QueueUntouched
<1> QED
  BY <1>1, <1>2, <1>3, <1>4, <1>5, <1>6, <1>7, <1>8 DEF Next

\* The invariant holds throughout.
LEMMA InvariantHolds == Spec => []IInv
<1>1. Init => IInv
  <2> SUFFICES ASSUME Init PROVE IInv
    OBVIOUS
  <2> USE NoRequestIsNone DEF Init, NothingQueued
  <2>1. TypeOK
    BY DEF TypeOK
  <2>2. \A r \in Requests : ~InChannel(r) /\ ~InQueue(r)
    BY DEF InChannel, InQueue
  <2>3. NoRequestLost
    BY <2>2 DEF NoRequestLost
  <2>4. QueuedHasTimer /\ WaitsOnlyForUnknownPeer /\ TargetsKnown
    BY DEF QueuedHasTimer, WaitsOnlyForUnknownPeer, TargetsKnown
  <2> QED
    BY <2>1, <2>3, <2>4 DEF IInv
<1> QED
  BY <1>1, InvariantStep, PTL DEF Spec

\* Every variable of the mDNS registry keeps its type.
THEOREM TypeCorrect == Spec => []TypeOK
<1>1. IInv => TypeOK
  BY DEF IInv
<1> QED
  BY <1>1, InvariantHolds, PTL

\* The sender of a request is in exactly one place while its caller waits and in
\* none afterwards: poll_results, poll_queued_requests_timeouts and the loop over
\* request_recv hand it on without losing or doubling it, and the end or panic
\* of Discovery drops all it holds.
THEOREM RequestsAreNotLost == Spec => []NoRequestLost
<1>1. IInv => NoRequestLost
  BY DEF IInv
<1> QED
  BY <1>1, InvariantHolds, PTL

\* A queued request has its own timer running, although the timer of an earlier
\* request for the same peer may end its wait before.
THEOREM QueuedRequestsTimeOut == Spec => []QueuedHasTimer
<1>1. IInv => QueuedHasTimer
  BY DEF IInv
<1> QED
  BY <1>1, InvariantHolds, PTL

\* A response that is in the cache has served the request that waited for it,
\* whatever the cache evicts.
THEOREM KnownPeersAreNotWaitedFor == Spec => []WaitsOnlyForUnknownPeer
<1>1. IInv => WaitsOnlyForUnknownPeer
  BY DEF IInv
<1> QED
  BY <1>1, InvariantHolds, PTL

\* Discovery holds at most MAX_QUEUED_REQUESTS timers, those of requests that are
\* served already included.
THEOREM QueueIsBounded == Spec => []QueueBounded
<1> DEFINE Bounded == IsFiniteSet(timers) /\ Cardinality(timers) <= MAX_QUEUED_REQUESTS
<1>1. Init => Bounded
  BY FS_EmptySet, MdnsAssumption DEF Init
<1>2. Bounded /\ [Next]_vars => Bounded'
  <2> SUFFICES ASSUME Bounded, [Next]_vars PROVE Bounded'
    OBVIOUS
  <2>1. Cardinality(timers) \in Nat
    BY FS_CardinalityType
  <2>2. CASE timers' = timers
    BY <2>2
  <2>3. CASE timers' = {}
    BY <2>3, FS_EmptySet, MdnsAssumption
  <2>4. ASSUME NEW r, timers' = timers \ {r} PROVE Bounded'
    <3>1. IsFiniteSet(timers') /\ Cardinality(timers') <= Cardinality(timers)
      BY <2>4, FS_Subset
    <3>2. Cardinality(timers') \in Nat
      BY <3>1, FS_CardinalityType
    <3> QED
      BY <2>1, <3>1, <3>2, MdnsAssumption
  <2>5. ASSUME NEW r, timers' = timers \cup {r}, ~QueueFull PROVE Bounded'
    <3>1. /\ IsFiniteSet(timers')
          /\ Cardinality(timers') = Cardinality(timers) \/ Cardinality(timers') = Cardinality(timers) + 1
      BY <2>5, FS_AddElement
    <3> QED
      BY <2>1, <2>5, <3>1, MdnsAssumption DEF QueueFull
  <2>6. \/ timers' = timers
        \/ timers' = {}
        \/ \E r \in Requests : timers' = timers \ {r}
        \/ ~QueueFull /\ timers' = timers \cup {Head(request_recv)}
    BY DEF Next, vars, queueVars, FindPeer, DropRegistry, DiscoveryEnds, PollResults, MdnsFails,
           PollQueuedRequestsTimeouts, PollRequest, PollRequestNone, KnownPeerExpires,
           FulfillRequest, ResponderShutdown, RegisterResponder, ResponderReturns, RetryResponder
  <2> QED
    BY <2>2, <2>3, <2>4, <2>5, <2>6
<1>3. Bounded => QueueBounded
  BY DEF QueueBounded
<1> QED
  BY <1>1, <1>2, <1>3, PTL DEF Spec
=============================================================================
