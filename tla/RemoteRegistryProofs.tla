------------------------ MODULE RemoteRegistryProofs ------------------------
(***************************************************************************)
(* Proofs about RemoteRegistry, for any number of peers and requests and   *)
(* any room in the write buffer.                                           *)
(***************************************************************************)
EXTENDS RemoteRegistry, TLAPS

-----------------------------------------------------------------------------
(* Queues without repetition *)

\* What Head and Tail do to the elements of a sequence.
LEMMA TailElements ==
    ASSUME NEW S, NEW s \in Seq(S), s # <<>>
    PROVE  /\ Head(s) = s[1] /\ Head(s) \in S /\ Tail(s) \in Seq(S)
           /\ Len(s) \in Nat \ {0} /\ DOMAIN s = 1..Len(s) /\ 1 \in DOMAIN s
           /\ DOMAIN Tail(s) = 1..(Len(s) - 1)
           /\ \A k \in DOMAIN Tail(s) : k \in Nat \ {0} /\ k + 1 \in DOMAIN s /\ Tail(s)[k] = s[k + 1]
           /\ \A k \in DOMAIN s : k # 1 => k - 1 \in DOMAIN Tail(s) /\ Tail(s)[k - 1] = s[k]
OBVIOUS

\* What Append does to the elements of a sequence.
LEMMA AppendElements ==
    ASSUME NEW S, NEW s \in Seq(S), NEW e \in S
    PROVE  /\ Append(s, e) \in Seq(S) /\ Len(s) \in Nat /\ DOMAIN s = 1..Len(s)
           /\ DOMAIN Append(s, e) = DOMAIN s \cup {Len(s) + 1}
           /\ Len(s) + 1 \notin DOMAIN s
           /\ Append(s, e)[Len(s) + 1] = e
           /\ \A k \in DOMAIN s : Append(s, e)[k] = s[k]
OBVIOUS

\* Taking the first element from a queue without repetition removes it.
LEMMA TailOfQueue ==
    ASSUME NEW S, NEW s \in Seq(S), s # <<>>,
           \A i, j \in DOMAIN s : s[i] = s[j] => i = j
    PROVE  /\ \A i, j \in DOMAIN Tail(s) : Tail(s)[i] = Tail(s)[j] => i = j
           /\ \A e : (\E i \in DOMAIN Tail(s) : Tail(s)[i] = e)
                        <=> (\E i \in DOMAIN s : s[i] = e) /\ e # Head(s)
<1>1. ASSUME NEW i \in DOMAIN Tail(s), NEW j \in DOMAIN Tail(s), Tail(s)[i] = Tail(s)[j]
      PROVE  i = j
  <2>1. i + 1 = j + 1
    BY <1>1, TailElements
  <2> QED
    BY <2>1, TailElements
<1>2. ASSUME NEW e, NEW i \in DOMAIN Tail(s), Tail(s)[i] = e
      PROVE  (\E k \in DOMAIN s : s[k] = e) /\ e # Head(s)
  <2>1. s[i + 1] = e /\ i + 1 \in DOMAIN s /\ i + 1 # 1
    BY <1>2, TailElements
  <2> QED
    BY <2>1, TailElements
<1>3. ASSUME NEW e, NEW k \in DOMAIN s, s[k] = e, e # Head(s)
      PROVE  \E i \in DOMAIN Tail(s) : Tail(s)[i] = e
  <2>1. k - 1 \in DOMAIN Tail(s) /\ Tail(s)[k - 1] = s[k]
    BY <1>3, TailElements
  <2> QED
    BY <1>3, <2>1
<1> QED
  BY <1>1, <1>2, <1>3

\* Appending an element that a queue does not hold leaves no repetition.
LEMMA AppendToQueue ==
    ASSUME NEW S, NEW s \in Seq(S), NEW e \in S,
           \A i, j \in DOMAIN s : s[i] = s[j] => i = j,
           \A i \in DOMAIN s : s[i] # e
    PROVE  /\ \A i, j \in DOMAIN Append(s, e) : Append(s, e)[i] = Append(s, e)[j] => i = j
           /\ \A x : (\E i \in DOMAIN Append(s, e) : Append(s, e)[i] = x)
                        <=> (\E i \in DOMAIN s : s[i] = x) \/ x = e
BY AppendElements

\* The same for messages, which are told apart by their peer.
LEMMA TailOfMessages ==
    ASSUME NEW S, NEW s \in Seq(S), s # <<>>,
           \A i, j \in DOMAIN s : s[i].peer = s[j].peer => i = j
    PROVE  /\ \A i, j \in DOMAIN Tail(s) : Tail(s)[i].peer = Tail(s)[j].peer => i = j
           /\ \A p : (\E i \in DOMAIN Tail(s) : Tail(s)[i].peer = p)
                        <=> (\E i \in DOMAIN s : s[i].peer = p) /\ p # Head(s).peer
<1>1. ASSUME NEW i \in DOMAIN Tail(s), NEW j \in DOMAIN Tail(s), Tail(s)[i].peer = Tail(s)[j].peer
      PROVE  i = j
  <2>1. i + 1 = j + 1
    BY <1>1, TailElements
  <2> QED
    BY <2>1, TailElements
<1>2. ASSUME NEW p, NEW i \in DOMAIN Tail(s), Tail(s)[i].peer = p
      PROVE  (\E k \in DOMAIN s : s[k].peer = p) /\ p # Head(s).peer
  <2>1. s[i + 1].peer = p /\ i + 1 \in DOMAIN s /\ i + 1 # 1
    BY <1>2, TailElements
  <2> QED
    BY <2>1, TailElements
<1>3. ASSUME NEW p, NEW k \in DOMAIN s, s[k].peer = p, p # Head(s).peer
      PROVE  \E i \in DOMAIN Tail(s) : Tail(s)[i].peer = p
  BY <1>3, TailElements
<1> QED
  BY <1>1, <1>2, <1>3

\* Appending a message about a peer that no message of the queue is about.
LEMMA AppendToMessages ==
    ASSUME NEW S, NEW s \in Seq(S), NEW m \in S,
           \A i, j \in DOMAIN s : s[i].peer = s[j].peer => i = j,
           \A i \in DOMAIN s : s[i].peer # m.peer
    PROVE  /\ \A i, j \in DOMAIN Append(s, m) : Append(s, m)[i].peer = Append(s, m)[j].peer => i = j
           /\ \A p : (\E i \in DOMAIN Append(s, m) : Append(s, m)[i].peer = p)
                        <=> (\E i \in DOMAIN s : s[i].peer = p) \/ p = m.peer
BY AppendElements

-----------------------------------------------------------------------------
(* Senders *)

\* The request was made, and its sender is with the handler.
Held(r) == InChannel(r) \/ \E p \in Peers : r \in requests[p]

\* Only requests that were made are with the handler, and each asks for a peer.
HeldWereMade ==
    \A r \in Requests : /\ Held(r) => caller[r] # "idle"
                        /\ caller[r] # "idle" => target[r] \in Peers

SenderInv == TypeOK /\ NoSenderLost /\ HeldWereMade

\* Whatever ends the handler cancels all it holds.
LEMMA EndCancelsAll ==
    ASSUME SenderInv, NEW how \in Over, HandlerEnds(how),
           UNCHANGED <<registry, callerVars, remoteVars>>
    PROVE  SenderInv'
<1> USE DEF HandlerEnds, Send, NoRequests, callerVars, remoteVars, Over
<1>1. \A r \in Requests :
        r \in {find_peer_request[i] : i \in DOMAIN find_peer_request} \cup Pending <=> Held(r)
  BY DEF Pending, Held, InChannel
<1>2. \A r \in Requests : slot'[r] = IF Held(r) THEN "canceled" ELSE slot[r]
  BY <1>1
<1>3. TypeOK'
  BY DEF SenderInv, TypeOK
<1>4. \A r \in Requests : ~InChannel(r)' /\ \A p \in Peers : r \notin requests'[p]
  BY DEF InChannel
<1>5. NoSenderLost'
  <2>1. \A r \in Requests : caller[r] = "waiting" /\ slot[r] = "empty" => Held(r)
    BY DEF SenderInv, NoSenderLost, HeldWereMade, Held, TypeOK
  <2> QED
    BY <1>2, <1>4, <2>1 DEF NoSenderLost
<1>6. HeldWereMade'
  BY <1>4 DEF SenderInv, HeldWereMade, Held
<1> QED
  BY <1>3, <1>5, <1>6 DEF SenderInv

\* A connection that is over cancels those who wait on it and keeps the channel.
LEMMA OverCancelsPending ==
    ASSUME SenderInv, NEW S \in SUBSET Requests, ConnectionOver(S),
           UNCHANGED <<registry, callerVars, connected_peers, observed>>,
           find_peer_request' \in Seq(Requests),
           \A i, j \in DOMAIN find_peer_request' :
               find_peer_request'[i] = find_peer_request'[j] => i = j,
           \A r \in Requests : InChannel(r)' <=> InChannel(r) /\ r \notin S
    PROVE  SenderInv'
<1> USE DEF ConnectionOver, Send, NoRequests, callerVars
<1>1. \A r \in Requests : r \in Pending <=> \E p \in Peers : r \in requests[p]
  BY DEF Pending
<1>2. \A r \in Requests :
          slot'[r] = IF (\E p \in Peers : r \in requests[p]) \/ r \in S THEN "canceled" ELSE slot[r]
  BY <1>1
<1>3. TypeOK'
  BY DEF SenderInv, TypeOK
<1>4. \A r \in Requests : \A p \in Peers : r \notin requests'[p]
  OBVIOUS
<1>5. NoSenderLost'
  <2>1. \A r \in Requests : caller[r] = "waiting" /\ slot[r] = "empty" => Held(r)
    BY DEF SenderInv, NoSenderLost, HeldWereMade, Held, TypeOK
  <2> QED
    BY <1>2, <1>4, <2>1 DEF NoSenderLost, Held
<1>6. HeldWereMade'
  BY <1>4 DEF SenderInv, HeldWereMade, Held
<1> QED
  BY <1>3, <1>5, <1>6 DEF SenderInv

\* Every step of a caller, the handler and the remote peer preserves it.
LEMMA SenderStep == SenderInv /\ [Next]_vars => SenderInv'
<1> SUFFICES ASSUME SenderInv, [Next]_vars PROVE SenderInv'
  OBVIOUS
<1>1. ASSUME NEW r \in Requests, NEW p \in Peers, FindPeer(r, p) PROVE SenderInv'
  <2>1. /\ ~Held(r) /\ UNCHANGED <<registry, handler, requests, slot>>
        /\ \A q \in Requests : target'[q] = IF q = r THEN p ELSE target[q]
    BY <1>1 DEF FindPeer, SenderInv, HeldWereMade, TypeOK
  <2>2. CASE handler \in Over
    <3>1. TypeOK'
      BY <1>1, <2>2 DEF FindPeer, SenderInv, TypeOK, linkVars, remoteVars
    <3>2. /\ find_peer_request' = find_peer_request
          /\ \A q \in Requests : caller'[q] = IF q = r THEN "panicked" ELSE caller[q]
      BY <1>1, <2>2 DEF FindPeer, SenderInv, TypeOK
    <3>3. NoSenderLost' /\ HeldWereMade'
      BY <2>1, <3>2 DEF SenderInv, NoSenderLost, HeldWereMade, Held, InChannel
    <3> QED
      BY <3>1, <3>3 DEF SenderInv
  <2>3. CASE handler \notin Over
    <3>1. find_peer_request \in Seq(Requests) /\ find_peer_request' = Append(find_peer_request, r)
      BY <1>1, <2>3 DEF FindPeer, SenderInv, TypeOK
    <3>2. find_peer_request' \in Seq(Requests)
      BY <3>1, AppendElements
    <3>3. TypeOK'
      BY <1>1, <2>3, <3>2 DEF FindPeer, SenderInv, TypeOK, linkVars, remoteVars
    <3>4. \A q \in Requests : caller'[q] = IF q = r THEN "waiting" ELSE caller[q]
      BY <1>1, <2>3 DEF FindPeer, SenderInv, TypeOK
    <3>5. /\ \A i, j \in DOMAIN find_peer_request' :
                 find_peer_request'[i] = find_peer_request'[j] => i = j
          /\ \A q \in Requests : InChannel(q)' <=> InChannel(q) \/ q = r
      <4>1. \A i \in DOMAIN find_peer_request : find_peer_request[i] # r
        BY <2>1 DEF Held, InChannel
      <4>2. \A i, j \in DOMAIN find_peer_request : find_peer_request[i] = find_peer_request[j] => i = j
        BY DEF SenderInv, NoSenderLost
      <4> QED
        BY <3>1, <4>1, <4>2, AppendToQueue DEF InChannel
    <3>6. NoSenderLost' /\ HeldWereMade'
      BY <2>1, <3>4, <3>5 DEF SenderInv, NoSenderLost, HeldWereMade, Held
    <3> QED
      BY <3>3, <3>6 DEF SenderInv
  <2> QED
    BY <2>2, <2>3
<1>2. ASSUME NEW r \in Requests, RequestResolves(r) \/ RequestGivenUp(r) PROVE SenderInv'
  <2>1. /\ UNCHANGED <<registry, handler, find_peer_request, requests, target, slot>>
        /\ \A q \in Requests : caller'[q] = caller[q]
                               \/ (caller[q] # "idle" /\ caller'[q] \notin {"idle", "waiting"})
    BY <1>2 DEF RequestResolves, RequestGivenUp, SenderInv, TypeOK
  <2>2. TypeOK'
    BY <1>2 DEF RequestResolves, RequestGivenUp, SenderInv, TypeOK, linkVars, remoteVars
  <2>3. NoSenderLost' /\ HeldWereMade'
    BY <2>1 DEF SenderInv, NoSenderLost, HeldWereMade, Held, InChannel
  <2> QED
    BY <2>2, <2>3 DEF SenderInv
<1>3. ASSUME NextPeerAddr PROVE SenderInv'
  <2>1. CASE registry = "dropped"
    BY <1>3, <2>1, EndCancelsAll DEF NextPeerAddr, Over
  <2>2. CASE registry # "dropped"
    <3>1. UNCHANGED <<registry, find_peer_request, requests, slot, linkVars, callerVars, remoteVars>>
          /\ handler' = "ConnectToPeer"
      BY <1>3, <2>2 DEF NextPeerAddr
    <3> QED
      BY <3>1 DEF SenderInv, TypeOK, NoSenderLost, HeldWereMade, Held, InChannel, linkVars,
                  callerVars, remoteVars
  <2> QED
    BY <2>1, <2>2
<1>4. ASSUME NoticesDrop \/ HelloPanics PROVE SenderInv'
  BY <1>4, EndCancelsAll DEF NoticesDrop, HelloPanics, Over
<1>5. ASSUME Connected \/ ConnectError \/ DropRegistry \/ UNCHANGED vars PROVE SenderInv'
  <2>1. UNCHANGED <<find_peer_request, requests, slot, callerVars>> /\ TypeOK'
    BY <1>5 DEF Connected, ConnectError, DropRegistry, vars, linkVars, callerVars, remoteVars,
                SenderInv, TypeOK
  <2> QED
    BY <2>1 DEF SenderInv, NoSenderLost, HeldWereMade, Held, InChannel, callerVars
<1>6. ASSUME StreamEnds PROVE SenderInv'
  <2>1. /\ ConnectionOver({})
        /\ UNCHANGED <<registry, find_peer_request, callerVars, connected_peers, observed>>
    BY <1>6 DEF StreamEnds, remoteVars
  <2> QED
    BY <2>1, OverCancelsPending DEF SenderInv, TypeOK, NoSenderLost, InChannel
<1>7. ASSUME PollFindPeerRequest PROVE SenderInv'
  <2> DEFINE r == Head(find_peer_request)
             p == target[r]
  <2>1. /\ find_peer_request # <<>> /\ find_peer_request' = Tail(find_peer_request)
        /\ UNCHANGED <<registry, callerVars, connected_peers>>
        /\ find_peer_request \in Seq(Requests)
        /\ \A i, j \in DOMAIN find_peer_request : find_peer_request[i] = find_peer_request[j] => i = j
    BY <1>7 DEF PollFindPeerRequest, SenderInv, TypeOK, NoSenderLost
  <2>2. r \in Requests /\ InChannel(r) /\ find_peer_request' \in Seq(Requests)
    BY <2>1, TailElements DEF InChannel
  <2>3. /\ \A i, j \in DOMAIN find_peer_request' :
               find_peer_request'[i] = find_peer_request'[j] => i = j
        /\ \A q \in Requests : InChannel(q)' <=> InChannel(q) /\ q # r
    BY <2>1, TailOfQueue DEF InChannel
  <2>4. p \in Peers /\ caller[r] # "idle" /\ \A q \in Peers : r \notin requests[q]
    BY <2>2 DEF SenderInv, HeldWereMade, Held, NoSenderLost
  <2>5. target' = target /\ caller' = caller
    BY <2>1 DEF callerVars
  <2> HIDE DEF r, p
  <2>6. CASE IsCanceled(r) /\ UNCHANGED <<handler, requests, slot, linkVars, observed>>
    <3>1. TypeOK'
      BY <2>1, <2>2, <2>6 DEF SenderInv, TypeOK, linkVars, callerVars
    <3>2. NoSenderLost' /\ HeldWereMade'
      BY <2>3, <2>5, <2>6 DEF SenderInv, NoSenderLost, HeldWereMade, Held, IsCanceled
    <3> QED
      BY <3>1, <3>2 DEF SenderInv
  <2>7. CASE Send({r}, "FoundWithHandle") /\ UNCHANGED <<handler, requests, linkVars, observed>>
    <3>1. TypeOK'
      BY <2>1, <2>2, <2>7 DEF SenderInv, TypeOK, linkVars, callerVars, Send
    <3>2. \A q \in Requests : slot'[q] = IF q = r THEN "FoundWithHandle" ELSE slot[q]
      BY <2>7 DEF Send
    <3>3. NoSenderLost' /\ HeldWereMade'
      BY <2>3, <2>5, <2>7, <3>2 DEF SenderInv, NoSenderLost, HeldWereMade, Held
    <3> QED
      BY <3>1, <3>3 DEF SenderInv
  <2>8. ASSUME requests' = [requests EXCEPT ![p] = @ \cup {r}], UNCHANGED slot, TypeOK'
        PROVE  SenderInv'
    <3>1. \A q \in Peers : requests'[q] = IF q = p THEN requests[q] \cup {r} ELSE requests[q]
      BY <2>4, <2>8 DEF SenderInv, TypeOK
    <3>2. p = target[r]
      BY DEF p
    <3>3. ASSUME NEW q \in Requests, NEW a \in Peers, q \in requests'[a]
          PROVE  a = target[q] /\ ~InChannel(q)'
      <4>1. CASE q \in requests[a]
        BY <2>3, <4>1 DEF SenderInv, NoSenderLost
      <4>2. CASE q = r /\ a = p
        BY <2>3, <3>2, <4>2
      <4> QED
        BY <3>1, <3>3, <4>1, <4>2
    <3>4. ASSUME NEW q \in Requests, caller[q] = "waiting", slot[q] = "empty"
          PROVE  InChannel(q)' \/ q \in requests'[target[q]]
      <4>1. target[q] \in Peers
        BY <3>4 DEF SenderInv, HeldWereMade
      <4>2. CASE q = r
        BY <2>4, <3>1, <3>2, <4>2
      <4>3. CASE q # r
        BY <2>3, <3>1, <3>4, <4>1, <4>3 DEF SenderInv, NoSenderLost
      <4> QED
        BY <4>2, <4>3
    <3>5. NoSenderLost'
      BY <2>3, <2>5, <2>8, <3>3, <3>4 DEF NoSenderLost
    <3>6. \A q \in Requests : Held(q)' => Held(q)
      BY <2>2, <2>3, <3>1 DEF Held
    <3>7. HeldWereMade'
      BY <2>5, <3>6 DEF SenderInv, HeldWereMade
    <3> QED
      BY <2>8, <3>5, <3>7 DEF SenderInv
  <2>9. CASE requests' = [requests EXCEPT ![p] = @ \cup {r}]
             /\ UNCHANGED <<handler, slot, linkVars, observed>>
    <3>1. TypeOK'
      BY <2>1, <2>2, <2>4, <2>9 DEF SenderInv, TypeOK, linkVars, callerVars
    <3> QED
      BY <2>8, <2>9, <3>1
  <2>10. CASE /\ requests[p] = {} /\ requests' = [requests EXCEPT ![p] = {r}] /\ SendFind(p)
              /\ observed' = [observed EXCEPT ![p] = {Lookup(p)}]
              /\ UNCHANGED <<handler, slot, link, toLocal>>
    <3>1. toRemote' \in Seq([type : {"Find"}, peer : Peers]) /\ unsent' \in SUBSET Peers
      <4>1. Find(p) \in [type : {"Find"}, peer : Peers]
        BY <2>4 DEF Find
      <4>2. Append(toRemote, Find(p)) \in Seq([type : {"Find"}, peer : Peers])
        BY <4>1, AppendElements DEF SenderInv, TypeOK
      <4> QED
        BY <2>4, <2>10, <4>2 DEF SendFind, SenderInv, TypeOK
    <3>2. TypeOK'
      BY <2>1, <2>2, <2>4, <2>10, <3>1 DEF SenderInv, TypeOK, callerVars, Lookup
    <3>3. requests' = [requests EXCEPT ![p] = @ \cup {r}]
      BY <2>4, <2>10 DEF SenderInv, TypeOK
    <3> QED
      BY <2>8, <2>10, <3>2, <3>3
  <2>11. CASE ConnectionOver({r}) /\ UNCHANGED observed
    BY <2>1, <2>2, <2>3, <2>11, OverCancelsPending
  <2> QED
    BY <1>7, <2>6, <2>7, <2>9, <2>10, <2>11 DEF PollFindPeerRequest, r, p
<1>8. ASSUME PollAnswer PROVE SenderInv'
  <2> DEFINE msg == Head(toLocal)
  <2>1. /\ toLocal # <<>> /\ toLocal \in Seq([type : {"Found", "NotFound"}, peer : Peers])
        /\ toLocal' = Tail(toLocal)
        /\ UNCHANGED <<registry, handler, find_peer_request, callerVars, link, toRemote, remoteVars, unsent>>
    BY <1>8 DEF PollAnswer, SenderInv, TypeOK
  <2>2. msg.peer \in Peers /\ toLocal' \in Seq([type : {"Found", "NotFound"}, peer : Peers])
    <3>1. msg \in [type : {"Found", "NotFound"}, peer : Peers]
      BY <2>1, TailElements
    <3> QED
      BY <2>1, <3>1, TailElements
  <2>3. PICK value \in {"FoundRemote", "NotFound"} : Send(requests[msg.peer], value)
    BY <1>8 DEF PollAnswer
  <2>4. requests' = [requests EXCEPT ![msg.peer] = {}]
    BY <1>8 DEF PollAnswer
  <2> HIDE DEF msg
  <2>5. /\ \A q \in Peers : requests'[q] = IF q = msg.peer THEN {} ELSE requests[q]
        /\ \A q \in Requests : slot'[q] = IF q \in requests[msg.peer] THEN value ELSE slot[q]
    BY <2>2, <2>3, <2>4 DEF Send, SenderInv, TypeOK
  <2>6. TypeOK'
    BY <2>1, <2>2, <2>3, <2>4 DEF SenderInv, TypeOK, Send, callerVars, remoteVars
  <2>7. target' = target /\ caller' = caller /\ find_peer_request' = find_peer_request
    BY <2>1 DEF callerVars
  <2>8. NoSenderLost' /\ HeldWereMade'
    BY <2>2, <2>5, <2>7 DEF SenderInv, TypeOK, NoSenderLost, HeldWereMade, Held, InChannel
  <2> QED
    BY <2>6, <2>8 DEF SenderInv
<1>9. ASSUME \/ RemoteAnswers \/ RemoteCloses \/ LinkLost
             \/ \E p \in Peers \ {Remote} : RemoteRegistryChanges(p)
      PROVE  SenderInv'
  <2>1. UNCHANGED <<registry, handler, find_peer_request, requests, target, caller, slot>>
    BY <1>9 DEF RemoteAnswers, RemoteCloses, LinkLost, RemoteRegistryChanges, callerVars, linkVars
  <2>2. /\ link' \in {"none", "up", "eof", "lost"}
        /\ connected_peers' \in SUBSET Peers
        /\ observed' \in [Peers -> SUBSET {"Found", "NotFound"}]
    <3>1. CASE RemoteAnswers \/ RemoteCloses \/ LinkLost
      BY <3>1 DEF RemoteAnswers, RemoteCloses, LinkLost, remoteVars, SenderInv, TypeOK
    <3>2. ASSUME NEW p \in Peers, RemoteRegistryChanges(p)
          PROVE  /\ link' = link
                 /\ connected_peers' \in SUBSET Peers
                 /\ observed' \in [Peers -> SUBSET {"Found", "NotFound"}]
      <4>1. /\ connected_peers \in SUBSET Peers
            /\ observed \in [Peers -> SUBSET {"Found", "NotFound"}]
        BY DEF SenderInv, TypeOK
      <4>2. PICK answer \in {"Found", "NotFound"} : observed' = [observed EXCEPT ![p] = @ \cup {answer}]
        BY <3>2 DEF RemoteRegistryChanges
      <4>3. connected_peers' = connected_peers \ {p} \/ connected_peers' = connected_peers \cup {p}
        BY <3>2 DEF RemoteRegistryChanges
      <4>4. link' = link
        BY <3>2 DEF RemoteRegistryChanges, linkVars
      <4>5. observed' \in [Peers -> SUBSET {"Found", "NotFound"}]
        BY <4>1, <4>2
      <4> QED
        BY <4>1, <4>3, <4>4, <4>5
    <3> QED
      BY <1>9, <3>1, <3>2 DEF SenderInv, TypeOK
  <2>3. /\ toRemote' \in Seq([type : {"Find"}, peer : Peers])
        /\ toLocal' \in Seq([type : {"Found", "NotFound"}, peer : Peers])
        /\ unsent' \in SUBSET Peers
    <3>1. CASE RemoteAnswers
      <4> DEFINE p == Head(toRemote).peer
      <4>1. /\ toRemote # <<>> /\ toRemote \in Seq([type : {"Find"}, peer : Peers])
            /\ toRemote' = Tail(toRemote)
        BY <3>1 DEF RemoteAnswers, SenderInv, TypeOK
      <4>2. Head(toRemote) \in [type : {"Find"}, peer : Peers]
            /\ toRemote' \in Seq([type : {"Find"}, peer : Peers])
        BY <4>1, TailElements
      <4>3. /\ toLocal \in Seq([type : {"Found", "NotFound"}, peer : Peers])
            /\ unsent \in SUBSET Peers /\ SendAnswer(p)
        BY <3>1 DEF RemoteAnswers, SenderInv, TypeOK
      <4>4. Answer(p, Lookup(p)) \in [type : {"Found", "NotFound"}, peer : Peers]
        BY <4>2 DEF Answer, Lookup
      <4>5. p \in Peers
        BY <4>2
      <4> HIDE DEF p
      <4>6. CASE toLocal' = Append(toLocal, Answer(p, Lookup(p))) /\ UNCHANGED unsent
        BY <4>2, <4>4, <4>6, <4>3, AppendElements
      <4>7. CASE unsent' = unsent \cup {p} /\ UNCHANGED toLocal
        BY <4>2, <4>5, <4>7, <4>3
      <4> QED
        BY <4>6, <4>7, <4>3 DEF SendAnswer
    <3>2. CASE RemoteCloses \/ LinkLost
      <4>1. /\ toRemote' = <<>>
            /\ toLocal' = toLocal \/ toLocal' = <<>>
            /\ unsent' = unsent
        BY <3>2 DEF RemoteCloses, LinkLost
      <4>2. \A S : <<>> \in Seq(S)
        OBVIOUS
      <4> QED
        BY <4>1, <4>2 DEF SenderInv, TypeOK
    <3>3. CASE \E p \in Peers \ {Remote} : RemoteRegistryChanges(p)
      BY <3>3 DEF RemoteRegistryChanges, linkVars, SenderInv, TypeOK
    <3> QED
      BY <1>9, <3>1, <3>2, <3>3
  <2>4. TypeOK'
    BY <2>1, <2>2, <2>3 DEF SenderInv, TypeOK
  <2>5. NoSenderLost' /\ HeldWereMade'
    BY <2>1 DEF SenderInv, NoSenderLost, HeldWereMade, Held, InChannel
  <2> QED
    BY <2>4, <2>5 DEF SenderInv
<1> QED
  BY <1>1, <1>2, <1>3, <1>4, <1>5, <1>6, <1>7, <1>8, <1>9 DEF Next

-----------------------------------------------------------------------------
(* Messages on the stream *)

\* Without a connection nothing is under way and nobody waits for an answer. An
\* answer, and a Find or answer that was refused, is one that somebody waits for.
StreamInv ==
    /\ handler # "HandleConnection" =>
           toRemote = <<>> /\ toLocal = <<>> /\ unsent = {} /\ \A p \in Peers : requests[p] = {}
    /\ link # "up" => toRemote = <<>>
    /\ \A p \in Peers : Answered(p) \/ p \in unsent => requests[p] # {}
    /\ \A p \in Peers : ~(Answered(p) /\ p \in unsent)
    /\ \A i, j \in DOMAIN toLocal : toLocal[i].peer = toLocal[j].peer => i = j

\* The answers under way were true since the Find was written, and what the
\* remote peer would answer now counts as true for those that wait.
TruthInv ==
    /\ \A i \in DOMAIN toLocal : toLocal[i].type \in observed[toLocal[i].peer]
    /\ \A p \in Peers : requests[p] # {} => Lookup(p) \in observed[p]

MessageInv == AskedExactlyOnce /\ StreamInv /\ TruthInv

\* A connection that is gone leaves nothing behind.
LEMMA NothingUnderWay ==
    ASSUME requests' = NoRequests, toRemote' = <<>>, toLocal' = <<>>, unsent' = {}
    PROVE  MessageInv'
<1>1. \A p \in Peers : requests'[p] = {} /\ ~Asked(p)' /\ ~Answered(p)'
  BY DEF NoRequests, Asked, Answered
<1> QED
  BY <1>1 DEF MessageInv, AskedExactlyOnce, StreamInv, TruthInv

\* Steps of the callers and of the handler that do not touch the stream.
LEMMA StreamUntouched ==
    ASSUME MessageInv,
           UNCHANGED <<requests, toRemote, toLocal, unsent, connected_peers, observed>>,
           \/ handler' = handler /\ link' = link
           \/ handler # "HandleConnection"
    PROVE  MessageInv'
<1>1. AskedExactlyOnce'
  <2>1. \A p \in Peers : (Asked(p)' <=> Asked(p)) /\ (Answered(p)' <=> Answered(p))
    BY DEF Asked, Answered
  <2>2. CASE handler # "HandleConnection"
    <3>1. toRemote = <<>> /\ toLocal = <<>> /\ unsent = {} /\ \A p \in Peers : requests[p] = {}
      BY <2>2 DEF MessageInv, StreamInv
    <3> QED
      BY <3>1 DEF AskedExactlyOnce, Asked, Answered
  <2>3. CASE link' = link
    BY <2>1, <2>3 DEF MessageInv, AskedExactlyOnce
  <2> QED
    BY <2>2, <2>3
<1>2. StreamInv'
  BY DEF MessageInv, StreamInv, Answered
<1>3. TruthInv'
  BY DEF MessageInv, TruthInv, Lookup
<1> QED
  BY <1>1, <1>2, <1>3 DEF MessageInv

\* Every step keeps what is under way in agreement with the requests, and true.
LEMMA MessageStep == SenderInv /\ MessageInv /\ [Next]_vars => MessageInv'
<1> SUFFICES ASSUME SenderInv, MessageInv, [Next]_vars PROVE MessageInv'
  OBVIOUS
<1> DEFINE Finds == [type : {"Find"}, peer : Peers]
           Answers == [type : {"Found", "NotFound"}, peer : Peers]
<1>0. /\ toRemote \in Seq(Finds) /\ toLocal \in Seq(Answers) /\ unsent \in SUBSET Peers
      /\ requests \in [Peers -> SUBSET Requests]
      /\ observed \in [Peers -> SUBSET {"Found", "NotFound"}]
  BY DEF SenderInv, TypeOK
<1>1. ASSUME NEW r \in Requests,
             (\E p \in Peers : FindPeer(r, p)) \/ RequestResolves(r) \/ RequestGivenUp(r)
      PROVE  MessageInv'
  BY <1>1, StreamUntouched DEF FindPeer, RequestResolves, RequestGivenUp, linkVars, remoteVars
<1>2. ASSUME DropRegistry \/ ConnectError \/ Connected \/ UNCHANGED vars PROVE MessageInv'
  BY <1>2, StreamUntouched DEF DropRegistry, ConnectError, Connected, vars, linkVars, remoteVars
<1>3. ASSUME NextPeerAddr PROVE MessageInv'
  <2>1. CASE registry = "dropped"
    BY <1>3, <2>1, NothingUnderWay DEF NextPeerAddr, HandlerEnds
  <2>2. CASE registry # "dropped"
    BY <1>3, <2>2, StreamUntouched DEF NextPeerAddr, linkVars, remoteVars
  <2> QED
    BY <2>1, <2>2
<1>4. ASSUME NoticesDrop \/ HelloPanics \/ StreamEnds PROVE MessageInv'
  BY <1>4, NothingUnderWay DEF NoticesDrop, HelloPanics, StreamEnds, HandlerEnds, ConnectionOver
<1>5. ASSUME RemoteCloses \/ LinkLost PROVE MessageInv'
  <2>1. /\ link' # "up" /\ toRemote' = <<>> /\ toLocal' \in {toLocal, <<>>}
        /\ UNCHANGED <<handler, requests, unsent, connected_peers, observed>>
    BY <1>5 DEF RemoteCloses, LinkLost, remoteVars
  <2> QED
    BY <2>1 DEF MessageInv, AskedExactlyOnce, StreamInv, TruthInv, Answered, Lookup
<1>6. ASSUME NEW p \in Peers, RemoteRegistryChanges(p) PROVE MessageInv'
  <2>1. UNCHANGED <<handler, requests, link, toRemote, toLocal, unsent>>
    BY <1>6 DEF RemoteRegistryChanges, linkVars
  <2>2. /\ observed' = [observed EXCEPT ![p] = @ \cup {Lookup(p)'}]
        /\ \A q \in Peers : q # p => Lookup(q)' = Lookup(q)
    BY <1>6 DEF RemoteRegistryChanges, Lookup
  <2>3. AskedExactlyOnce' /\ StreamInv'
    BY <2>1 DEF MessageInv, AskedExactlyOnce, StreamInv, Asked, Answered
  <2>4. \A q \in Peers : observed'[q] = IF q = p THEN observed[q] \cup {Lookup(p)'} ELSE observed[q]
    BY <1>0, <2>2
  <2>5. \A i \in DOMAIN toLocal : toLocal[i].peer \in Peers
    <3>1. \A i \in DOMAIN toLocal : toLocal[i] \in Answers
      <4> HIDE DEF Answers
      <4> QED
        BY <1>0
    <3> QED
      BY <3>1
  <2>6. TruthInv'
    BY <2>1, <2>2, <2>4, <2>5 DEF MessageInv, TruthInv
  <2> QED
    BY <2>3, <2>6 DEF MessageInv
<1>7. ASSUME PollAnswer PROVE MessageInv'
  <2> DEFINE p == Head(toLocal).peer
  <2>1. /\ handler = "HandleConnection" /\ toLocal # <<>> /\ toLocal' = Tail(toLocal)
        /\ requests' = [requests EXCEPT ![p] = {}]
        /\ UNCHANGED <<handler, link, toRemote, unsent, connected_peers, observed>>
    BY <1>7 DEF PollAnswer, remoteVars
  <2>2. \A i, j \in DOMAIN toLocal : toLocal[i].peer = toLocal[j].peer => i = j
    BY DEF MessageInv, StreamInv
  <2>3. /\ \A i, j \in DOMAIN toLocal' : toLocal'[i].peer = toLocal'[j].peer => i = j
        /\ \A q : Answered(q)' <=> Answered(q) /\ q # p
    <3> HIDE DEF Answers
    <3>1. /\ \A i, j \in DOMAIN Tail(toLocal) : Tail(toLocal)[i].peer = Tail(toLocal)[j].peer => i = j
          /\ \A q : (\E i \in DOMAIN Tail(toLocal) : Tail(toLocal)[i].peer = q)
                       <=> (\E i \in DOMAIN toLocal : toLocal[i].peer = q) /\ q # p
      BY <1>0, <2>1, <2>2, TailOfMessages
    <3> QED
      BY <2>1, <3>1 DEF Answered
  <2>4. Answered(p)
    <3> HIDE DEF Answers
    <3> QED
      BY <1>0, <2>1, TailElements DEF Answered
  <2>5. p \in Peers
    <3>1. Head(toLocal) \in Answers
      <4> HIDE DEF Answers
      <4> QED
        BY <1>0, <2>1, TailElements
    <3> QED
      BY <3>1
  <2>6. \A i \in DOMAIN toLocal' : i + 1 \in DOMAIN toLocal /\ toLocal'[i] = toLocal[i + 1]
    <3> HIDE DEF Answers
    <3> QED
      BY <1>0, <2>1, TailElements
  <2> HIDE DEF p
  <2>7. \A q \in Peers : requests'[q] = IF q = p THEN {} ELSE requests[q]
    BY <1>0, <2>1, <2>5
  <2>8. \A q \in Peers : Asked(q)' <=> Asked(q)
    BY <2>1 DEF Asked
  <2>9. AskedExactlyOnce'
    BY <2>1, <2>3, <2>4, <2>5, <2>7, <2>8 DEF MessageInv, AskedExactlyOnce
  <2>10. StreamInv'
    <3>1. p \notin unsent
      BY <2>4, <2>5 DEF MessageInv, StreamInv
    <3> QED
      BY <2>1, <2>3, <2>7, <3>1 DEF MessageInv, StreamInv
  <2>11. TruthInv'
    BY <2>1, <2>6, <2>7 DEF MessageInv, TruthInv, Lookup
  <2> QED
    BY <2>9, <2>10, <2>11 DEF MessageInv
<1>8. ASSUME RemoteAnswers PROVE MessageInv'
  <2> DEFINE p == Head(toRemote).peer
             m == Answer(p, Lookup(p))
  <2>1. /\ link = "up" /\ toRemote # <<>> /\ toRemote' = Tail(toRemote) /\ SendAnswer(p)
        /\ UNCHANGED <<handler, link, requests, connected_peers, observed>>
    BY <1>8 DEF RemoteAnswers, remoteVars
  <2>2. /\ \A i, j \in DOMAIN toLocal : toLocal[i].peer = toLocal[j].peer => i = j
        /\ \A i, j \in DOMAIN toRemote : toRemote[i].peer = toRemote[j].peer => i = j
    BY <2>1 DEF MessageInv, AskedExactlyOnce
  <2>3. Head(toRemote) \in Finds /\ Asked(p)
    <3> HIDE DEF Finds
    <3> QED
      BY <1>0, <2>1, TailElements DEF Asked
  <2>4. p \in Peers /\ m \in Answers /\ m.peer = p /\ m.type = Lookup(p)
    BY <2>3 DEF Answer, Lookup
  <2>5. \A q : Asked(q)' <=> Asked(q) /\ q # p
    <3> HIDE DEF Finds
    <3>1. \A q : (\E i \in DOMAIN Tail(toRemote) : Tail(toRemote)[i].peer = q)
                    <=> (\E i \in DOMAIN toRemote : toRemote[i].peer = q) /\ q # p
      BY <1>0, <2>1, <2>2, TailOfMessages
    <3> QED
      BY <2>1, <3>1 DEF Asked
  <2>6. \A i, j \in DOMAIN toRemote' : toRemote'[i].peer = toRemote'[j].peer => i = j
    <3> HIDE DEF Finds
    <3> QED
      BY <1>0, <2>1, <2>2, TailOfMessages
  <2>7. ~Answered(p) /\ requests[p] # {} /\ p \notin unsent
    BY <2>1, <2>3, <2>4 DEF MessageInv, AskedExactlyOnce
  <2> HIDE DEF p, m
  <2>8. handler = "HandleConnection"
    BY <2>1 DEF MessageInv, StreamInv
  <2>9. CASE toLocal' = Append(toLocal, m) /\ UNCHANGED unsent
    <3>1. /\ \A i, j \in DOMAIN toLocal' : toLocal'[i].peer = toLocal'[j].peer => i = j
          /\ \A q : Answered(q)' <=> Answered(q) \/ q = p
      <4> HIDE DEF Answers
      <4>0. \A i \in DOMAIN toLocal : toLocal[i].peer # m.peer
        BY <2>4, <2>7 DEF Answered
      <4>1. /\ \A i, j \in DOMAIN Append(toLocal, m) :
                   Append(toLocal, m)[i].peer = Append(toLocal, m)[j].peer => i = j
            /\ \A q : (\E i \in DOMAIN Append(toLocal, m) : Append(toLocal, m)[i].peer = q)
                         <=> (\E i \in DOMAIN toLocal : toLocal[i].peer = q) \/ q = m.peer
        <5>1. toLocal \in Seq(Answers) /\ m \in Answers
          BY <1>0, <2>4
        <5>2. \A i, j \in DOMAIN toLocal : toLocal[i].peer = toLocal[j].peer => i = j
          BY <2>2
        <5> QED
          BY <4>0, <5>1, <5>2, AppendToMessages
      <4> QED
        BY <2>4, <2>9, <4>1 DEF Answered
    <3>2. \A i \in DOMAIN toLocal' : toLocal'[i] = m \/ (i \in DOMAIN toLocal /\ toLocal'[i] = toLocal[i])
      <4> HIDE DEF Answers
      <4> QED
        BY <1>0, <2>4, <2>9, AppendElements
    <3>3. AskedExactlyOnce'
      BY <2>1, <2>3, <2>4, <2>5, <2>6, <2>7, <2>9, <3>1 DEF MessageInv, AskedExactlyOnce
    <3>4. StreamInv'
      BY <2>1, <2>4, <2>7, <2>8, <2>9, <3>1 DEF MessageInv, StreamInv
    <3>5. TruthInv'
      <4>1. UNCHANGED <<requests, observed, connected_peers>>
        BY <2>1
      <4>2. \A q \in Peers : requests'[q] # {} => Lookup(q)' \in observed'[q]
        BY <4>1 DEF MessageInv, TruthInv, Lookup
      <4>3. m.type \in observed'[m.peer]
        BY <2>4, <2>7, <4>1 DEF MessageInv, TruthInv
      <4>4. \A i \in DOMAIN toLocal' : toLocal'[i].type \in observed'[toLocal'[i].peer]
        BY <3>2, <4>1, <4>3 DEF MessageInv, TruthInv
      <4> QED
        BY <4>2, <4>4 DEF TruthInv
    <3> QED
      BY <3>3, <3>4, <3>5 DEF MessageInv
  <2>10. CASE unsent' = unsent \cup {p} /\ UNCHANGED toLocal
    <3>1. \A q : Answered(q)' <=> Answered(q)
      BY <2>10 DEF Answered
    <3>2. AskedExactlyOnce'
      BY <2>1, <2>2, <2>4, <2>5, <2>6, <2>7, <2>10, <3>1 DEF MessageInv, AskedExactlyOnce
    <3>3. StreamInv'
      BY <2>1, <2>4, <2>7, <2>8, <2>10, <3>1 DEF MessageInv, StreamInv
    <3>4. TruthInv'
      BY <2>1, <2>10 DEF MessageInv, TruthInv, Lookup
    <3> QED
      BY <3>2, <3>3, <3>4 DEF MessageInv
  <2> QED
    BY <2>1, <2>9, <2>10 DEF SendAnswer, m
<1>9. ASSUME PollFindPeerRequest PROVE MessageInv'
  <2> DEFINE r == Head(find_peer_request)
             p == target[r]
  <2>1. handler = "HandleConnection" /\ connected_peers' = connected_peers
    BY <1>9 DEF PollFindPeerRequest
  <2>2. r \in Requests
    BY <1>9, TailElements DEF PollFindPeerRequest, SenderInv, TypeOK
  <2>3. caller[r] = "waiting" => p \in Peers
    BY <2>2 DEF SenderInv, HeldWereMade
  <2> HIDE DEF r, p
  <2>4. CASE UNCHANGED <<handler, requests, linkVars, observed>>
    BY <2>1, <2>4 DEF MessageInv, AskedExactlyOnce, StreamInv, TruthInv, Asked, Answered, Lookup, linkVars
  <2>5. CASE /\ ~IsCanceled(r) /\ requests[p] # {}
             /\ requests' = [requests EXCEPT ![p] = @ \cup {r}]
             /\ UNCHANGED <<handler, linkVars, observed>>
    <3>1. \A q \in Peers : requests'[q] = {} <=> requests[q] = {}
      BY <1>0, <2>3, <2>5 DEF IsCanceled
    <3>2. /\ UNCHANGED <<handler, link, toRemote, toLocal, unsent, observed, connected_peers>>
          /\ \A q : (Asked(q)' <=> Asked(q)) /\ (Answered(q)' <=> Answered(q))
      BY <2>1, <2>5 DEF linkVars, Asked, Answered
    <3>3. AskedExactlyOnce'
      BY <3>1, <3>2 DEF MessageInv, AskedExactlyOnce
    <3>4. StreamInv'
      BY <3>1, <3>2 DEF MessageInv, StreamInv
    <3>5. TruthInv'
      BY <3>1, <3>2 DEF MessageInv, TruthInv, Lookup
    <3> QED
      BY <3>3, <3>4, <3>5 DEF MessageInv
  <2>6. CASE /\ ~IsCanceled(r) /\ requests[p] = {}
             /\ requests' = [requests EXCEPT ![p] = {r}]
             /\ SendFind(p)
             /\ observed' = [observed EXCEPT ![p] = {Lookup(p)}]
             /\ UNCHANGED <<handler, link, toLocal>>
    <3>1. p \in Peers
      BY <2>3, <2>6 DEF IsCanceled
    <3>2. /\ \A q \in Peers : requests'[q] = IF q = p THEN {r} ELSE requests[q]
          /\ \A q \in Peers : observed'[q] = IF q = p THEN {Lookup(p)} ELSE observed[q]
          /\ \A q \in Peers : Lookup(q)' = Lookup(q)
      BY <1>0, <2>1, <2>6, <3>1 DEF Lookup
    <3>3. ~Answered(p) /\ p \notin unsent /\ (link = "up" => ~Asked(p))
      BY <2>6, <3>1 DEF MessageInv, StreamInv, AskedExactlyOnce
    <3>4. \A q : Answered(q)' <=> Answered(q)
      BY <2>6 DEF Answered
    <3>5. \A i \in DOMAIN toLocal : toLocal[i].peer \in Peers /\ toLocal[i].peer # p
      <4>1. \A i \in DOMAIN toLocal : toLocal[i] \in Answers
        <5> HIDE DEF Answers
        <5> QED
          BY <1>0
      <4> QED
        BY <3>3, <4>1 DEF Answered
    <3>6. TruthInv'
      BY <2>6, <3>2, <3>5 DEF MessageInv, TruthInv
    <3>7. CASE link # "up"
      <4>1. UNCHANGED <<toRemote, unsent>>
        BY <2>6, <3>7 DEF SendFind
      <4>2. AskedExactlyOnce' /\ StreamInv'
        BY <2>1, <2>6, <3>2, <3>3, <3>4, <3>7, <4>1 DEF MessageInv, StreamInv, AskedExactlyOnce
      <4> QED
        BY <3>6, <4>2 DEF MessageInv
    <3>8. CASE link = "up" /\ unsent' = unsent \cup {p} /\ UNCHANGED toRemote
      <4>1. \A q : Asked(q)' <=> Asked(q)
        BY <3>8 DEF Asked
      <4>2. AskedExactlyOnce'
        BY <2>6, <3>1, <3>2, <3>3, <3>4, <3>8, <4>1 DEF MessageInv, AskedExactlyOnce
      <4>3. StreamInv'
        BY <2>1, <2>6, <3>2, <3>3, <3>4, <3>8 DEF MessageInv, StreamInv
      <4> QED
        BY <3>6, <4>2, <4>3 DEF MessageInv
    <3>9. CASE link = "up" /\ toRemote' = Append(toRemote, Find(p)) /\ UNCHANGED unsent
      <4> DEFINE m == Find(p)
      <4>1. m \in Finds /\ m.peer = p
        BY <3>1 DEF Find
      <4>2. \A i, j \in DOMAIN toRemote : toRemote[i].peer = toRemote[j].peer => i = j
        BY <3>9 DEF MessageInv, AskedExactlyOnce
      <4> HIDE DEF m
      <4>3. /\ \A i, j \in DOMAIN toRemote' : toRemote'[i].peer = toRemote'[j].peer => i = j
            /\ \A q : Asked(q)' <=> Asked(q) \/ q = p
        <5> HIDE DEF Finds
        <5>0. \A i \in DOMAIN toRemote : toRemote[i].peer # m.peer
          BY <3>3, <3>9, <4>1 DEF Asked
        <5>1. /\ \A i, j \in DOMAIN Append(toRemote, m) :
                     Append(toRemote, m)[i].peer = Append(toRemote, m)[j].peer => i = j
              /\ \A q : (\E i \in DOMAIN Append(toRemote, m) : Append(toRemote, m)[i].peer = q)
                           <=> (\E i \in DOMAIN toRemote : toRemote[i].peer = q) \/ q = m.peer
          <6>1. toRemote \in Seq(Finds)
            BY <1>0
          <6> QED
            BY <4>1, <4>2, <5>0, <6>1, AppendToMessages, ZenonT(20)
        <5> QED
          BY <3>9, <4>1, <5>1 DEF Asked, m
      <4>4. AskedExactlyOnce'
        <5>1. ASSUME NEW q \in Peers
              PROVE  /\ Asked(q)' \/ Answered(q)' <=> requests'[q] # {} /\ q \notin unsent'
                     /\ ~(Asked(q)' /\ Answered(q)')
                     /\ q \in unsent' => requests'[q] # {}
          <6>1. CASE q = p
            BY <3>1, <3>2, <3>3, <3>4, <3>9, <4>3, <6>1
          <6>2. CASE q # p
            BY <3>2, <3>4, <3>9, <4>3, <6>2 DEF MessageInv, AskedExactlyOnce
          <6> QED
            BY <6>1, <6>2
        <5>2. \A i, j \in DOMAIN toLocal : toLocal[i].peer = toLocal[j].peer => i = j
          BY DEF MessageInv, StreamInv
        <5> QED
          BY <2>6, <4>3, <5>1, <5>2 DEF AskedExactlyOnce
      <4>5. StreamInv'
        BY <2>1, <2>6, <3>2, <3>3, <3>4, <3>9 DEF MessageInv, StreamInv
      <4> QED
        BY <3>6, <4>4, <4>5 DEF MessageInv
    <3> QED
      BY <2>6, <3>7, <3>8, <3>9 DEF SendFind
  <2>7. CASE ConnectionOver({r}) /\ UNCHANGED observed
    BY <2>1, <2>7, NothingUnderWay DEF ConnectionOver
  <2> QED
    BY <1>9, <2>4, <2>5, <2>6, <2>7 DEF PollFindPeerRequest, r, p
<1> QED
  BY <1>1, <1>2, <1>3, <1>4, <1>5, <1>6, <1>7, <1>8, <1>9 DEF Next

-----------------------------------------------------------------------------
(* Theorems *)

\* The two invariants together are inductive.
LEMMA InvariantHolds == Spec => [](SenderInv /\ MessageInv)
<1>1. Init => SenderInv /\ MessageInv
  <2> SUFFICES ASSUME Init PROVE SenderInv /\ MessageInv
    OBVIOUS
  <2>1. \A S : <<>> \in Seq(S)
    OBVIOUS
  <2>2. TypeOK
    BY <2>1, RemoteAssumption DEF Init, TypeOK, NoRequests
  <2>3. NoSenderLost /\ HeldWereMade
    BY DEF Init, NoSenderLost, HeldWereMade, Held, InChannel, NoRequests
  <2>4. \A p \in Peers : requests[p] = {} /\ ~Asked(p) /\ ~Answered(p)
    <3>1. requests = [p \in Peers |-> {}] /\ toRemote = <<>> /\ toLocal = <<>>
      BY DEF Init, NoRequests
    <3>2. DOMAIN toRemote = {} /\ DOMAIN toLocal = {}
      BY <3>1
    <3> QED
      BY <3>1, <3>2 DEF Asked, Answered
  <2>5. MessageInv
    BY <2>4 DEF Init, MessageInv, AskedExactlyOnce, StreamInv, TruthInv
  <2> QED
    BY <2>2, <2>3, <2>5 DEF SenderInv
<1>2. SenderInv /\ MessageInv /\ [Next]_vars => (SenderInv /\ MessageInv)'
  BY SenderStep, MessageStep
<1> QED
  BY <1>1, <1>2, PTL DEF Spec

\* Every variable keeps its type.
THEOREM TypeCorrect == Spec => []TypeOK
<1>1. SenderInv => TypeOK
  BY DEF SenderInv
<1> QED
  BY <1>1, InvariantHolds, PTL

\* NoSenderLost: no reconnect, error or end of the handler leaves a caller of
\* find_peer behind whose sender is nowhere.
THEOREM SendersAreNotLost == Spec => []NoSenderLost
<1>1. SenderInv => NoSenderLost
  BY DEF SenderInv
<1> QED
  BY <1>1, InvariantHolds, PTL

\* AskedExactlyOnce: `requests` of the OutgoingStream and what is under way on
\* the stream never disagree, except for the peers whose Find or answer a full
\* write buffer refused: those have nothing under way and keep their requests.
THEOREM PeersAreAskedOnce == Spec => []AskedExactlyOnce
<1>1. MessageInv => AskedExactlyOnce
  BY DEF MessageInv
<1> QED
  BY <1>1, InvariantHolds, PTL

\* AnswersAreTrue: OutgoingStream::poll tells those who wait only what was so at
\* the remote peer since their Find was written. Only PollAnswer uses a sender
\* with such a value, and every answer on the stream was observed (TruthInv).
THEOREM AnswersAreAlwaysTrue == Spec => AnswersAreTrue
<1> DEFINE A == \A r \in Requests : slot'[r] # slot[r] =>
                   /\ slot'[r] = "FoundRemote" => "Found" \in observed[target[r]]
                   /\ slot'[r] = "NotFound" => "NotFound" \in observed[target[r]]
<1>1. ASSUME SenderInv, MessageInv, Next PROVE A
  <2>1. ASSUME NEW S, Send(S, "canceled") \/ Send(S, "FoundWithHandle") PROVE A
    BY <2>1 DEF Send
  <2>2. ASSUME PollAnswer PROVE A
    <3> DEFINE msg == Head(toLocal)
               Answers == [type : {"Found", "NotFound"}, peer : Peers]
    <3>1. toLocal # <<>> /\ toLocal \in Seq(Answers)
      BY <1>1, <2>2 DEF PollAnswer, SenderInv, TypeOK
    <3>2. msg = toLocal[1] /\ 1 \in DOMAIN toLocal /\ msg \in Answers
      <4> HIDE DEF Answers
      <4> QED
        BY <3>1, TailElements
    <3>3. msg.peer \in Peers /\ msg.type \in {"Found", "NotFound"} /\ msg.type \in observed[msg.peer]
      BY <1>1, <3>2 DEF MessageInv, TruthInv
    <3>4. Send(requests[msg.peer], IF msg.type = "Found" THEN "FoundRemote" ELSE "NotFound")
      BY <2>2 DEF PollAnswer
    <3> HIDE DEF msg
    <3>5. \A r \in Requests : slot'[r] # slot[r] => r \in requests[msg.peer]
      BY <3>4 DEF Send
    <3>6. \A r \in Requests : slot'[r] # slot[r] => target[r] = msg.peer
      BY <1>1, <3>3, <3>5 DEF SenderInv, NoSenderLost
    <3>7. \A r \in Requests : slot'[r] # slot[r] =>
              slot'[r] = IF msg.type = "Found" THEN "FoundRemote" ELSE "NotFound"
      BY <3>4 DEF Send
    <3> QED
      BY <3>3, <3>6, <3>7
  <2>3. ASSUME PollFindPeerRequest PROVE A
    <3>1. \/ UNCHANGED slot
          \/ Send({Head(find_peer_request)}, "FoundWithHandle")
          \/ ConnectionOver({Head(find_peer_request)})
      BY <2>3 DEF PollFindPeerRequest
    <3> QED
      BY <2>1, <3>1 DEF ConnectionOver
  <2>4. ASSUME NextPeerAddr \/ NoticesDrop \/ HelloPanics \/ StreamEnds PROVE A
    BY <2>1, <2>4 DEF NextPeerAddr, NoticesDrop, HelloPanics, StreamEnds, HandlerEnds, ConnectionOver
  <2>5. ASSUME slot' = slot PROVE A
    BY <2>5
  <2> HIDE DEF A
  <2> QED
    BY <1>1, <2>2, <2>3, <2>4, <2>5
       DEF Next, FindPeer, RequestResolves, RequestGivenUp, DropRegistry, Connected, ConnectError,
           RemoteAnswers, RemoteCloses, LinkLost, RemoteRegistryChanges
<1>2. SenderInv /\ MessageInv /\ [Next]_vars => [A]_vars
  BY <1>1
<1> HIDE DEF A
<1>3. Spec => [][A]_vars
  BY <1>2, InvariantHolds, PTL DEF Spec
<1> QED
  BY <1>3 DEF AnswersAreTrue, A
=============================================================================
