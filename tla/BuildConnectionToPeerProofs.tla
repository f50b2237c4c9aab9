-------------------- MODULE BuildConnectionToPeerProofs ---------------------
(***************************************************************************)
(* Proofs about BuildConnectionToPeer, for any number of addresses and any *)
(* data the users write.                                                   *)
(***************************************************************************)
EXTENDS BuildConnectionToPeer, TLAPS

\* Zenon proves most of the steps; the others say which prover does.
USE Zenon

-----------------------------------------------------------------------------
(* Messages on the wires *)

WireType == [Channels -> Seq(Message)]

\* The message ProxyConnection is in s.
HasSwitch(s) == \E i \in DOMAIN s : s[i] = "ProxyConnection"

\* In s, data follows the message ProxyConnection.
DataAfterSwitch(s) ==
    \A i \in DOMAIN s : s[i] \in Data => \E j \in 1 .. i : s[j] = "ProxyConnection"

\* t begins with s.
Begins(t, s) == Len(s) <= Len(t) /\ \A i \in 1 .. Len(s) : t[i] = s[i]

\* What is written after s: the elements of the concatenation, and what that
\* means for the switch to the user's protocol.
LEMMA ConcatMessages ==
    ASSUME NEW s \in Seq(Message), NEW t \in Seq(Message)
    PROVE  /\ s \o t \in Seq(Message)
           /\ Begins(s \o t, s)
           /\ HasSwitch(s \o t) <=> HasSwitch(s) \/ HasSwitch(t)
           /\ DataAfterSwitch(s) /\ (HasSwitch(s) \/ DataAfterSwitch(t)) => DataAfterSwitch(s \o t)
<1> HIDE DEF Message
<1>1. /\ s \o t \in Seq(Message) /\ Len(s) \in Nat /\ Len(t) \in Nat
      /\ DOMAIN s = 1..Len(s) /\ DOMAIN t = 1..Len(t) /\ DOMAIN (s \o t) = 1..(Len(s) + Len(t))
      /\ Len(s \o t) = Len(s) + Len(t)
      /\ \A i \in 1..Len(s) : (s \o t)[i] = s[i]
      /\ \A i \in 1..Len(t) : (s \o t)[Len(s) + i] = t[i]
      /\ \A i \in 1..(Len(s) + Len(t)) : i > Len(s) => i - Len(s) \in 1..Len(t) /\ (s \o t)[i] = t[i - Len(s)]
  BY SMT
<1> DEFINE u == s \o t
<1> HIDE DEF u
<1>2. Begins(u, s)
  BY <1>1, SMT DEF Begins, u
<1>3. HasSwitch(u) => HasSwitch(s) \/ HasSwitch(t)
  BY <1>1, SMT DEF HasSwitch, u
<1>4. HasSwitch(s) => HasSwitch(u)
  BY <1>1, SMT DEF HasSwitch, u
<1>5. HasSwitch(t) => HasSwitch(u)
  <2> SUFFICES ASSUME NEW i \in DOMAIN t, t[i] = "ProxyConnection" PROVE HasSwitch(u)
    BY DEF HasSwitch
  <2>1. Len(s) + i \in DOMAIN u /\ u[Len(s) + i] = "ProxyConnection"
    BY <1>1, SMT DEF u
  <2> QED
    BY <2>1 DEF HasSwitch
<1>6. ASSUME DataAfterSwitch(s), HasSwitch(s) \/ DataAfterSwitch(t),
             NEW i \in DOMAIN u, u[i] \in Data
      PROVE  \E j \in 1 .. i : u[j] = "ProxyConnection"
  <2>1. CASE i <= Len(s)
    BY <1>1, <1>6, <2>1, SMT DEF DataAfterSwitch, u
  <2>2. CASE i > Len(s) /\ HasSwitch(s)
    BY <1>1, <1>6, <2>2, SMT DEF HasSwitch, u
  <2>3. CASE i > Len(s) /\ DataAfterSwitch(t)
    <3>1. PICK j \in 1 .. (i - Len(s)) : t[j] = "ProxyConnection"
      BY <1>1, <1>6, <2>3 DEF DataAfterSwitch, u
    <3>2. Len(s) + j \in 1 .. i /\ u[Len(s) + j] = "ProxyConnection"
      BY <1>1, <1>6, <2>3, <3>1, SMT DEF u
    <3> QED
      BY <3>2
  <2> QED
    BY <1>1, <1>6, <2>1, <2>2, <2>3, SMT DEF u
<1> QED
  BY <1>1, <1>2, <1>3, <1>4, <1>5, <1>6 DEF DataAfterSwitch, u

\* What is left when a message other than ProxyConnection is taken from s.
LEMMA TailMessages ==
    ASSUME NEW s \in Seq(Message), s # <<>>
    PROVE  /\ Tail(s) \in Seq(Message) /\ Head(s) = s[1] /\ Head(s) \in Message /\ 1 \in DOMAIN s
           /\ \A i \in 1 .. (Len(s) - 1) : Tail(s)[i] = s[i + 1]
           /\ Len(Tail(s)) = Len(s) - 1
           /\ HasSwitch(Tail(s)) => HasSwitch(s)
           /\ Head(s) # "ProxyConnection" =>
                  /\ HasSwitch(s) => HasSwitch(Tail(s))
                  /\ DataAfterSwitch(s) => DataAfterSwitch(Tail(s))
<1> HIDE DEF Message
<1>1. /\ Tail(s) \in Seq(Message) /\ Head(s) = s[1] /\ Head(s) \in Message
      /\ Len(s) \in Nat \ {0} /\ DOMAIN s = 1..Len(s) /\ DOMAIN Tail(s) = 1..(Len(s) - 1)
      /\ \A i \in 1..(Len(s) - 1) : Tail(s)[i] = s[i + 1]
      /\ Len(Tail(s)) = Len(s) - 1
  BY SMT
<1> DEFINE u == Tail(s)
<1> HIDE DEF u
<1>2. HasSwitch(u) => HasSwitch(s)
  BY <1>1, SMT DEF HasSwitch, u
<1>3. ASSUME s[1] # "ProxyConnection", NEW i \in DOMAIN s, s[i] = "ProxyConnection"
      PROVE  i - 1 \in DOMAIN u /\ u[i - 1] = "ProxyConnection"
  BY <1>1, <1>3, SMT DEF u
<1>4. ASSUME s[1] # "ProxyConnection", DataAfterSwitch(s), NEW i \in DOMAIN u, u[i] \in Data
      PROVE  \E j \in 1 .. i : u[j] = "ProxyConnection"
  <2>1. PICK j \in 1 .. (i + 1) : s[j] = "ProxyConnection"
    BY <1>1, <1>4, SMT DEF DataAfterSwitch, u
  <2>2. j - 1 \in 1 .. i /\ u[j - 1] = "ProxyConnection"
    BY <1>1, <1>4, <2>1, SMT DEF u
  <2> QED
    BY <2>2
<1>5. s[1] # "ProxyConnection" /\ HasSwitch(s) => HasSwitch(u)
  BY <1>3 DEF HasSwitch
<1> QED
  BY <1>1, <1>2, <1>4, <1>5, SMT DEF DataAfterSwitch, u

\* One message, or two, written at once.
LEMMA WrittenMessages ==
    ASSUME NEW m \in Message, NEW n \in Message
    PROVE  /\ <<m>> \in Seq(Message) /\ <<m, n>> \in Seq(Message)
           /\ HasSwitch(<<m>>) <=> m = "ProxyConnection"
           /\ m \notin Data => DataAfterSwitch(<<m>>)
           /\ HasSwitch(<<m, n>>) <=> m = "ProxyConnection" \/ n = "ProxyConnection"
           /\ m \notin Data /\ n \notin Data => DataAfterSwitch(<<m, n>>)
<1>1. DOMAIN <<m>> = {1} /\ DOMAIN <<m, n>> = {1, 2} /\ <<m>>[1] = m /\ <<m, n>>[1] = m /\ <<m, n>>[2] = n
  BY SMT
<1>2. <<m>> \in Seq(Message) /\ <<m, n>> \in Seq(Message)
  <2> HIDE DEF Message
  <2> QED
    BY SMT
<1> QED
  BY <1>1, <1>2 DEF HasSwitch, DataAfterSwitch

\* Writing to a channel leaves the others alone and only adds to this one.
LEMMA PutMessages ==
    ASSUME NEW w \in WireType, NEW ch \in Channels, NEW msgs \in Seq(Message)
    PROVE  /\ Put(w, ch, msgs) \in WireType
           /\ \A c \in Channels : c # ch => Put(w, ch, msgs)[c] = w[c]
           /\ StreamOf(ch) \in broken => Put(w, ch, msgs)[ch] = w[ch]
           /\ StreamOf(ch) \notin broken => Put(w, ch, msgs)[ch] = w[ch] \o msgs
<1> HIDE DEF Message
<1>1. w[ch] \in Seq(Message) /\ w[ch] \o msgs \in Seq(Message)
  BY SMT DEF WireType
<1> QED
  BY <1>1 DEF Put, WireType

\* Reading from a channel takes its first message.
LEMMA TakeMessage ==
    ASSUME NEW w \in WireType, NEW ch \in Channels, w[ch] # <<>>
    PROVE  /\ Take(w, ch) \in WireType
           /\ \A c \in Channels : c # ch => Take(w, ch)[c] = w[c]
           /\ Take(w, ch)[ch] = Tail(w[ch])
<1> HIDE DEF Message
<1>1. Tail(w[ch]) \in Seq(Message)
  BY SMT DEF WireType
<1> QED
  BY <1>1 DEF Take, WireType

\* v is w with messages added that do not touch the switch.
Grown(v, w) ==
    \A c \in Channels : /\ Begins(v[c], w[c])
                        /\ HasSwitch(v[c]) <=> HasSwitch(w[c])
                        /\ DataAfterSwitch(w[c]) => DataAfterSwitch(v[c])

\* Nothing added.
LEMMA GrownBack ==
    ASSUME NEW w \in WireType PROVE Grown(w, w)
<1>1. \A c \in Channels : w[c] \in Seq(Message)
  BY DEF WireType
<1> HIDE DEF Message
<1>2. \A c \in Channels : Begins(w[c], w[c])
  BY <1>1, SMT DEF Begins
<1> QED
  BY <1>2 DEF Grown

\* Messages that neither are the switch nor depend on it: those of the protocols
\* other than ProxyConnection, and the ends of streams.
Harmless(msgs) == msgs \in Seq(Message) /\ ~HasSwitch(msgs) /\ DataAfterSwitch(msgs)

\* One or two such messages.
LEMMA HarmlessMessages ==
    \A m, n \in (Protocol \ {"ProxyConnection"}) \cup Ended : Harmless(<<m>>) /\ Harmless(<<m, n>>)
<1> SUFFICES ASSUME NEW m \in (Protocol \ {"ProxyConnection"}) \cup Ended,
                    NEW n \in (Protocol \ {"ProxyConnection"}) \cup Ended
             PROVE  Harmless(<<m>>) /\ Harmless(<<m, n>>)
  OBVIOUS
<1>1. m \in Message /\ n \in Message /\ m \notin Data /\ n \notin Data
      /\ m # "ProxyConnection" /\ n # "ProxyConnection"
  BY DataAssumption DEF Message, Protocol, Ended
<1> QED
  BY <1>1, WrittenMessages DEF Harmless

\* Writing them makes the wires grow.
LEMMA GrownByPut ==
    ASSUME NEW v \in WireType, NEW w \in WireType, Grown(v, w),
           NEW ch \in Channels, NEW msgs, Harmless(msgs)
    PROVE  /\ Put(v, ch, msgs) \in WireType /\ Grown(Put(v, ch, msgs), w)
           /\ \A c \in Channels : c # ch => Put(v, ch, msgs)[c] = v[c]
<1>2. msgs \in Seq(Message) /\ ~HasSwitch(msgs) /\ DataAfterSwitch(msgs)
  BY DEF Harmless
<1> DEFINE x == Put(v, ch, msgs)
<1>3. /\ x \in WireType
      /\ \A c \in Channels : c # ch => x[c] = v[c]
      /\ StreamOf(ch) \in broken => x[ch] = v[ch]
      /\ StreamOf(ch) \notin broken => x[ch] = v[ch] \o msgs
  BY <1>2, PutMessages
<1> HIDE DEF x
<1>4. v[ch] \in Seq(Message) /\ x[ch] \in Seq(Message) /\ w[ch] \in Seq(Message)
  BY <1>3 DEF WireType
<1>5. CASE StreamOf(ch) \notin broken
  <2>0. x[ch] = v[ch] \o msgs
    BY <1>3, <1>5
  <2>1. Begins(x[ch], v[ch])
    <3>1. Begins(v[ch] \o msgs, v[ch])
      BY <1>2, <1>4, ConcatMessages
    <3> QED
      BY <2>0, <3>1
  <2>2. Begins(v[ch], w[ch])
    BY DEF Grown
  <2>3. Begins(x[ch], w[ch])
    <3> HIDE DEF Message
    <3>1. Len(x[ch]) \in Nat /\ Len(v[ch]) \in Nat /\ Len(w[ch]) \in Nat
      BY <1>4, SMT
    <3> QED
      BY <2>1, <2>2, <3>1, SMT DEF Begins
  <2>4. HasSwitch(x[ch]) <=> HasSwitch(v[ch])
    BY <1>2, <1>3, <1>4, <1>5, ConcatMessages
  <2>5. DataAfterSwitch(v[ch]) => DataAfterSwitch(x[ch])
    <3>1. DataAfterSwitch(v[ch]) => DataAfterSwitch(v[ch] \o msgs)
      BY <1>2, <1>4, ConcatMessages
    <3> QED
      BY <2>0, <3>1
  <2>6. Grown(x, w)
    BY <1>3, <2>3, <2>4, <2>5 DEF Grown
  <2> QED
    BY <1>3, <2>6 DEF x
<1>6. CASE StreamOf(ch) \in broken
  <2>1. \A c \in Channels : x[c] = v[c]
    BY <1>3, <1>6
  <2>2. Grown(x, w)
    BY <2>1 DEF Grown
  <2> QED
    BY <1>3, <2>2 DEF x
<1> QED
  BY <1>5, <1>6

-----------------------------------------------------------------------------
(* Types *)

\* What may be written to and read from the wires keeps their type.
LEMMA WireTypes ==
    ASSUME wire \in WireType
    PROVE  /\ \A m \in Message : <<m>> \in Seq(Message)
           /\ \A m, n \in Message : <<m, n>> \in Seq(Message)
           /\ \A ch \in Channels, msgs \in Seq(Message) :
                  Put(wire, ch, msgs) \in WireType
           /\ \A ch \in Channels, c \in Channels, msgs \in Seq(Message), more \in Seq(Message) :
                  Put(Put(wire, ch, msgs), c, more) \in WireType
           /\ \A ch \in Channels : wire[ch] # <<>> =>
                  /\ Head(wire[ch]) \in Message
                  /\ Take(wire, ch) \in WireType
                  /\ \A c \in Channels, msgs \in Seq(Message) : Put(Take(wire, ch), c, msgs) \in WireType
<1>1. \A ch \in Channels, msgs \in Seq(Message) : Put(wire, ch, msgs) \in WireType
  BY PutMessages
<1>2. ASSUME NEW ch \in Channels, NEW c \in Channels, NEW msgs \in Seq(Message), NEW more \in Seq(Message)
      PROVE  Put(Put(wire, ch, msgs), c, more) \in WireType
  <2> DEFINE w == Put(wire, ch, msgs)
  <2>1. w \in WireType
    BY <1>1
  <2> HIDE DEF w
  <2>2. Put(w, c, more) \in WireType
    BY <2>1, PutMessages
  <2> QED
    BY <2>2 DEF w
<1>3. ASSUME NEW ch \in Channels, wire[ch] # <<>>
      PROVE  /\ Head(wire[ch]) \in Message
             /\ Take(wire, ch) \in WireType
             /\ \A c \in Channels, msgs \in Seq(Message) : Put(Take(wire, ch), c, msgs) \in WireType
  <2>1. Head(wire[ch]) \in Message
    BY <1>3, TailMessages DEF WireType
  <2> DEFINE w == Take(wire, ch)
  <2>2. w \in WireType
    BY <1>3, TakeMessage
  <2> HIDE DEF w
  <2>3. \A c \in Channels, msgs \in Seq(Message) : Put(w, c, msgs) \in WireType
    BY <2>2, PutMessages
  <2> QED
    BY <2>1, <2>2, <2>3 DEF w
<1>4. \A m, n \in Message : <<m>> \in Seq(Message) /\ <<m, n>> \in Seq(Message)
  BY WrittenMessages
<1> QED
  BY <1>1, <1>2, <1>3, <1>4

\* The types of the variables of each peer.
Peer0Type ==
    /\ p0 \in {"WaitingForProxyStream", "WaitingForInternetAddressInformation",
               "WaitingForExchangeAddressInformation", "WaitingForConnection",
               "WaitingForStream", "ConnectionBuilt", "PeerToPeerError", "Dropped"}
    /\ timer \in {"off", "running", "elapsed"}
    /\ cand \in [Candidates -> {"none", "pending", "peer2", "other", "failed"}]
    /\ direct \in {"none", "peer2", "other"}
    /\ result \in {"none", "direct", "proxy"}
Peer1Type == p1 \in {"none", "IncomingStream", "OpeningStream", "Relaying", "done"}
Peer2Type ==
    /\ p2 \in {"none", "IncomingStream", "BuildConnectionToPeerRemote", "passed",
               "done", "panicked"}
    /\ direct2 \in {"none", "IncomingStream", "passed", "done"}
    /\ internet_addr \in {"None", "Some"}
    /\ passed \in Seq({"direct", "proxy"})
UserType ==
    /\ sent \in [{"peer0", "peer2"} -> Seq(Data)]
    /\ got \in [{"peer0", "peer2"} -> Seq(Message)]

\* TypeOK, part by part.
LEMMA TypeSplit ==
    TypeOK <=> /\ Peer0Type /\ Peer1Type /\ Peer2Type /\ UserType
               /\ broken \in SUBSET {"s01", "s12"} /\ wire \in WireType
BY DEF TypeOK, Peer0Type, Peer1Type, Peer2Type, UserType, WireType

\* Every step keeps the types.
LEMMA TypeStep == TypeOK /\ [Next]_vars => TypeOK'
<1> SUFFICES ASSUME TypeOK, [Next]_vars PROVE TypeOK'
  OBVIOUS
<1>0. /\ Peer0Type /\ Peer1Type /\ Peer2Type /\ UserType
      /\ broken \in SUBSET {"s01", "s12"} /\ wire \in WireType
  BY TypeSplit
<1>1. UNCHANGED peer0Vars => Peer0Type'
  BY <1>0 DEF Peer0Type, peer0Vars
<1>2. p1' = p1 => Peer1Type'
  BY <1>0 DEF Peer1Type
<1>3. UNCHANGED peer2Vars => Peer2Type'
  BY <1>0 DEF Peer2Type, peer2Vars
<1>4. UNCHANGED userVars => UserType'
  BY <1>0 DEF UserType, userVars
<1> HIDE DEF peer0Vars, peer2Vars, userVars
<1>5. Peer0Type'
  <2>1. ASSUME NEW a \in Candidates, NEW outcome \in {"peer2", "other", "failed"}, CandidateResolves(a, outcome)
        PROVE  Peer0Type'
    BY <1>0, <2>1 DEF CandidateResolves, Peer0Type
  <2>2. ASSUME NEW a \in Candidates, ConnectionReady(a) PROVE Peer0Type'
    BY <1>0, <2>2 DEF ConnectionReady, Peer0Type, LeaveWaitingForConnection
  <2>3. ASSUME ProxyStream, direct' = direct,
               LeaveWaitingForConnection \/ UNCHANGED <<timer, cand>>
        PROVE  Peer0Type'
    BY <1>0, <2>3 DEF ProxyStream, Peer0Type, LeaveWaitingForConnection
  <2>4. ASSUME PollWaitingForProxyStream \/ PollWaitingForInternetAddressInformation PROVE Peer0Type'
    BY <1>0, <2>4 DEF PollWaitingForProxyStream, PollWaitingForInternetAddressInformation,
                      PeerToPeerError, Peer0Type
  <2>5. ASSUME PollWaitingForExchangeAddressInformation PROVE Peer0Type'
    BY <1>0, <2>5 DEF PollWaitingForExchangeAddressInformation, PeerToPeerError, Peer0Type
  <2>6. ASSUME TimerElapses \/ StreamReady PROVE Peer0Type'
    BY <1>0, <2>6 DEF TimerElapses, StreamReady, Peer0Type
  <2>7. ASSUME DropFuture PROVE Peer0Type'
    BY <1>0, <2>7 DEF DropFuture, Peer0Type, LeaveWaitingForConnection
  <2>8. ASSUME NEW u, UserCloses(u) PROVE Peer0Type'
    BY <1>0, <2>8 DEF UserCloses, Peer0Type
  <2>9. ASSUME NEW a \in Candidates, ConnectionError(a) PROVE Peer0Type'
    BY <2>3, <2>9 DEF ConnectionError
  <2>10. ASSUME ConnectionTimeout \/ StreamError PROVE Peer0Type'
    BY <2>3, <2>10 DEF ConnectionTimeout, StreamError
  <2>11. ASSUME UNCHANGED vars PROVE UNCHANGED peer0Vars
    BY <2>11 DEF vars, peer0Vars
  <2> QED
    BY <1>1, <2>1, <2>2, <2>4, <2>5, <2>6, <2>7, <2>8, <2>9, <2>10, <2>11
       DEF Next, Breaks, Peer1Hello, Peer1Prepares, Peer1Fails, Relay, Peer2Hello, Peer2InternetAddress,
           Peer2ExchangeAddresses, Peer2ProxyConnection, Peer2StreamEnds, Peer2DirectHello,
           UserWrites, UserReads
<1>6. Peer1Type'
  <2>1. ASSUME PollWaitingForProxyStream PROVE Peer1Type'
    BY <1>0, <2>1 DEF PollWaitingForProxyStream, Peer1Type
  <2>2. ASSUME Peer1Hello \/ Peer1Prepares \/ Peer1Fails PROVE Peer1Type'
    BY <1>0, <2>2 DEF Peer1Hello, Peer1Prepares, Peer1Fails, Peer1Type
  <2>3. ASSUME Relay("p0p1", "p1p2") \/ Relay("p2p1", "p1p0") PROVE Peer1Type'
    BY <1>0, <2>3 DEF Relay, Peer1Type
  <2>4. ASSUME UNCHANGED vars PROVE p1' = p1
    BY <2>4 DEF vars
  <2> QED
    BY <1>2, <2>1, <2>2, <2>3, <2>4
       DEF Next, peer1Vars, Breaks, PollWaitingForInternetAddressInformation,
           PollWaitingForExchangeAddressInformation, CandidateResolves, ConnectionError, ConnectionReady,
           TimerElapses, ConnectionTimeout, StreamReady, StreamError, DropFuture, Peer2Hello,
           Peer2InternetAddress, Peer2ExchangeAddresses, Peer2ProxyConnection, Peer2StreamEnds,
           Peer2DirectHello, UserWrites, UserReads, UserCloses
<1>7. Peer2Type'
  <2>1. ASSUME StreamReady PROVE Peer2Type'
    BY <1>0, <2>1 DEF StreamReady, Peer2Type
  <2>2. ASSUME Peer1Prepares \/ Peer1Fails PROVE Peer2Type'
    BY <1>0, <2>2 DEF Peer1Prepares, Peer1Fails, Peer2Type
  <2>3. ASSUME Peer2Hello \/ Peer2InternetAddress \/ Peer2ExchangeAddresses PROVE Peer2Type'
    BY <1>0, <2>3 DEF Peer2Hello, Peer2InternetAddress, Peer2ExchangeAddresses, Peer2Ends, Peer2Type
  <2>4. ASSUME Peer2ProxyConnection \/ Peer2StreamEnds PROVE Peer2Type'
    BY <1>0, <2>4, SMT DEF Peer2ProxyConnection, Peer2StreamEnds, Peer2Ends, Peer2Type
  <2>5. ASSUME Peer2DirectHello PROVE Peer2Type'
    BY <1>0, <2>5, SMT DEF Peer2DirectHello, Peer2Type
  <2>6. ASSUME NEW u, UserCloses(u) PROVE Peer2Type'
    BY <1>0, <2>6 DEF UserCloses, Peer2Type
  <2>7. ASSUME UNCHANGED vars PROVE UNCHANGED peer2Vars
    BY <2>7 DEF vars, peer2Vars
  <2> QED
    BY <1>3, <2>1, <2>2, <2>3, <2>4, <2>5, <2>6, <2>7
       DEF Next, Breaks, PollWaitingForProxyStream, PollWaitingForInternetAddressInformation,
           PollWaitingForExchangeAddressInformation, CandidateResolves, ConnectionError, ConnectionReady,
           TimerElapses, ConnectionTimeout, StreamError, DropFuture, Peer1Hello, Relay, UserWrites, UserReads
<1>8. broken' \in SUBSET {"s01", "s12"}
  <2>1. broken' = broken \/ \E s \in {"s01", "s12"} : broken' = broken \cup {s}
    BY DEF Next, vars, Breaks, PollWaitingForProxyStream, PollWaitingForInternetAddressInformation,
           PollWaitingForExchangeAddressInformation, CandidateResolves, ConnectionError, ConnectionReady,
           TimerElapses, ConnectionTimeout, StreamReady, StreamError, DropFuture, Peer1Hello,
           Peer1Prepares, Peer1Fails, Relay, Peer2Hello, Peer2InternetAddress, Peer2ExchangeAddresses,
           Peer2ProxyConnection, Peer2StreamEnds, Peer2DirectHello, UserWrites, UserReads, UserCloses
  <2> QED
    BY <1>0, <2>1
<1>9. /\ Channels = {"p0p1", "p1p0", "p1p2", "p2p1"} /\ Data \subseteq Message
      /\ {"ProxyBuildConnectionToPeer", "BuildConnectionToPeer", "InternetAddressInformation",
          "ExchangeAddressInformation", "ProxyConnection", "Eof", "Reset"} \subseteq Message
  BY DEF Channels, Message, Protocol
<1>10. UserType'
  <2>1. ASSUME NEW u \in {"peer0", "peer2"}, NEW d \in Data, UserWrites(u, d) PROVE UserType'
    <3>1. Append(sent[u], d) \in Seq(Data)
      BY <1>0, SMT DEF UserType
    <3> QED
      BY <1>0, <2>1, <3>1 DEF UserWrites, UserType
  <2>2. ASSUME NEW u \in {"peer0", "peer2"}, UserReads(u) PROVE UserType'
    <3>1. Incoming(u) \in Channels /\ wire[Incoming(u)] # <<>>
      BY <2>2 DEF UserReads, Incoming, Channels
    <3>2. Head(wire[Incoming(u)]) \in Message
      BY <1>0, <3>1, WireTypes
    <3>3. Append(got[u], Head(wire[Incoming(u)])) \in Seq(Message)
      BY <1>0, <3>2, SMT DEF UserType
    <3> QED
      BY <1>0, <2>2, <3>3 DEF UserReads, UserType
  <2>3. ASSUME UNCHANGED vars PROVE UNCHANGED userVars
    BY <2>3 DEF vars, userVars
  <2> QED
    BY <1>4, <2>1, <2>2, <2>3
       DEF Next, Breaks, PollWaitingForProxyStream, PollWaitingForInternetAddressInformation,
           PollWaitingForExchangeAddressInformation, CandidateResolves, ConnectionError, ConnectionReady,
           TimerElapses, ConnectionTimeout, StreamReady, StreamError, DropFuture, Peer1Hello,
           Peer1Prepares, Peer1Fails, Relay, Peer2Hello, Peer2InternetAddress, Peer2ExchangeAddresses,
           Peer2ProxyConnection, Peer2StreamEnds, Peer2DirectHello, UserCloses
<1>11. wire' \in WireType
  <2>1. ASSUME NEW s \in {"s01", "s12"}, Breaks(s) PROVE wire' \in WireType
    <3>1. <<"Reset">> \in Seq(Message)
      BY <1>0, <1>9, WireTypes
    <3> QED
      BY <1>0, <2>1, <3>1 DEF Breaks, WireType
  <2>2. ASSUME \/ PollWaitingForProxyStream \/ PollWaitingForInternetAddressInformation
               \/ PollWaitingForExchangeAddressInformation
        PROVE  wire' \in WireType
    BY <1>0, <1>9, <2>2, WireTypes
       DEF PollWaitingForProxyStream, PollWaitingForInternetAddressInformation,
           PollWaitingForExchangeAddressInformation, PeerToPeerError
  <2>3. ASSUME ProxyStream PROVE wire' \in WireType
    BY <1>0, <1>9, <2>3, WireTypes DEF ProxyStream
  <2>4. ASSUME StreamReady \/ DropFuture PROVE wire' \in WireType
    BY <1>0, <1>9, <2>4, WireTypes DEF StreamReady, DropFuture
  <2>5. ASSUME Peer1Hello PROVE wire' \in WireType
    BY <1>0, <1>9, <2>5, WireTypes DEF Peer1Hello, Receives
  <2>6. ASSUME Peer1Prepares \/ Peer1Fails PROVE wire' \in WireType
    <3>1. /\ <<"Eof">> \in Seq(Message) /\ <<"InternetAddressInformation">> \in Seq(Message)
          /\ <<"BuildConnectionToPeer", "InternetAddressInformation">> \in Seq(Message)
          /\ <<"BuildConnectionToPeer", "Eof">> \in Seq(Message)
          /\ <<"InternetAddressInformation", "Eof">> \in Seq(Message)
      BY <1>0, <1>9, WireTypes
    <3>2. CASE Peer1Prepares
      BY <1>0, <1>9, <3>1, <3>2, WireTypes DEF Peer1Prepares
    <3>3. CASE Peer1Fails
      BY <1>0, <1>9, <3>1, <3>3, WireTypes, ZenonT(30) DEF Peer1Fails
    <3> QED
      BY <2>6, <3>2, <3>3
  <2>7. ASSUME NEW from \in Channels, NEW to \in Channels, Relay(from, to) PROVE wire' \in WireType
    <3>1. <<Head(wire[from])>> \in Seq(Message) /\ <<"Eof">> \in Seq(Message)
      BY <1>0, <1>9, <2>7, WireTypes DEF Relay
    <3>2. CASE wire' = Put(Take(wire, from), to, <<Head(wire[from])>>)
      BY <1>0, <2>7, <3>1, <3>2, WireTypes DEF Relay
    <3>3. CASE wire' = Put(Put(wire, "p1p0", <<"Eof">>), "p1p2", <<"Eof">>)
      BY <1>0, <1>9, <3>1, <3>3, WireTypes
    <3> QED
      BY <2>7, <3>2, <3>3 DEF Relay
  <2>8. ASSUME Peer2Hello \/ Peer2InternetAddress PROVE wire' \in WireType
    BY <1>0, <1>9, <2>8, WireTypes DEF Peer2Hello, Peer2InternetAddress, Peer2Ends, Receives
  <2>9. ASSUME Peer2ExchangeAddresses PROVE wire' \in WireType
    BY <1>0, <1>9, <2>9, WireTypes DEF Peer2ExchangeAddresses, Peer2Ends, Receives
  <2>10. ASSUME Peer2ProxyConnection \/ Peer2StreamEnds PROVE wire' \in WireType
    BY <1>0, <1>9, <2>10, WireTypes DEF Peer2ProxyConnection, Peer2StreamEnds, Peer2Ends, Receives
  <2>11. ASSUME NEW u \in {"peer0", "peer2"}, (\E d \in Data : UserWrites(u, d)) \/ UserReads(u) \/ UserCloses(u)
         PROVE  wire' \in WireType
    <3>1. Incoming(u) \in Channels /\ Outgoing(u) \in Channels
      BY DEF Incoming, Outgoing, Channels
    <3>2. ASSUME NEW d \in Data, UserWrites(u, d) PROVE wire' = Put(wire, Outgoing(u), <<d>>)
      BY <3>2 DEF UserWrites
    <3>3. ASSUME UserReads(u)
          PROVE  wire[Incoming(u)] # <<>> /\ wire' = Take(wire, Incoming(u))
      BY <3>3 DEF UserReads
    <3>4. ASSUME UserCloses(u) PROVE wire' = Put(wire, Outgoing(u), <<"Eof">>)
      BY <3>4 DEF UserCloses
    <3> QED
      BY <1>0, <1>9, <2>11, <3>1, <3>2, <3>3, <3>4, WireTypes
  <2>12. ASSUME UNCHANGED vars PROVE wire' = wire
    BY <2>12 DEF vars
  <2>13. "p0p1" \in Channels /\ "p1p0" \in Channels /\ "p1p2" \in Channels /\ "p2p1" \in Channels
    BY <1>9
  <2> QED
    BY <1>0, <2>1, <2>2, <2>3, <2>4, <2>5, <2>6, <2>7, <2>8, <2>9, <2>10, <2>11, <2>12, <2>13
       DEF Next, CandidateResolves, ConnectionError, ConnectionReady, TimerElapses, ConnectionTimeout,
           StreamError, Peer2DirectHello
<1> QED
  BY <1>5, <1>6, <1>7, <1>8, <1>10, <1>11, TypeSplit
     DEF TypeOK, Peer0Type, Peer1Type, Peer2Type, UserType, WireType

-----------------------------------------------------------------------------
(* The inductive invariant *)

\* peer2 has not yet got an end of the proxied stream.
BeforeSwitch == {"none", "IncomingStream", "BuildConnectionToPeerRemote"}

\* ProxyConnection is only ever under way, or acted on, when the proxy stream is
\* the result, and a direct stream only arrives when it is.
AgreeInv ==
    /\ result # "none" => p0 \in {"ConnectionBuilt", "Dropped"}
    /\ direct2 # "none" => result = "direct"
    /\ direct2 = "IncomingStream" => passed = <<>>
    /\ passed \in {<<>>, <<"direct">>, <<"proxy">>}
    /\ passed = <<"direct">> => result = "direct"
    /\ passed = <<"proxy">> => result = "proxy" /\ p2 \notin BeforeSwitch
    /\ HasSwitch(wire["p0p1"]) => result = "proxy"
    /\ HasSwitch(wire["p1p2"]) => result = "proxy"

\* What peer2 reads first, until it knows its internet address.
AddressInv ==
    /\ p2 = "none" => wire["p1p2"] = <<>> /\ "s12" \notin broken
    /\ p1 \in {"none", "IncomingStream", "OpeningStream"} => p2 = "none"
    /\ p1 = "Relaying" => p2 # "none"
    /\ p0 = "WaitingForProxyStream" => p1 = "none"
    /\ p2 = "IncomingStream" =>
           /\ Len(wire["p1p2"]) >= 1
           /\ \/ wire["p1p2"][1] = "Reset"
              \/ /\ Len(wire["p1p2"]) >= 2
                 /\ wire["p1p2"][1] = "BuildConnectionToPeer"
                 /\ wire["p1p2"][2] \in {"InternetAddressInformation", "Eof"}
    /\ p2 = "BuildConnectionToPeerRemote" /\ internet_addr = "None" =>
           /\ Len(wire["p1p2"]) >= 1
           /\ wire["p1p2"][1] \in {"InternetAddressInformation", "Eof", "Reset"}
    /\ p2 # "panicked"

\* The user of peer0 writes behind ProxyConnection, and the relay keeps the order.
SwitchInv ==
    p2 \in BeforeSwitch =>
        /\ DataAfterSwitch(wire["p1p2"])
        /\ p1 # "done" /\ "s12" \notin broken =>
               /\ DataAfterSwitch(wire["p0p1"]) \/ HasSwitch(wire["p1p2"])
               /\ p0 = "ConnectionBuilt" /\ result = "proxy" /\ "s01" \notin broken =>
                      HasSwitch(wire["p0p1"]) \/ HasSwitch(wire["p1p2"])

IInv == AgreeInv /\ AddressInv /\ SwitchInv

\* Between w and v, what the invariant says of the channels to peer2 is kept.
Calm(v, w) ==
    /\ \A c \in {"p0p1", "p1p2"} : /\ HasSwitch(v[c]) <=> HasSwitch(w[c])
                                   /\ DataAfterSwitch(w[c]) => DataAfterSwitch(v[c])
    /\ Begins(v["p1p2"], w["p1p2"])
    /\ p2 = "none" => v["p1p2"] = w["p1p2"]

\* Steps of peer0, peer1 and the users that do not concern the switch.
LEMMA CalmStep ==
    ASSUME TypeOK, IInv, wire' \in WireType, Calm(wire', wire),
           UNCHANGED <<result, direct2, passed, p2, internet_addr, broken>>,
           result # "none" => p0' \in {"ConnectionBuilt", "Dropped"},
           result = "proxy" /\ p0' = "ConnectionBuilt" => p0 = "ConnectionBuilt",
           p0' = "WaitingForProxyStream" => p0 = "WaitingForProxyStream" /\ p1' = p1,
           \/ p1' \in {p1, "done"}
           \/ p1 \in {"none", "IncomingStream"} /\ p1' \in {"IncomingStream", "OpeningStream"}
    PROVE  IInv'
<1>1. AgreeInv'
  BY DEF IInv, AgreeInv, Calm
<1>2. AddressInv'
  <2>1. /\ Len(wire["p1p2"]) \in Nat /\ Len(wire'["p1p2"]) \in Nat
        /\ Len(wire["p1p2"]) <= Len(wire'["p1p2"])
        /\ \A i \in 1 .. Len(wire["p1p2"]) : wire'["p1p2"][i] = wire["p1p2"][i]
    <3>1. wire["p1p2"] \in Seq(Message) /\ wire'["p1p2"] \in Seq(Message)
      BY DEF TypeOK, WireType, Channels
    <3> QED
      BY <3>1, SMT DEF Calm, Begins
  <2>2. /\ Len(wire["p1p2"]) >= 1 => Len(wire'["p1p2"]) >= 1 /\ wire'["p1p2"][1] = wire["p1p2"][1]
        /\ Len(wire["p1p2"]) >= 2 => Len(wire'["p1p2"]) >= 2 /\ wire'["p1p2"][2] = wire["p1p2"][2]
    BY <2>1, SMT
  <2>3. p2 = "none" => wire'["p1p2"] = wire["p1p2"]
    BY DEF Calm
  <2>4. /\ p1' \in {"none", "IncomingStream", "OpeningStream"} => p2 = "none"
        /\ p1' = "Relaying" => p2 # "none"
        /\ p0' = "WaitingForProxyStream" => p1' = "none"
    BY DEF IInv, AddressInv
  <2> HIDE DEF Calm
  <2> QED
    BY <2>2, <2>3, <2>4 DEF IInv, AddressInv
<1>3. SwitchInv'
  <2>1. p1' # "done" => p1 # "done"
    OBVIOUS
  <2> QED
    BY <2>1 DEF IInv, SwitchInv, Calm
<1> QED
  BY <1>1, <1>2, <1>3 DEF IInv

\* Writing harmless messages is calm, unless there is no peer2 to write to.
LEMMA CalmWrite ==
    ASSUME wire \in WireType, NEW w \in WireType, Calm(w, wire),
           NEW ch \in Channels, ch = "p1p2" => p2 # "none",
           NEW msgs, Harmless(msgs)
    PROVE  Put(w, ch, msgs) \in WireType /\ Calm(Put(w, ch, msgs), wire)
<1> DEFINE v == Put(w, ch, msgs)
<1>0. Grown(w, w)
  BY GrownBack
<1>1. v \in WireType /\ Grown(v, w) /\ \A c \in Channels : c # ch => v[c] = w[c]
  BY <1>0, GrownByPut, SMT
<1> HIDE DEF v
<1>2. "p1p2" \in Channels /\ {"p0p1", "p1p2"} \subseteq Channels
  BY DEF Channels
<1>3. \A c \in {"p0p1", "p1p2"} : /\ HasSwitch(v[c]) <=> HasSwitch(wire[c])
                                  /\ DataAfterSwitch(wire[c]) => DataAfterSwitch(v[c])
  BY <1>1, <1>2 DEF Grown, Calm
<1>4. Begins(v["p1p2"], wire["p1p2"])
  <2>1. Begins(v["p1p2"], w["p1p2"]) /\ Begins(w["p1p2"], wire["p1p2"])
    BY <1>1, <1>2 DEF Grown, Calm
  <2>2. Len(v["p1p2"]) \in Nat /\ Len(w["p1p2"]) \in Nat /\ Len(wire["p1p2"]) \in Nat
    <3>1. v["p1p2"] \in Seq(Message) /\ w["p1p2"] \in Seq(Message) /\ wire["p1p2"] \in Seq(Message)
      BY <1>1, <1>2 DEF WireType
    <3> QED
      BY <3>1, SMT
  <2> QED
    BY <2>1, <2>2, SMT DEF Begins
<1>5. p2 = "none" => v["p1p2"] = wire["p1p2"]
  BY <1>1, <1>2 DEF Calm
<1> QED
  BY <1>1, <1>3, <1>4, <1>5 DEF Calm, v

\* So is writing anything on the way back to peer0.
LEMMA CalmWriteBack ==
    ASSUME NEW w \in WireType, Calm(w, wire), NEW ch \in {"p1p0", "p2p1"}, NEW msgs \in Seq(Message)
    PROVE  Put(w, ch, msgs) \in WireType /\ Calm(Put(w, ch, msgs), wire)
<1> DEFINE v == Put(w, ch, msgs)
<1>0. ch \in Channels
  BY DEF Channels
<1>1. v \in WireType /\ \A c \in Channels : c # ch => v[c] = w[c]
  BY <1>0, PutMessages
<1> HIDE DEF v
<1>2. v["p0p1"] = w["p0p1"] /\ v["p1p2"] = w["p1p2"]
  BY <1>1 DEF Channels
<1>3. Calm(v, wire)
  BY <1>2 DEF Calm
<1> QED
  BY <1>1, <1>3 DEF v

\* And so is reading it, or reading harmless messages on peer1.
LEMMA CalmRead ==
    ASSUME wire \in WireType, NEW ch \in {"p1p0", "p2p1", "p0p1"}, wire[ch] # <<>>,
           ch = "p0p1" => Head(wire[ch]) # "ProxyConnection"
    PROVE  Take(wire, ch) \in WireType /\ Calm(Take(wire, ch), wire)
<1>1. /\ Take(wire, ch) \in WireType
      /\ \A c \in Channels : c # ch => Take(wire, ch)[c] = wire[c]
      /\ Take(wire, ch)[ch] = Tail(wire[ch])
  BY TakeMessage, SMT DEF Channels
<1>2. wire[ch] \in Seq(Message)
  BY DEF WireType, Channels
<1>3. ch = "p0p1" => /\ HasSwitch(Tail(wire[ch])) <=> HasSwitch(wire[ch])
                     /\ DataAfterSwitch(wire[ch]) => DataAfterSwitch(Tail(wire[ch]))
  BY <1>2, TailMessages
<1>4. Take(wire, ch)["p1p2"] = wire["p1p2"] /\ Begins(wire["p1p2"], wire["p1p2"])
  BY <1>1, GrownBack DEF Channels, Grown
<1>5. \A c \in {"p0p1", "p1p2"} : /\ HasSwitch(Take(wire, ch)[c]) <=> HasSwitch(wire[c])
                                  /\ DataAfterSwitch(wire[c]) => DataAfterSwitch(Take(wire, ch)[c])
  BY <1>1, <1>3 DEF Channels
<1> QED
  BY <1>1, <1>4, <1>5 DEF Calm

\* Steps of peer0 before it has a result.
LEMMA Peer0Step ==
    ASSUME TypeOK, IInv,
           \/ PollWaitingForProxyStream \/ PollWaitingForInternetAddressInformation
           \/ PollWaitingForExchangeAddressInformation \/ TimerElapses \/ DropFuture
           \/ \E a \in Candidates : \/ \E outcome \in {"peer2", "other", "failed"} : CandidateResolves(a, outcome)
                                    \/ ConnectionReady(a)
    PROVE  IInv'
<1>0. wire \in WireType /\ {"p0p1", "p1p0", "p1p2", "p2p1"} = Channels
  BY DEF TypeOK, WireType, Channels
<1>1. Calm(wire, wire)
  BY <1>0, GrownBack DEF Grown, Calm, Channels
<1>2. /\ Harmless(<<"Eof">>) /\ Harmless(<<"ExchangeAddressInformation">>)
      /\ Harmless(<<"ProxyBuildConnectionToPeer">>)
  BY HarmlessMessages DEF Protocol, Ended
<1>3. "p0p1" \in Channels /\ "p0p1" # "p1p2"
  BY <1>0
<1>4. \A msgs : Harmless(msgs) => Put(wire, "p0p1", msgs) \in WireType /\ Calm(Put(wire, "p0p1", msgs), wire)
  BY <1>0, <1>1, <1>3, CalmWrite
<1>5. wire["p1p0"] # <<>> =>
          /\ Take(wire, "p1p0") \in WireType /\ Calm(Take(wire, "p1p0"), wire)
          /\ \A msgs : Harmless(msgs) => /\ Put(Take(wire, "p1p0"), "p0p1", msgs) \in WireType
                                         /\ Calm(Put(Take(wire, "p1p0"), "p0p1", msgs), wire)
  BY <1>0, <1>3, CalmRead, CalmWrite
<1> HIDE DEF Calm, Harmless
<1>6. wire' \in WireType /\ Calm(wire', wire)
  <2>1. CASE PollWaitingForProxyStream \/ DropFuture
    BY <1>0, <1>1, <1>2, <1>4, <2>1 DEF PollWaitingForProxyStream, DropFuture
  <2>2. CASE PollWaitingForInternetAddressInformation \/ PollWaitingForExchangeAddressInformation
    BY <1>2, <1>4, <1>5, <2>2
       DEF PollWaitingForInternetAddressInformation, PollWaitingForExchangeAddressInformation, PeerToPeerError
  <2>3. CASE UNCHANGED wire
    BY <1>0, <1>1, <2>3
  <2> QED
    BY <2>1, <2>2, <2>3 DEF TimerElapses, CandidateResolves, ConnectionReady
<1>7. UNCHANGED <<result, direct2, passed, p2, internet_addr, broken>>
  BY DEF PollWaitingForProxyStream, PollWaitingForInternetAddressInformation, peer2Vars,
         PollWaitingForExchangeAddressInformation, TimerElapses, DropFuture, CandidateResolves, ConnectionReady
<1>8. /\ p0' = p0 \/ (p0 \notin {"ConnectionBuilt", "Dropped"} /\ p0' \notin {"ConnectionBuilt", "WaitingForProxyStream"})
      /\ p1' = p1 \/ (p0 = "WaitingForProxyStream" /\ p1' = "IncomingStream" /\ p0' # p0)
  <2>1. CASE PollWaitingForProxyStream
    BY <2>1 DEF PollWaitingForProxyStream
  <2>2. CASE PollWaitingForInternetAddressInformation \/ PollWaitingForExchangeAddressInformation
    BY <2>2 DEF PollWaitingForInternetAddressInformation, PollWaitingForExchangeAddressInformation,
                PeerToPeerError, peer1Vars
  <2>3. CASE TimerElapses \/ DropFuture
    BY <2>3 DEF TimerElapses, DropFuture, peer1Vars
  <2>4. ASSUME NEW a \in Candidates, ConnectionReady(a) PROVE p0 = "WaitingForConnection" /\ p0' = "WaitingForStream" /\ p1' = p1
    BY <2>4 DEF ConnectionReady, peer1Vars
  <2>5. ASSUME NEW a \in Candidates, NEW outcome, CandidateResolves(a, outcome) PROVE p0' = p0 /\ p1' = p1
    BY <2>5 DEF CandidateResolves, peer1Vars
  <2> QED
    BY <2>1, <2>2, <2>3, <2>4, <2>5
<1>9. /\ result # "none" => p0 \in {"ConnectionBuilt", "Dropped"}
      /\ p0 = "WaitingForProxyStream" => p1 = "none"
  BY DEF IInv, AgreeInv, AddressInv
<1>10. /\ result # "none" => p0' \in {"ConnectionBuilt", "Dropped"}
       /\ result = "proxy" /\ p0' = "ConnectionBuilt" => p0 = "ConnectionBuilt"
       /\ p0' = "WaitingForProxyStream" => p0 = "WaitingForProxyStream" /\ p1' = p1
  BY <1>8, <1>9
<1>11. p1' \in {p1, "done"} \/ (p1 \in {"none", "IncomingStream"} /\ p1' \in {"IncomingStream", "OpeningStream"})
  BY <1>8, <1>9
<1> QED
  BY <1>6, <1>7, <1>10, <1>11, CalmStep

\* peer0 hands out the proxy stream, or fails to.
LEMMA ProxyStreamStep ==
    ASSUME TypeOK, IInv, p0 \in {"WaitingForConnection", "WaitingForStream"}, ProxyStream,
           UNCHANGED <<p1, direct2, passed, p2, internet_addr, broken>>
    PROVE  IInv'
<1>0. wire \in WireType /\ "p0p1" \in Channels /\ wire["p0p1"] \in Seq(Message)
  BY DEF TypeOK, WireType, Channels
<1>1. /\ result = "none" /\ direct2 = "none" /\ passed = <<>>
      /\ ~HasSwitch(wire["p0p1"]) /\ ~HasSwitch(wire["p1p2"])
  BY DEF IInv, AgreeInv
<1>2. CASE /\ WriteWorks("p0p1") /\ wire' = Put(wire, "p0p1", <<"ProxyConnection">>)
           /\ p0' = "ConnectionBuilt" /\ result' = "proxy"
  <2>1. "ProxyConnection" \in Message /\ "ProxyConnection" \notin Data
    BY DataAssumption DEF Message, Protocol
  <2>2. /\ <<"ProxyConnection">> \in Seq(Message) /\ HasSwitch(<<"ProxyConnection">>)
        /\ DataAfterSwitch(<<"ProxyConnection">>)
    BY <2>1, WrittenMessages
  <2>3. /\ wire'["p0p1"] = wire["p0p1"] \o <<"ProxyConnection">>
        /\ wire'["p1p2"] = wire["p1p2"]
    BY <1>0, <1>2, <2>2, PutMessages DEF WriteWorks, Channels
  <2>4. /\ HasSwitch(wire["p0p1"] \o <<"ProxyConnection">>)
        /\ DataAfterSwitch(wire["p0p1"]) => DataAfterSwitch(wire["p0p1"] \o <<"ProxyConnection">>)
    BY <1>0, <2>2, ConcatMessages
  <2>5. HasSwitch(wire'["p0p1"]) /\ (DataAfterSwitch(wire["p0p1"]) => DataAfterSwitch(wire'["p0p1"]))
    BY <2>3, <2>4
  <2>6. AgreeInv'
    BY <1>1, <1>2 DEF AgreeInv
  <2>7. AddressInv'
    BY <1>2, <2>3 DEF IInv, AddressInv
  <2>8. SwitchInv'
    BY <1>1, <1>2, <2>3, <2>5 DEF IInv, SwitchInv
  <2> QED
    BY <2>6, <2>7, <2>8 DEF IInv
<1>3. CASE wire' = Put(wire, "p0p1", <<"Eof">>) /\ p0' = "PeerToPeerError" /\ UNCHANGED result
  <2>1. Harmless(<<"Eof">>) /\ "p0p1" # "p1p2"
    BY HarmlessMessages DEF Ended
  <2>2. Calm(wire, wire)
    BY <1>0, GrownBack DEF Grown, Calm, Channels
  <2>3. wire' \in WireType /\ Calm(wire', wire)
    BY <1>0, <1>3, <2>1, <2>2, CalmWrite
  <2> QED
    BY <1>1, <1>3, <2>3, CalmStep
<1> QED
  BY <1>2, <1>3 DEF ProxyStream

\* peer0 hands out the direct stream and drops the proxy stream.
LEMMA StreamReadyStep ==
    ASSUME TypeOK, IInv, StreamReady PROVE IInv'
<1>0. wire \in WireType /\ "p0p1" \in Channels /\ "p0p1" # "p1p2"
  BY DEF TypeOK, WireType, Channels
<1>1. /\ p0' = "ConnectionBuilt" /\ result' = "direct" /\ direct2' \in {"none", "IncomingStream"}
      /\ UNCHANGED <<p1, p2, internet_addr, passed, broken>>
  BY DEF StreamReady, peer1Vars
<1>2. /\ result = "none" /\ direct2 = "none" /\ passed = <<>>
      /\ ~HasSwitch(wire["p0p1"]) /\ ~HasSwitch(wire["p1p2"])
  BY DEF IInv, AgreeInv, StreamReady
<1>3. wire' \in WireType /\ Calm(wire', wire)
  <2>1. Harmless(<<"Eof">>)
    BY HarmlessMessages DEF Ended
  <2>2. Calm(wire, wire)
    BY <1>0, GrownBack DEF Grown, Calm, Channels
  <2> QED
    BY <1>0, <2>1, <2>2, CalmWrite DEF StreamReady
<1>4. wire'["p1p2"] = wire["p1p2"]
  <2>1. <<"Eof">> \in Seq(Message)
    BY HarmlessMessages DEF Ended, Harmless
  <2> QED
    BY <1>0, <2>1, PutMessages DEF StreamReady, Channels
<1>5. AgreeInv'
  BY <1>1, <1>2, <1>3 DEF AgreeInv, Calm
<1>6. AddressInv'
  BY <1>1, <1>4 DEF IInv, AddressInv
<1>7. SwitchInv'
  BY <1>1, <1>3 DEF IInv, SwitchInv, Calm
<1> QED
  BY <1>5, <1>6, <1>7 DEF IInv

\* peer2 has ended its part, or has an end of the proxied stream.
LEMMA Peer2Over ==
    ASSUME TypeOK, IInv, p2 # "none", p2' \in {"passed", "done"},
           wire'["p0p1"] = wire["p0p1"], HasSwitch(wire'["p1p2"]) => HasSwitch(wire["p1p2"]),
           UNCHANGED <<p0, p1, result, direct2, passed, internet_addr, broken>>
    PROVE  IInv'
<1>1. AgreeInv'
  BY DEF IInv, AgreeInv, BeforeSwitch
<1>2. AddressInv'
  BY DEF IInv, AddressInv
<1>3. SwitchInv'
  BY DEF SwitchInv, BeforeSwitch
<1> QED
  BY <1>1, <1>2, <1>3 DEF IInv

\* peer1 reads the hello and opens the stream to peer2.
LEMMA Peer1Step ==
    ASSUME TypeOK, IInv, Peer1Hello \/ Peer1Prepares \/ Peer1Fails PROVE IInv'
<1>0. wire \in WireType /\ {"p0p1", "p1p0", "p1p2", "p2p1"} = Channels
  BY DEF TypeOK, WireType, Channels
<1>1. Calm(wire, wire)
  BY <1>0, GrownBack DEF Grown, Calm, Channels
<1>2. UNCHANGED <<p0, result, direct2, passed, internet_addr, broken>>
  BY DEF Peer1Hello, Peer1Prepares, Peer1Fails, peer0Vars, peer2Vars
<1>3. p0 # "WaitingForProxyStream" /\ (result # "none" => p0 \in {"ConnectionBuilt", "Dropped"})
  BY DEF IInv, AddressInv, AgreeInv, Peer1Hello, Peer1Prepares, Peer1Fails
<1>4. /\ Harmless(<<"Eof">>) /\ Harmless(<<"InternetAddressInformation">>)
      /\ Harmless(<<"InternetAddressInformation", "Eof">>)
      /\ Harmless(<<"BuildConnectionToPeer", "InternetAddressInformation">>)
      /\ Harmless(<<"BuildConnectionToPeer", "Eof">>)
  BY HarmlessMessages DEF Protocol, Ended
<1>5. ASSUME NEW msgs, Harmless(msgs)
      PROVE  Put(wire, "p1p0", msgs) \in WireType /\ Calm(Put(wire, "p1p0", msgs), wire)
  BY <1>0, <1>1, <1>5, CalmWriteBack DEF Harmless
<1>6. CASE Peer1Hello
  <2>1. p1 = "IncomingStream" /\ p1' \in {"OpeningStream", "done"} /\ p2' = p2
    BY <1>6 DEF Peer1Hello, peer2Vars
  <2>2. wire' \in WireType /\ Calm(wire', wire)
    BY <1>0, <1>4, <1>5, <1>6, CalmRead DEF Peer1Hello, Receives
  <2> QED
    BY <1>2, <1>3, <2>1, <2>2, CalmStep
<1>7. CASE p1' = "done" /\ p2' = p2 /\ \E msgs : Harmless(msgs) /\ wire' = Put(wire, "p1p0", msgs)
  <2>1. wire' \in WireType /\ Calm(wire', wire)
    BY <1>5, <1>7
  <2> QED
    BY <1>2, <1>3, <1>7, <2>1, CalmStep
<1>8. ASSUME p1 = "OpeningStream", p1' \in {"Relaying", "done"}, p2' = "IncomingStream",
             NEW first, Harmless(first), NEW second \in {"InternetAddressInformation", "Eof"},
             wire' = Put(Put(wire, "p1p0", first), "p1p2", <<"BuildConnectionToPeer", second>>)
      PROVE  IInv'
  <2> DEFINE w == Put(wire, "p1p0", first)
             msgs == <<"BuildConnectionToPeer", second>>
  <2>1. /\ w \in WireType
        /\ \A c \in Channels : c # "p1p0" => w[c] = wire[c]
    BY <1>0, <1>8, PutMessages DEF Harmless
  <2>2. Harmless(msgs) /\ msgs \in Seq(Message)
    BY <1>4 DEF Harmless
  <2>3. p2 = "none" /\ wire["p1p2"] = <<>> /\ "s12" \notin broken
    BY <1>8 DEF IInv, AddressInv
  <2> HIDE DEF w
  <2>4. wire'["p0p1"] = wire["p0p1"]
    <3>1. \A c \in Channels : c # "p1p2" => Put(w, "p1p2", msgs)[c] = w[c]
      BY <1>0, <2>1, <2>2, PutMessages
    <3> QED
      BY <1>0, <1>8, <2>1, <3>1 DEF w
  <2>5. wire'["p1p2"] = msgs
    <3>1. Put(w, "p1p2", msgs)["p1p2"] = w["p1p2"] \o msgs
      <4>1. StreamOf("p1p2") \notin broken
        BY <2>3 DEF StreamOf
      <4>2. w \in WireType /\ "p1p2" \in Channels /\ msgs \in Seq(Message)
        BY <1>0, <2>1, <2>2
      <4> HIDE DEF msgs
      <4> QED
        BY <4>1, <4>2, PutMessages
    <3>2. w["p1p2"] = <<>>
      BY <1>0, <2>1, <2>3
    <3>3. <<>> \o msgs = msgs
      BY <2>2, SMT
    <3> QED
      BY <1>8, <3>1, <3>2, <3>3 DEF w
  <2>6. Len(wire'["p1p2"]) = 2 /\ wire'["p1p2"][1] = "BuildConnectionToPeer" /\ wire'["p1p2"][2] = second
    BY <2>5, SMT
  <2> HIDE DEF msgs
  <2>7. ~HasSwitch(wire'["p1p2"]) /\ DataAfterSwitch(wire'["p1p2"])
    BY <2>2, <2>5 DEF Harmless
  <2>8. AgreeInv'
    BY <1>2, <2>3, <2>4, <2>7 DEF IInv, AgreeInv, BeforeSwitch
  <2>9. AddressInv'
    BY <1>2, <1>3, <1>8, <2>6, SMT DEF AddressInv
  <2>10. ~HasSwitch(wire["p1p2"])
    BY <2>3, SMT DEF HasSwitch
  <2>11. SwitchInv'
    BY <1>2, <1>8, <2>3, <2>4, <2>7, <2>10 DEF IInv, SwitchInv, BeforeSwitch
  <2> QED
    BY <2>8, <2>9, <2>11 DEF IInv
<1>9. CASE Peer1Prepares
  BY <1>4, <1>8, <1>9 DEF Peer1Prepares
<1>10. CASE Peer1Fails
  <2>1. CASE p2' = p2 /\ wire' \in {Put(wire, "p1p0", <<"Eof">>),
                                     Put(wire, "p1p0", <<"InternetAddressInformation", "Eof">>)}
    <3>1. p1' = "done"
      BY <1>10 DEF Peer1Fails
    <3> QED
      BY <1>4, <1>7, <2>1, <3>1
  <2>2. CASE /\ p2' = "IncomingStream"
             /\ wire' = Put(Put(wire, "p1p0", <<"Eof">>), "p1p2", <<"BuildConnectionToPeer", "Eof">>)
    BY <1>4, <1>8, <1>10, <2>2 DEF Peer1Fails
  <2> QED
    BY <1>10, <2>1, <2>2 DEF Peer1Fails
<1> QED
  BY <1>6, <1>9, <1>10

\* peer1 relays a message to peer2: the order of the switch and the data stays.
LEMMA RelayForward ==
    ASSUME TypeOK, IInv, p1 = "Relaying", wire["p0p1"] # <<>>, WriteWorks("p1p2"),
           wire' = Put(Take(wire, "p0p1"), "p1p2", <<Head(wire["p0p1"])>>),
           UNCHANGED <<p0, p1, p2, result, direct2, passed, internet_addr, broken>>
    PROVE  IInv'
<1> DEFINE a == wire["p0p1"]
           b == wire["p1p2"]
           h == Head(a)
<1>0. wire \in WireType /\ "p0p1" \in Channels /\ "p1p2" \in Channels
      /\ a \in Seq(Message) /\ b \in Seq(Message)
  BY DEF TypeOK, WireType, Channels
<1>1. /\ h = a[1] /\ h \in Message /\ 1 \in DOMAIN a
      /\ HasSwitch(Tail(a)) => HasSwitch(a)
      /\ h # "ProxyConnection" => /\ HasSwitch(a) => HasSwitch(Tail(a))
                                  /\ DataAfterSwitch(a) => DataAfterSwitch(Tail(a))
  BY <1>0, TailMessages
<1>2. <<h>> \in Seq(Message) /\ (HasSwitch(<<h>>) <=> h = "ProxyConnection")
      /\ (h \notin Data => DataAfterSwitch(<<h>>))
  BY <1>1, WrittenMessages
<1>3. /\ Begins(b \o <<h>>, b)
      /\ HasSwitch(b \o <<h>>) <=> HasSwitch(b) \/ h = "ProxyConnection"
      /\ DataAfterSwitch(b) /\ (HasSwitch(b) \/ h \notin Data) => DataAfterSwitch(b \o <<h>>)
  BY <1>0, <1>2, ConcatMessages
<1>4. wire'["p0p1"] = Tail(a) /\ wire'["p1p2"] = b \o <<h>>
  <2> DEFINE w == Take(wire, "p0p1")
  <2>1. w \in WireType /\ w["p0p1"] = Tail(a) /\ w["p1p2"] = b
    BY <1>0, TakeMessage DEF Channels
  <2> HIDE DEF w
  <2>2. Put(w, "p1p2", <<h>>)["p0p1"] = w["p0p1"] /\ Put(w, "p1p2", <<h>>)["p1p2"] = w["p1p2"] \o <<h>>
    <3> DEFINE m == <<h>>
    <3>1. m \in Seq(Message) /\ StreamOf("p1p2") \notin broken
      BY <1>2 DEF WriteWorks
    <3> HIDE DEF m
    <3>2. w \in WireType /\ "p1p2" \in Channels
      BY <1>0, <2>1
    <3>3. /\ \A c \in Channels : c # "p1p2" => Put(w, "p1p2", m)[c] = w[c]
          /\ Put(w, "p1p2", m)["p1p2"] = w["p1p2"] \o m
      BY <3>1, <3>2, PutMessages
    <3>4. "p0p1" \in Channels /\ "p0p1" # "p1p2"
      BY DEF Channels
    <3> QED
      BY <3>3, <3>4 DEF m
  <2> QED
    BY <2>1, <2>2 DEF w
<1>5. p2 # "none" /\ "s12" \notin broken
  BY DEF IInv, AddressInv, WriteWorks, StreamOf
<1>6. HasSwitch(a) <=> HasSwitch(Tail(a)) \/ h = "ProxyConnection"
  BY <1>1 DEF HasSwitch
<1>7. DataAfterSwitch(a) => h \notin Data
  <2> SUFFICES ASSUME DataAfterSwitch(a), h \in Data PROVE FALSE
    OBVIOUS
  <2>1. \E j \in 1 .. 1 : a[j] = "ProxyConnection"
    BY <1>1 DEF DataAfterSwitch
  <2>2. h = "ProxyConnection"
    <3>1. h = a[1]
      BY <1>1
    <3>2. a[1] = "ProxyConnection"
      BY <2>1, SMT
    <3> QED
      BY <3>1, <3>2
  <2> QED
    BY <2>2, DataAssumption DEF Protocol
<1> HIDE DEF a, b, h
<1>8. /\ HasSwitch(wire'["p0p1"]) <=> HasSwitch(Tail(a))
      /\ DataAfterSwitch(wire'["p0p1"]) <=> DataAfterSwitch(Tail(a))
      /\ HasSwitch(wire'["p1p2"]) <=> HasSwitch(b) \/ h = "ProxyConnection"
      /\ DataAfterSwitch(b) /\ (HasSwitch(b) \/ h \notin Data) => DataAfterSwitch(wire'["p1p2"])
      /\ Begins(wire'["p1p2"], b)
  BY <1>3, <1>4
<1>9. AgreeInv'
  BY <1>6, <1>8 DEF IInv, AgreeInv, a, b
<1>10. AddressInv'
  <2>1. Len(b) \in Nat /\ Len(wire'["p1p2"]) \in Nat
    <3>1. b \o <<h>> \in Seq(Message)
      BY <1>0, <1>2, SMT
    <3> QED
      BY <1>0, <1>4, <3>1, SMT
  <2>2. /\ Len(b) >= 1 => Len(wire'["p1p2"]) >= 1 /\ wire'["p1p2"][1] = b[1]
        /\ Len(b) >= 2 => Len(wire'["p1p2"]) >= 2 /\ wire'["p1p2"][2] = b[2]
    <3> DEFINE x == wire'["p1p2"]
               k == Len(b)
               m == Len(x)
    <3>1. k <= m /\ \A i \in 1..k : x[i] = b[i]
      BY <1>8 DEF Begins
    <3>2. k \in Nat /\ m \in Nat
      BY <2>1
    <3> HIDE DEF x, k, m
    <3>3. (k >= 1 => 1 \in 1..k /\ m >= 1) /\ (k >= 2 => 2 \in 1..k /\ m >= 2)
      BY <3>1, <3>2, SMT
    <3>4. (k >= 1 => m >= 1 /\ x[1] = b[1]) /\ (k >= 2 => m >= 2 /\ x[2] = b[2])
      BY <3>1, <3>3
    <3> QED
      BY <3>4 DEF x, k, m
  <2> QED
    BY <1>5, <2>2 DEF IInv, AddressInv, b
<1>11. SwitchInv'
  <2> SUFFICES ASSUME p2 \in BeforeSwitch
               PROVE  /\ DataAfterSwitch(wire'["p1p2"])
                      /\ DataAfterSwitch(wire'["p0p1"]) \/ HasSwitch(wire'["p1p2"])
                      /\ p0 = "ConnectionBuilt" /\ result = "proxy" /\ "s01" \notin broken =>
                             HasSwitch(wire'["p0p1"]) \/ HasSwitch(wire'["p1p2"])
    BY DEF SwitchInv
  <2>1. /\ DataAfterSwitch(b) /\ (DataAfterSwitch(a) \/ HasSwitch(b))
        /\ p0 = "ConnectionBuilt" /\ result = "proxy" /\ "s01" \notin broken => HasSwitch(a) \/ HasSwitch(b)
    BY <1>5 DEF IInv, SwitchInv, a, b
  <2> QED
    BY <1>1, <1>6, <1>7, <1>8, <2>1
<1> QED
  BY <1>9, <1>10, <1>11 DEF IInv

\* The relay of peer1.
LEMMA RelayStep ==
    ASSUME TypeOK, IInv, Relay("p0p1", "p1p2") \/ Relay("p2p1", "p1p0") PROVE IInv'
<1>0. wire \in WireType /\ {"p0p1", "p1p0", "p1p2", "p2p1"} = Channels
  BY DEF TypeOK, WireType, Channels
<1>1. Calm(wire, wire)
  BY <1>0, GrownBack DEF Grown, Calm, Channels
<1>2. UNCHANGED <<p0, p2, result, direct2, passed, internet_addr, broken>>
  BY DEF Relay, peer0Vars, peer2Vars
<1>3. /\ p1 = "Relaying" /\ p2 # "none" /\ p0 # "WaitingForProxyStream"
      /\ result # "none" => p0 \in {"ConnectionBuilt", "Dropped"}
  BY DEF IInv, AddressInv, AgreeInv, Relay
<1>4. CASE p1' = "done" /\ wire' = Put(Put(wire, "p1p0", <<"Eof">>), "p1p2", <<"Eof">>)
  <2> DEFINE w == Put(wire, "p1p0", <<"Eof">>)
  <2>1. Harmless(<<"Eof">>)
    BY HarmlessMessages DEF Ended
  <2>2. w \in WireType /\ Calm(w, wire)
    BY <1>0, <1>1, <2>1, CalmWriteBack DEF Harmless
  <2> HIDE DEF w
  <2>3. wire' = Put(w, "p1p2", <<"Eof">>)
    BY <1>4 DEF w
  <2>4. wire' \in WireType /\ Calm(wire', wire)
    BY <1>0, <1>3, <2>1, <2>2, <2>3, CalmWrite
  <2> QED
    BY <1>2, <1>3, <1>4, <2>4, CalmStep
<1>5. CASE /\ p1' = p1 /\ wire["p2p1"] # <<>>
           /\ wire' = Put(Take(wire, "p2p1"), "p1p0", <<Head(wire["p2p1"])>>)
  <2> DEFINE w == Take(wire, "p2p1")
  <2>1. w \in WireType /\ Calm(w, wire)
    BY <1>0, <1>5, CalmRead
  <2>2. <<Head(wire["p2p1"])>> \in Seq(Message)
    BY <1>0, <1>5, WireTypes
  <2> HIDE DEF w
  <2>3. Put(w, "p1p0", <<Head(wire["p2p1"])>>) \in WireType /\ Calm(Put(w, "p1p0", <<Head(wire["p2p1"])>>), wire)
    BY <2>1, <2>2, CalmWriteBack
  <2>4. wire' \in WireType /\ Calm(wire', wire)
    BY <1>5, <2>3 DEF w
  <2> QED
    BY <1>2, <1>3, <1>5, <2>4, CalmStep
<1>6. CASE /\ p1' = p1 /\ wire["p0p1"] # <<>> /\ WriteWorks("p1p2")
           /\ wire' = Put(Take(wire, "p0p1"), "p1p2", <<Head(wire["p0p1"])>>)
  BY <1>2, <1>3, <1>6, RelayForward
<1> QED
  BY <1>4, <1>5, <1>6 DEF Relay

\* peer2 reads a message of the build protocol and goes on.
LEMMA Peer2Reads ==
    ASSUME TypeOK, IInv, p2 \in {"IncomingStream", "BuildConnectionToPeerRemote"},
           p2' = "BuildConnectionToPeerRemote",
           wire["p1p2"] # <<>>, Head(wire["p1p2"]) # "ProxyConnection",
           wire'["p0p1"] = wire["p0p1"], wire'["p1p2"] = Tail(wire["p1p2"]),
           internet_addr' = "None" => /\ Len(wire'["p1p2"]) >= 1
                                      /\ wire'["p1p2"][1] \in {"InternetAddressInformation", "Eof", "Reset"},
           UNCHANGED <<p0, p1, result, direct2, passed, broken>>
    PROVE  IInv'
<1>1. wire["p1p2"] \in Seq(Message)
  BY DEF TypeOK, Channels
<1>2. /\ HasSwitch(Tail(wire["p1p2"])) <=> HasSwitch(wire["p1p2"])
      /\ DataAfterSwitch(wire["p1p2"]) => DataAfterSwitch(Tail(wire["p1p2"]))
  BY <1>1, TailMessages
<1>3. /\ HasSwitch(wire'["p1p2"]) <=> HasSwitch(wire["p1p2"])
      /\ DataAfterSwitch(wire["p1p2"]) => DataAfterSwitch(wire'["p1p2"])
  BY <1>2
<1>4. AgreeInv'
  BY <1>3 DEF IInv, AgreeInv, BeforeSwitch
<1>5. AddressInv'
  BY DEF IInv, AddressInv
<1>6. SwitchInv'
  BY <1>3 DEF IInv, SwitchInv, BeforeSwitch
<1> QED
  BY <1>4, <1>5, <1>6 DEF IInv

\* What peer2 and the users write goes back towards peer0.
LEMMA WriteBackOnly ==
    ASSUME NEW w \in WireType, NEW msgs \in Seq(Message)
    PROVE  /\ Put(w, "p2p1", msgs)["p0p1"] = w["p0p1"]
           /\ Put(w, "p2p1", msgs)["p1p2"] = w["p1p2"]
<1>1. "p2p1" \in Channels /\ "p0p1" \in Channels /\ "p1p2" \in Channels
  BY DEF Channels
<1> QED
  BY <1>1, PutMessages, SMT

\* Steps of peer2.
LEMMA Peer2Step ==
    ASSUME TypeOK, IInv,
           \/ Peer2Hello \/ Peer2InternetAddress \/ Peer2ExchangeAddresses
           \/ Peer2ProxyConnection \/ Peer2StreamEnds \/ Peer2DirectHello
    PROVE  IInv'
<1>0. wire \in WireType /\ "p1p2" \in Channels /\ "p0p1" \in Channels /\ wire["p1p2"] \in Seq(Message)
  BY DEF TypeOK, WireType, Channels
<1>1. UNCHANGED <<p0, p1, result, broken>>
  BY DEF Peer2Hello, Peer2InternetAddress, Peer2ExchangeAddresses, Peer2ProxyConnection,
         Peer2StreamEnds, Peer2DirectHello, peer0Vars, peer1Vars
<1>2. <<"Eof">> \in Seq(Message) /\ <<"ExchangeAddressInformation">> \in Seq(Message)
  BY HarmlessMessages DEF Ended, Protocol, Harmless
<1>3. CASE p2 # "none" /\ Peer2Ends /\ UNCHANGED <<direct2, passed, internet_addr>>
  <2>1. wire'["p0p1"] = wire["p0p1"] /\ wire'["p1p2"] = wire["p1p2"]
    BY <1>0, <1>2, <1>3, WriteBackOnly DEF Peer2Ends
  <2> QED
    BY <1>1, <1>3, <2>1, Peer2Over DEF Peer2Ends
<1>4. wire["p1p2"] # <<>> =>
          /\ Take(wire, "p1p2") \in WireType
          /\ Take(wire, "p1p2")["p0p1"] = wire["p0p1"] /\ Take(wire, "p1p2")["p1p2"] = Tail(wire["p1p2"])
          /\ Head(wire["p1p2"]) = wire["p1p2"][1] /\ Len(Tail(wire["p1p2"])) = Len(wire["p1p2"]) - 1
          /\ \A i \in 1 .. (Len(wire["p1p2"]) - 1) : Tail(wire["p1p2"])[i] = wire["p1p2"][i + 1]
          /\ Len(wire["p1p2"]) \in Nat
  <2> SUFFICES ASSUME wire["p1p2"] # <<>>
               PROVE  /\ Take(wire, "p1p2") \in WireType
                      /\ Take(wire, "p1p2")["p0p1"] = wire["p0p1"]
                      /\ Take(wire, "p1p2")["p1p2"] = Tail(wire["p1p2"])
                      /\ Head(wire["p1p2"]) = wire["p1p2"][1]
                      /\ Len(Tail(wire["p1p2"])) = Len(wire["p1p2"]) - 1
                      /\ \A i \in 1 .. (Len(wire["p1p2"]) - 1) : Tail(wire["p1p2"])[i] = wire["p1p2"][i + 1]
                      /\ Len(wire["p1p2"]) \in Nat
    OBVIOUS
  <2>1. Take(wire, "p1p2") \in WireType /\ Take(wire, "p1p2")["p1p2"] = Tail(wire["p1p2"])
    BY <1>0, TakeMessage
  <2>2. Take(wire, "p1p2")["p0p1"] = wire["p0p1"]
    BY <1>0, TakeMessage
  <2>3. /\ Head(wire["p1p2"]) = wire["p1p2"][1]
        /\ Len(Tail(wire["p1p2"])) = Len(wire["p1p2"]) - 1
        /\ \A i \in 1 .. (Len(wire["p1p2"]) - 1) : Tail(wire["p1p2"])[i] = wire["p1p2"][i + 1]
    BY <1>0, TailMessages
  <2>4. Len(wire["p1p2"]) \in Nat
    BY <1>0, SMT
  <2> QED
    BY <2>1, <2>2, <2>3, <2>4
<1>5. CASE Peer2Hello
  <2>1. CASE Receives("p1p2", {"BuildConnectionToPeer"}) /\ p2' = "BuildConnectionToPeerRemote"
             /\ wire' = Take(wire, "p1p2")
    <3>1. wire["p1p2"] # <<>> /\ wire["p1p2"][1] = "BuildConnectionToPeer" /\ p2 = "IncomingStream"
      BY <1>4, <1>5, <2>1 DEF Receives, Peer2Hello
    <3>2. Len(wire["p1p2"]) >= 2 /\ wire["p1p2"][2] \in {"InternetAddressInformation", "Eof"}
      BY <3>1 DEF IInv, AddressInv
    <3>3. wire'["p0p1"] = wire["p0p1"] /\ wire'["p1p2"] = Tail(wire["p1p2"])
      BY <1>4, <2>1, <3>1
    <3>4. Len(wire'["p1p2"]) >= 1 /\ wire'["p1p2"][1] \in {"InternetAddressInformation", "Eof", "Reset"}
      BY <1>4, <3>1, <3>2, <3>3, SMT
    <3>5. UNCHANGED <<direct2, passed>> /\ Head(wire["p1p2"]) # "ProxyConnection"
      BY <1>4, <1>5, <3>1 DEF Peer2Hello
    <3> QED
      BY <1>1, <2>1, <3>1, <3>3, <3>4, <3>5, Peer2Reads
  <2> QED
    BY <1>3, <1>5, <2>1 DEF Peer2Hello
<1>6. CASE Peer2InternetAddress
  <2>1. /\ wire["p1p2"] # <<>> /\ Head(wire["p1p2"]) # "ProxyConnection" /\ wire' = Take(wire, "p1p2")
        /\ p2 = "BuildConnectionToPeerRemote" /\ internet_addr' = "Some" /\ UNCHANGED <<p2, direct2, passed>>
    BY <1>6 DEF Peer2InternetAddress, Receives
  <2> QED
    BY <1>1, <1>4, <2>1, Peer2Reads
<1>7. CASE Peer2ExchangeAddresses
  <2>1. /\ wire["p1p2"] # <<>> /\ wire["p1p2"][1] = "ExchangeAddressInformation"
        /\ p2 = "BuildConnectionToPeerRemote" /\ UNCHANGED <<direct2, internet_addr, passed>>
    BY <1>4, <1>7 DEF Peer2ExchangeAddresses, Receives
  <2>2. internet_addr = "Some"
    BY <2>1 DEF IInv, AddressInv, TypeOK
  <2>3. CASE p2' = p2 /\ wire' = Put(Take(wire, "p1p2"), "p2p1", <<"ExchangeAddressInformation">>)
    <3> DEFINE w == Take(wire, "p1p2")
    <3>1. w \in WireType /\ w["p0p1"] = wire["p0p1"] /\ w["p1p2"] = Tail(wire["p1p2"])
      BY <1>4, <2>1
    <3> HIDE DEF w
    <3>2. /\ Put(w, "p2p1", <<"ExchangeAddressInformation">>)["p0p1"] = w["p0p1"]
          /\ Put(w, "p2p1", <<"ExchangeAddressInformation">>)["p1p2"] = w["p1p2"]
      BY <1>2, <3>1, WriteBackOnly
    <3>3. wire'["p0p1"] = wire["p0p1"] /\ wire'["p1p2"] = Tail(wire["p1p2"])
      BY <2>3, <3>1, <3>2 DEF w
    <3> QED
      BY <1>1, <1>4, <2>1, <2>2, <2>3, <3>3, Peer2Reads
  <2> QED
    BY <1>3, <1>7, <2>1, <2>2, <2>3 DEF Peer2ExchangeAddresses
<1>8. CASE Peer2StreamEnds
  BY <1>3, <1>8 DEF Peer2StreamEnds
<1>9. CASE Peer2ProxyConnection
  <2>1. /\ wire["p1p2"] # <<>> /\ Head(wire["p1p2"]) = "ProxyConnection" /\ wire' = Take(wire, "p1p2")
        /\ p2 = "BuildConnectionToPeerRemote" /\ p2' = "passed" /\ passed' = Append(passed, "proxy")
        /\ UNCHANGED <<direct2, internet_addr>>
    BY <1>9 DEF Peer2ProxyConnection, Receives
  <2>2. HasSwitch(wire["p1p2"]) /\ (HasSwitch(Tail(wire["p1p2"])) => HasSwitch(wire["p1p2"]))
    BY <1>0, <2>1, TailMessages DEF HasSwitch
  <2>3. result = "proxy" /\ direct2 = "none" /\ passed = <<>>
    BY <2>1, <2>2 DEF IInv, AgreeInv, BeforeSwitch
  <2>4. passed' = <<"proxy">> /\ <<"proxy">> # <<"direct">>
    BY <2>1, <2>3, SMT
  <2>5. AgreeInv'
    BY <1>1, <2>1, <2>3, <2>4 DEF IInv, AgreeInv, BeforeSwitch
  <2>6. AddressInv'
    BY <1>1, <2>1 DEF IInv, AddressInv
  <2>7. SwitchInv'
    BY <2>1 DEF SwitchInv, BeforeSwitch
  <2> QED
    BY <2>5, <2>6, <2>7 DEF IInv
<1>10. CASE Peer2DirectHello
  <2>1. /\ direct2 = "IncomingStream" /\ UNCHANGED <<p2, internet_addr, wire>>
        /\ \/ direct2' = "passed" /\ passed' = Append(passed, "direct")
           \/ direct2' = "done" /\ passed' = passed
    BY <1>10 DEF Peer2DirectHello
  <2>2. result = "direct" /\ passed = <<>>
    BY <2>1 DEF IInv, AgreeInv
  <2>3. passed' \in {<<>>, <<"direct">>} /\ <<"proxy">> # <<"direct">> /\ <<>> # <<"proxy">>
    BY <2>1, <2>2, SMT
  <2>4. AgreeInv'
    BY <1>1, <2>1, <2>2, <2>3 DEF IInv, AgreeInv
  <2>5. AddressInv' /\ SwitchInv'
    BY <1>1, <2>1 DEF IInv, AddressInv, SwitchInv
  <2> QED
    BY <2>4, <2>5 DEF IInv
<1> QED
  BY <1>5, <1>6, <1>7, <1>8, <1>9, <1>10

\* Steps of the users of a proxied stream.
LEMMA UserStep ==
    ASSUME TypeOK, IInv, NEW u \in {"peer0", "peer2"},
           (\E d \in Data : UserWrites(u, d)) \/ UserReads(u) \/ UserCloses(u)
    PROVE  IInv'
<1>0. wire \in WireType /\ {"p0p1", "p1p0", "p1p2", "p2p1"} = Channels
      /\ wire["p0p1"] \in Seq(Message) /\ wire["p1p2"] \in Seq(Message)
  BY DEF TypeOK, WireType, Channels
<1>1. Calm(wire, wire)
  BY <1>0, GrownBack DEF Grown, Calm, Channels
<1>2. UNCHANGED <<p1, result, direct2, passed, internet_addr, broken>>
  BY DEF UserWrites, UserReads, UserCloses, peer0Vars, peer1Vars, peer2Vars
<1>3. /\ u = "peer0" => p0 = "ConnectionBuilt" /\ result = "proxy" /\ p2' = p2
      /\ u = "peer2" => p2 = "passed" /\ p0' = p0
  BY DEF UserWrites, UserReads, UserCloses, HasProxied, peer0Vars, peer2Vars
<1>4. Harmless(<<"Eof">>) /\ <<"Eof">> \in Seq(Message)
  BY HarmlessMessages DEF Ended, Harmless
<1>5. ASSUME u = "peer0", p0' \in {"ConnectionBuilt", "Dropped"}, wire' \in WireType, Calm(wire', wire)
      PROVE  IInv'
  BY <1>2, <1>3, <1>5, CalmStep
<1>6. ASSUME u = "peer2", p2' \in {"passed", "done"}, wire'["p0p1"] = wire["p0p1"],
             HasSwitch(wire'["p1p2"]) => HasSwitch(wire["p1p2"])
      PROVE  IInv'
  BY <1>2, <1>3, <1>6, Peer2Over
<1>7. CASE u = "peer0" /\ UserCloses(u)
  <2>1. wire' = Put(wire, "p0p1", <<"Eof">>) /\ p0' = "Dropped"
    BY <1>7 DEF UserCloses, Outgoing
  <2>2. wire' \in WireType /\ Calm(wire', wire)
    BY <1>0, <1>1, <1>4, <2>1, CalmWrite
  <2> QED
    BY <1>5, <1>7, <2>1, <2>2
<1>8. CASE u = "peer0" /\ UserReads(u)
  <2>1. wire["p1p0"] # <<>> /\ wire' = Take(wire, "p1p0") /\ p0' = p0
    BY <1>8 DEF UserReads, Incoming, peer0Vars
  <2>2. wire' \in WireType /\ Calm(wire', wire)
    BY <1>0, <2>1, CalmRead
  <2> QED
    BY <1>3, <1>5, <1>8, <2>1, <2>2
<1>9. CASE u = "peer2" /\ UserCloses(u)
  <2>1. wire' = Put(wire, "p2p1", <<"Eof">>) /\ p2' = "done"
    BY <1>9 DEF UserCloses, Outgoing
  <2>2. wire'["p0p1"] = wire["p0p1"] /\ wire'["p1p2"] = wire["p1p2"]
    BY <1>0, <1>4, <2>1, WriteBackOnly
  <2> QED
    BY <1>6, <1>9, <2>1, <2>2
<1>10. CASE u = "peer2" /\ UserReads(u)
  <2>1. wire["p1p2"] # <<>> /\ wire' = Take(wire, "p1p2") /\ p2' = p2
    BY <1>10 DEF UserReads, Incoming, peer2Vars
  <2>2. wire'["p0p1"] = wire["p0p1"] /\ wire'["p1p2"] = Tail(wire["p1p2"])
    BY <1>0, <2>1, TakeMessage
  <2>3. HasSwitch(Tail(wire["p1p2"])) => HasSwitch(wire["p1p2"])
    BY <1>0, <2>1, TailMessages
  <2> QED
    BY <1>3, <1>6, <1>10, <2>1, <2>2, <2>3
<1>11. ASSUME u = "peer2", NEW d \in Data, UserWrites(u, d) PROVE IInv'
  <2>1. wire' = Put(wire, "p2p1", <<d>>) /\ p2' = p2
    BY <1>11 DEF UserWrites, Outgoing, peer2Vars
  <2>2. <<d>> \in Seq(Message)
    BY <1>0, WireTypes DEF Message
  <2>3. wire'["p0p1"] = wire["p0p1"] /\ wire'["p1p2"] = wire["p1p2"]
    BY <1>0, <2>1, <2>2, WriteBackOnly
  <2> QED
    BY <1>3, <1>6, <1>11, <2>1, <2>3
<1>12. ASSUME u = "peer0", NEW d \in Data, UserWrites(u, d) PROVE IInv'
  <2>1. wire' = Put(wire, "p0p1", <<d>>) /\ p0' = p0 /\ "s01" \notin broken
    BY <1>12 DEF UserWrites, Outgoing, WriteWorks, StreamOf, peer0Vars
  <2>2. <<d>> \in Seq(Message) /\ ~HasSwitch(<<d>>)
    BY WrittenMessages, DataAssumption DEF Message, Protocol
  <2>3. wire'["p0p1"] = wire["p0p1"] \o <<d>> /\ wire'["p1p2"] = wire["p1p2"]
    BY <1>0, <2>1, <2>2, PutMessages, ZenonT(30) DEF StreamOf
  <2>4. /\ HasSwitch(wire["p0p1"] \o <<d>>) <=> HasSwitch(wire["p0p1"])
        /\ DataAfterSwitch(wire["p0p1"]) /\ HasSwitch(wire["p0p1"]) => DataAfterSwitch(wire["p0p1"] \o <<d>>)
    BY <1>0, <2>2, ConcatMessages
  <2>5. /\ HasSwitch(wire'["p0p1"]) <=> HasSwitch(wire["p0p1"])
        /\ DataAfterSwitch(wire["p0p1"]) /\ HasSwitch(wire["p0p1"]) => DataAfterSwitch(wire'["p0p1"])
    BY <2>3, <2>4
  <2>6. AgreeInv'
    BY <1>2, <1>3, <1>12, <2>1, <2>3, <2>5 DEF IInv, AgreeInv
  <2>7. AddressInv'
    BY <1>2, <1>3, <1>12, <2>1, <2>3 DEF IInv, AddressInv
  <2>8. SwitchInv'
    BY <1>2, <1>3, <1>12, <2>1, <2>3, <2>5 DEF IInv, SwitchInv
  <2> QED
    BY <2>6, <2>7, <2>8 DEF IInv
<1> QED
  BY <1>7, <1>8, <1>9, <1>10, <1>11, <1>12

\* A lost stream carries nothing but the error its ends read.
LEMMA BreaksStep ==
    ASSUME TypeOK, IInv, NEW s \in {"s01", "s12"}, Breaks(s) PROVE IInv'
<1>1. UNCHANGED <<p0, p1, p2, result, direct2, passed, internet_addr>> /\ broken' = broken \cup {s}
  BY DEF Breaks, peer0Vars, peer1Vars, peer2Vars
<1>2. Harmless(<<"Reset">>)
  BY HarmlessMessages DEF Ended
<1>3. ~HasSwitch(<<"Reset">>) /\ DataAfterSwitch(<<"Reset">>) /\ Len(<<"Reset">>) = 1 /\ <<"Reset">>[1] = "Reset"
  BY <1>2 DEF Harmless
<1>4. CASE s = "s01"
  <2>1. wire'["p0p1"] = <<"Reset">> /\ wire'["p1p2"] = wire["p1p2"] /\ ("s12" \in broken' <=> "s12" \in broken)
    BY <1>1, <1>4 DEF Breaks, Channels, StreamOf
  <2>2. ~HasSwitch(wire'["p0p1"]) /\ DataAfterSwitch(wire'["p0p1"]) /\ "s01" \in broken'
    BY <1>1, <1>3, <1>4, <2>1
  <2>3. AgreeInv'
    BY <1>1, <2>1, <2>2 DEF IInv, AgreeInv
  <2>4. AddressInv'
    BY <1>1, <2>1 DEF IInv, AddressInv
  <2>5. SwitchInv'
    BY <1>1, <2>1, <2>2 DEF IInv, SwitchInv
  <2> QED
    BY <2>3, <2>4, <2>5 DEF IInv
<1>5. CASE s = "s12"
  <2>1. wire'["p1p2"] = <<"Reset">> /\ wire'["p0p1"] = wire["p0p1"] /\ p2 # "none"
    BY <1>5 DEF Breaks, Channels, StreamOf
  <2>2. /\ ~HasSwitch(wire'["p1p2"]) /\ DataAfterSwitch(wire'["p1p2"]) /\ "s12" \in broken'
        /\ Len(wire'["p1p2"]) = 1 /\ wire'["p1p2"][1] = "Reset"
    BY <1>1, <1>3, <1>5, <2>1
  <2>3. AgreeInv'
    BY <1>1, <2>1, <2>2 DEF IInv, AgreeInv
  <2>4. AddressInv'
    <3>1. /\ p1 \notin {"none", "IncomingStream", "OpeningStream"} /\ p2 # "panicked"
          /\ p0 # "WaitingForProxyStream"
      BY <2>1 DEF IInv, AddressInv
    <3>2. p2' = p2 /\ p1' = p1 /\ p0' = p0
      BY <1>1
    <3> QED
      BY <2>1, <2>2, <3>1, <3>2, SMT DEF AddressInv
  <2>5. SwitchInv'
    BY <1>1, <2>2 DEF SwitchInv
  <2> QED
    BY <2>3, <2>4, <2>5 DEF IInv
<1> QED
  BY <1>4, <1>5

-----------------------------------------------------------------------------
(* Theorems *)

\* Types and invariant hold in every reachable state.
LEMMA InvariantHolds == Spec => [](TypeOK /\ IInv)
<1>1. Init => TypeOK /\ IInv
  <2> SUFFICES ASSUME Init PROVE TypeOK /\ IInv
    OBVIOUS
  <2>1. \A S : <<>> \in Seq(S)
    BY SMT
  <2>2. TypeOK
    BY <2>1 DEF Init, TypeOK
  <2>3. wire["p0p1"] = <<>> /\ wire["p1p2"] = <<>>
    BY DEF Init, Channels
  <2>4. ~HasSwitch(<<>>) /\ DataAfterSwitch(<<>>)
    BY SMT DEF HasSwitch, DataAfterSwitch
  <2>5. AgreeInv /\ AddressInv /\ SwitchInv
    BY <2>3, <2>4 DEF Init, AgreeInv, AddressInv, SwitchInv
  <2> QED
    BY <2>2, <2>5 DEF IInv
<1>2. TypeOK /\ IInv /\ [Next]_vars => (TypeOK /\ IInv)'
  <2> SUFFICES ASSUME TypeOK, IInv, [Next]_vars PROVE IInv'
    BY TypeStep
  <2>1. CASE ConnectionTimeout \/ StreamError \/ \E a \in Candidates : ConnectionError(a)
    BY <2>1, ProxyStreamStep DEF ConnectionTimeout, StreamError, ConnectionError, peer1Vars, peer2Vars
  <2>2. CASE UNCHANGED vars
    <3>1. AgreeInv'
      BY <2>2 DEF vars, IInv, AgreeInv
    <3>2. AddressInv'
      BY <2>2 DEF vars, IInv, AddressInv
    <3>3. SwitchInv'
      BY <2>2 DEF vars, IInv, SwitchInv
    <3> QED
      BY <3>1, <3>2, <3>3 DEF IInv
  <2> QED
    BY <2>1, <2>2, Peer0Step, StreamReadyStep, Peer1Step, RelayStep, Peer2Step, UserStep, BreaksStep DEF Next
<1> QED
  BY <1>1, <1>2, PTL DEF Spec

\* Every variable keeps its type.
THEOREM TypeCorrect == Spec => []TypeOK
BY InvariantHolds, PTL

\* InternetAddressSet: the `expect` of BuildConnectionToPeerRemote holds.
THEOREM AddressIsKnown == Spec => []InternetAddressSet
<1>1. IInv => InternetAddressSet
  BY DEF IInv, AddressInv, InternetAddressSet
<1> QED
  BY <1>1, InvariantHolds, PTL

\* PeersAgreeOnStream: whatever timeouts, failing attempts and losses do, peer2
\* gets at most one stream, of the kind peer0 got.
THEOREM StreamsAgree == Spec => []PeersAgreeOnStream
<1>1. IInv => PeersAgreeOnStream
  <2> SUFFICES ASSUME AgreeInv PROVE PeersAgreeOnStream
    BY DEF IInv
  <2>1. CASE passed = <<>>
    BY <2>1, SMT DEF PeersAgreeOnStream
  <2>2. CASE passed = <<"direct">> /\ result = "direct"
    BY <2>2, SMT DEF PeersAgreeOnStream
  <2>3. CASE passed = <<"proxy">> /\ result = "proxy"
    BY <2>3, SMT DEF PeersAgreeOnStream
  <2> QED
    BY <2>1, <2>2, <2>3 DEF AgreeInv
<1> QED
  BY <1>1, InvariantHolds, PTL

\* DataFollowsSwitch: BuildConnectionToPeerRemote never reads data of the user.
THEOREM DataIsNoProtocol == Spec => []DataFollowsSwitch
<1>1. IInv => DataFollowsSwitch
  BY DEF IInv, SwitchInv, DataAfterSwitch, DataFollowsSwitch, BeforeSwitch
<1> QED
  BY <1>1, InvariantHolds, PTL

-----------------------------------------------------------------------------
(* Sequences of messages *)

\* Concatenation and the sequence of one item, as names of their own: their
\* definitions are only needed for the laws that follow.
Cat(s, t) == s \o t
One(x) == <<x>>

\* Sequences with the same items are equal.
LEMMA SeqEqual ==
    ASSUME NEW S, NEW a \in Seq(S), NEW b \in Seq(S), Len(a) = Len(b), \A i \in 1..Len(a) : a[i] = b[i]
    PROVE  a = b
  BY SMT

\* Concatenation is associative, has a unit and can be cancelled.
LEMMA CatLaws ==
    ASSUME NEW S, NEW a \in Seq(S), NEW b \in Seq(S), NEW c \in Seq(S)
    PROVE  /\ Cat(a, b) \in Seq(S)
           /\ Cat(Cat(a, b), c) = Cat(a, Cat(b, c))
           /\ Cat(a, b) = Cat(a, c) => b = c
<1>1. a \o b \in Seq(S)
  BY SMT
<1>2. (a \o b) \o c = a \o (b \o c)
  BY SMT
<1>3. a \o b = a \o c => b = c
  <2> SUFFICES ASSUME a \o b = a \o c PROVE b = c
    OBVIOUS
  <2>1. Len(a \o b) = Len(a) + Len(b) /\ Len(a \o c) = Len(a) + Len(c)
    BY SMT
  <2>2. \A i \in 1..Len(b) : (a \o b)[Len(a) + i] = b[i]
    BY SMT
  <2>3. \A i \in 1..Len(c) : (a \o c)[Len(a) + i] = c[i]
    BY SMT
  <2>4. Len(b) = Len(c)
    BY <2>1, SMT
  <2>5. \A i \in 1..Len(b) : b[i] = c[i]
    BY <2>2, <2>3, <2>4
  <2> QED
    BY <2>4, <2>5, SeqEqual
<1>4. Cat(a, b) \in Seq(S)
  BY <1>1 DEF Cat
<1>5. Cat(Cat(a, b), c) = Cat(a, Cat(b, c))
  BY <1>2 DEF Cat
<1>6. Cat(a, b) = Cat(a, c) => b = c
  BY <1>3 DEF Cat
<1> QED
  BY <1>4, <1>5, <1>6

\* The empty sequence is the unit of concatenation.
LEMMA EmptyLaws ==
    ASSUME NEW S, NEW a \in Seq(S)
    PROVE  <<>> \in Seq(S) /\ Cat(a, <<>>) = a /\ Cat(<<>>, a) = a
  BY SMT DEF Cat

\* A message is a sequence of one message.
LEMMA OneItem == ASSUME NEW S, NEW x \in S PROVE One(x) \in Seq(S)
  BY SMT DEF One

\* One message in front of others.
LEMMA FirstLaws ==
    ASSUME NEW S, NEW x \in S, NEW a \in Seq(S)
    PROVE  /\ One(x) \in Seq(S) /\ Cat(One(x), a) \in Seq(S) /\ Cat(One(x), a) # <<>>
           /\ Head(Cat(One(x), a)) = x /\ Tail(Cat(One(x), a)) = a
<1>1. <<x>> \in Seq(S) /\ <<x>> \o a \in Seq(S) /\ <<x>> \o a # <<>>
  BY SMT
<1>2. Head(<<x>> \o a) = x
  BY SMT
<1>3. Tail(<<x>> \o a) = a
  BY SMT
<1> QED
  BY <1>1, <1>2, <1>3 DEF Cat, One

\* A sequence that is not empty has a first message.
LEMMA Cons ==
    ASSUME NEW S, NEW s \in Seq(S), s # <<>>
    PROVE  Head(s) \in S /\ Tail(s) \in Seq(S) /\ s = Cat(One(Head(s)), Tail(s))
<1>1. Head(s) \in S /\ Tail(s) \in Seq(S)
  BY SMT
<1>2. s = <<Head(s)>> \o Tail(s)
  BY SMT
<1> QED
  BY <1>1, <1>2 DEF Cat, One

\* Messages of S are so in every part.
LEMMA Parts ==
    ASSUME NEW S, NEW T, S \subseteq T, NEW a \in Seq(T), NEW b \in Seq(T), Cat(a, b) \in Seq(S)
    PROVE  a \in Seq(S) /\ b \in Seq(S)
<1>1. a \o b \in Seq(S)
  BY DEF Cat
<1>2. Len(a \o b) = Len(a) + Len(b)
  BY SMT
<1>3. \A i \in 1..Len(a) : i \in 1..Len(a \o b) /\ (a \o b)[i] = a[i]
  BY <1>2, SMT
<1>4. \A i \in 1..Len(b) : Len(a) + i \in 1..Len(a \o b) /\ (a \o b)[Len(a) + i] = b[i]
  BY <1>2, SMT
<1>5. \A i \in 1..Len(a \o b) : (a \o b)[i] \in S
  BY <1>1, SMT
<1>6. \A i \in 1..Len(a) : a[i] \in S
  BY <1>3, <1>5
<1>7. \A i \in 1..Len(b) : b[i] \in S
  BY <1>4, <1>5
<1>8. a \in Seq(S)
  BY <1>6, SMT
<1>9. b \in Seq(S)
  BY <1>7, SMT
<1> QED
  BY <1>8, <1>9

\* A sequence over S is one over any larger set.
LEMMA Wider == ASSUME NEW S, NEW T, S \subseteq T, NEW s \in Seq(S) PROVE s \in Seq(T)
  BY SMT

\* A sequence over two sets is one over what they share.
LEMMA Both == ASSUME NEW S, NEW T, NEW s \in Seq(S), s \in Seq(T) PROVE s \in Seq(S \cap T)
  BY SMT
\* Equal sequences have the same first item and the same rest.
LEMMA ConsCancel ==
    ASSUME NEW S, NEW x \in S, NEW y \in S, NEW a \in Seq(S), NEW b \in Seq(S),
           Cat(One(x), a) = Cat(One(y), b)
    PROVE  x = y /\ a = b
<1>1. Head(Cat(One(x), a)) = x /\ Tail(Cat(One(x), a)) = a
  BY FirstLaws
<1>2. Head(Cat(One(y), b)) = y /\ Tail(Cat(One(y), b)) = b
  BY FirstLaws
<1> QED
  BY <1>1, <1>2

-----------------------------------------------------------------------------
(* What a proxied stream carries *)

Msgs == Seq(Message)
Clear(s) == s \in Seq(Message \ Ended)
Without(x, s) == s \in Seq(Message \ {x})

\* Nothing is read of t: it is empty, or the stream ends in front of it.
Closed(t) == t = <<>> \/ Head(t) \in Ended

\* hd followed by s is what was read, g, and what is still to come on down and
\* up, which the relay joins.
Whole(g, hd, s, down, up) ==
    \E m, e \in Msgs : up = Cat(m, e) /\ Closed(e) /\ Cat(g, Cat(down, m)) = Cat(hd, s)

\* g and what can be read of down are the beginning of hd followed by s.
Beginning(g, hd, s, down) ==
    \E k, t, m \in Msgs : down = Cat(k, t) /\ Closed(t) /\ Cat(g, Cat(k, m)) = Cat(hd, s)

\* What cannot be read stays so when the stream ends behind it.
LEMMA ClosedLaws ==
    ASSUME NEW t \in Msgs, Closed(t), NEW x \in Ended
    PROVE  Closed(<<>>) /\ Closed(One(x)) /\ Closed(Cat(t, One(x)))
<1>0. x \in Message
  BY DEF Message, Ended
<1>1. One(x) \in Msgs /\ <<>> \in Msgs /\ Cat(One(x), <<>>) = One(x) /\ Cat(<<>>, One(x)) = One(x)
  BY <1>0, FirstLaws, EmptyLaws DEF Msgs
<1>2. Head(Cat(One(x), <<>>)) = x
  BY <1>0, <1>1, FirstLaws DEF Msgs
<1>3. Closed(<<>>) /\ Closed(One(x))
  BY <1>1, <1>2 DEF Closed
<1>4. CASE t = <<>>
  BY <1>1, <1>3, <1>4
<1>5. CASE t # <<>>
  <2>1. Head(t) \in Message /\ Tail(t) \in Msgs /\ t = Cat(One(Head(t)), Tail(t))
    BY <1>5, Cons DEF Msgs
  <2> DEFINE h == Head(t)
             r == Tail(t)
  <2> HIDE DEF h, r
  <2>2. h \in Message /\ r \in Msgs /\ t = Cat(One(h), r)
    BY <2>1 DEF h, r
  <2>3. One(h) \in Msgs
    BY <2>2, FirstLaws DEF Msgs
  <2>4. Cat(t, One(x)) = Cat(One(h), Cat(r, One(x))) /\ Cat(r, One(x)) \in Msgs
    BY <1>1, <2>2, <2>3, CatLaws, SMT DEF Msgs
  <2>5. Head(Cat(One(h), Cat(r, One(x)))) = h
    BY <2>2, <2>4, FirstLaws DEF Msgs
  <2>6. h \in Ended
    BY <1>5 DEF Closed, h
  <2>7. Closed(Cat(t, One(x)))
    BY <2>4, <2>5, <2>6 DEF Closed
  <2> QED
    BY <1>3, <2>7
<1> QED
  BY <1>4, <1>5

\* A message that does not end the stream is not behind its end.
LEMMA OpenFirst ==
    ASSUME NEW a \in Msgs, NEW b \in Msgs, NEW r \in Msgs, NEW x \in Message, x \notin Ended,
           Cat(a, b) = Cat(One(x), r), Closed(b)
    PROVE  \E c \in Msgs : a = Cat(One(x), c) /\ r = Cat(c, b)
<1>1. CASE a = <<>>
  <2>1. Cat(a, b) = b
    BY <1>1, EmptyLaws DEF Msgs
  <2>2. Cat(One(x), r) # <<>> /\ Head(Cat(One(x), r)) = x
    BY FirstLaws DEF Msgs
  <2> QED
    BY <2>1, <2>2 DEF Closed
<1>2. CASE a # <<>>
  <2>0. Head(a) \in Message /\ Tail(a) \in Msgs /\ a = Cat(One(Head(a)), Tail(a))
    BY <1>2, Cons DEF Msgs
  <2>1. PICK y \in Message, c \in Msgs : a = Cat(One(y), c)
    BY <2>0
  <2>2. One(y) \in Msgs
    BY FirstLaws DEF Msgs
  <2>3. Cat(a, b) = Cat(One(y), Cat(c, b)) /\ Cat(c, b) \in Msgs
    BY <2>1, <2>2, CatLaws, SMT DEF Msgs
  <2> DEFINE v == Cat(c, b)
  <2> HIDE DEF v
  <2>4. v \in Msgs /\ Cat(One(y), v) = Cat(One(x), r)
    BY <2>3 DEF v
  <2>5. y = x /\ v = r
    BY <2>4, ConsCancel, SMT DEF Msgs
  <2> QED
    BY <2>1, <2>5 DEF v
<1> QED
  BY <1>1, <1>2

\* Where no end is and nothing can be read, there is nothing.
LEMMA ClearClosed ==
    ASSUME NEW t, Clear(t), Closed(t) PROVE t = <<>>
<1> SUFFICES ASSUME t # <<>> PROVE FALSE
  OBVIOUS
<1>1. Head(t) \in Message \ Ended
  BY Cons DEF Clear
<1> QED
  BY <1>1 DEF Closed

\* The relay ends: what is on down remains readable.
LEMMA WholeBegins ==
    ASSUME NEW g, NEW hd, NEW s, NEW down \in Msgs, NEW up, Whole(g, hd, s, down, up)
    PROVE  Beginning(g, hd, s, down)
<1>1. PICK m \in Msgs : Cat(g, Cat(down, m)) = Cat(hd, s)
  BY DEF Whole
<1>2. <<>> \in Msgs /\ down = Cat(down, <<>>)
  BY EmptyLaws DEF Msgs
<1>3. Closed(<<>>)
  BY DEF Closed
<1> QED
  BY <1>1, <1>2, <1>3 DEF Beginning

\* Only ends of streams are there: nothing is carried yet.
LEMMA OnlyEnds ==
    ASSUME NEW s \in Seq(Ended) PROVE Closed(s) /\ s \in Msgs /\ (Clear(s) => s = <<>>)
<1>1. s # <<>> => Head(s) \in Ended
  BY Cons
<1>2. Closed(s)
  BY <1>1 DEF Closed
<1>3. Ended \subseteq Message
  BY DEF Ended, Message
<1>4. s \in Msgs
  BY <1>3, Wider DEF Msgs
<1>5. Clear(s) => s = <<>>
  BY <1>2, ClearClosed
<1> QED
  BY <1>2, <1>4, <1>5

\* Nothing was written, and nothing is on its way.
LEMMA NothingYet ==
    ASSUME NEW down \in Seq(Ended), NEW up \in Seq(Ended)
    PROVE  /\ Clear(down) => Whole(<<>>, <<>>, <<>>, down, up)
           /\ Beginning(<<>>, <<>>, <<>>, down)
<1> DEFINE z == <<>>
<1>1. z \in Msgs /\ \A s \in Msgs : Cat(z, s) = s
  BY EmptyLaws, SMT DEF Msgs
<1> HIDE DEF z
<1>2. down \in Msgs /\ up \in Msgs /\ Closed(down) /\ Closed(up) /\ (Clear(down) => down = z)
  BY OnlyEnds DEF z
<1>3. Cat(z, Cat(z, z)) = Cat(z, z) /\ up = Cat(z, up) /\ down = Cat(z, down)
  BY <1>1, <1>2
<1>4. Clear(down) => Whole(z, z, z, down, up)
  BY <1>1, <1>2, <1>3 DEF Whole
<1>5. Beginning(z, z, z, down)
  BY <1>1, <1>2, <1>3 DEF Beginning
<1> QED
  BY <1>4, <1>5 DEF z

\* x is written behind all there is.
LEMMA WholeFromHere ==
    ASSUME NEW down \in Msgs, NEW up \in Msgs, NEW x \in Message
    PROVE  Whole(<<>>, Cat(Cat(down, up), One(x)), <<>>, down, Cat(up, One(x)))
<1> DEFINE z == <<>>
           o == One(x)
<1>1. z \in Msgs /\ o \in Msgs /\ \A s \in Msgs : Cat(z, s) = s /\ Cat(s, z) = s
  BY EmptyLaws, FirstLaws DEF Msgs
<1>2. Closed(z)
  BY DEF Closed
<1> HIDE DEF z, o
<1>3. /\ Cat(up, o) \in Msgs /\ Cat(down, up) \in Msgs /\ Cat(Cat(down, up), o) \in Msgs
      /\ Cat(down, Cat(up, o)) \in Msgs /\ Cat(Cat(down, up), o) = Cat(down, Cat(up, o))
  <2>1. Cat(up, o) \in Msgs /\ Cat(down, up) \in Msgs
    BY <1>1, CatLaws DEF Msgs
  <2>2. Cat(Cat(down, up), o) = Cat(down, Cat(up, o))
    BY <1>1, CatLaws, SMT DEF Msgs
  <2>3. Cat(down, Cat(up, o)) \in Msgs
    BY <1>1, <2>1, CatLaws DEF Msgs
  <2> QED
    BY <2>1, <2>2, <2>3
<1>4. Cat(z, Cat(down, Cat(up, o))) = Cat(Cat(Cat(down, up), o), z) /\ Cat(up, o) = Cat(Cat(up, o), z)
  BY <1>1, <1>3
<1>5. Whole(z, Cat(Cat(down, up), o), z, down, Cat(up, o))
  BY <1>1, <1>2, <1>3, <1>4 DEF Whole
<1> QED
  BY <1>5 DEF z, o

\* The writer writes x.
LEMMA WholeWrite ==
    ASSUME NEW g \in Msgs, NEW hd \in Msgs, NEW s \in Msgs, NEW down \in Msgs, NEW up,
           NEW x \in Message, Clear(up), Whole(g, hd, s, down, up)
    PROVE  Whole(g, hd, Cat(s, One(x)), down, Cat(up, One(x)))
<1> DEFINE o == One(x)
<1>1. o \in Msgs
  BY FirstLaws DEF Msgs
<1> HIDE DEF o
<1>2. PICK m \in Msgs, e \in Msgs : up = Cat(m, e) /\ Closed(e) /\ Cat(g, Cat(down, m)) = Cat(hd, s)
  BY DEF Whole
<1>3. Message \ Ended \subseteq Message /\ Cat(m, e) \in Seq(Message \ Ended)
  BY <1>2 DEF Clear
<1>4. e \in Seq(Message \ Ended)
  BY <1>3, Parts DEF Msgs
<1>5. e = <<>>
  BY <1>2, <1>4, ClearClosed DEF Clear
<1>6. up = m
  BY <1>2, <1>5, EmptyLaws DEF Msgs
<1>7. Cat(m, o) \in Msgs /\ <<>> \in Msgs /\ Closed(<<>>)
  BY <1>1, CatLaws, EmptyLaws DEF Msgs, Closed
<1>8. Cat(up, o) = Cat(Cat(m, o), <<>>)
  BY <1>6, <1>7, EmptyLaws DEF Msgs
<1>9. Cat(g, Cat(down, Cat(m, o))) = Cat(hd, Cat(s, o))
  <2>1. Cat(down, Cat(m, o)) = Cat(Cat(down, m), o) /\ Cat(down, m) \in Msgs
    BY <1>1, CatLaws, SMT DEF Msgs
  <2>2. Cat(g, Cat(Cat(down, m), o)) = Cat(Cat(g, Cat(down, m)), o)
    BY <1>1, <2>1, CatLaws, SMT DEF Msgs
  <2>3. Cat(hd, Cat(s, o)) = Cat(Cat(hd, s), o)
    BY <1>1, CatLaws, SMT DEF Msgs
  <2> QED
    BY <1>2, <2>1, <2>2, <2>3
<1>10. Whole(g, hd, Cat(s, o), down, Cat(up, o))
  BY <1>7, <1>8, <1>9 DEF Whole
<1> QED
  BY <1>10 DEF o

\* A beginning remains one when more is written.
LEMMA BeginningWrite ==
    ASSUME NEW g \in Msgs, NEW hd \in Msgs, NEW s \in Msgs, NEW down, NEW x \in Message,
           Beginning(g, hd, s, down)
    PROVE  Beginning(g, hd, Cat(s, One(x)), down)
<1> DEFINE o == One(x)
<1>1. o \in Msgs
  BY FirstLaws DEF Msgs
<1> HIDE DEF o
<1>2. PICK k \in Msgs, t \in Msgs, m \in Msgs :
          down = Cat(k, t) /\ Closed(t) /\ Cat(g, Cat(k, m)) = Cat(hd, s)
  BY DEF Beginning
<1>3. Cat(m, o) \in Msgs /\ Cat(k, m) \in Msgs
  BY <1>1, CatLaws DEF Msgs
<1>4. Cat(g, Cat(k, Cat(m, o))) = Cat(hd, Cat(s, o))
  <2>1. Cat(k, Cat(m, o)) = Cat(Cat(k, m), o)
    BY <1>1, CatLaws, SMT DEF Msgs
  <2>2. Cat(g, Cat(Cat(k, m), o)) = Cat(Cat(g, Cat(k, m)), o)
    BY <1>1, <1>3, CatLaws, SMT DEF Msgs
  <2>3. Cat(hd, Cat(s, o)) = Cat(Cat(hd, s), o)
    BY <1>1, CatLaws, SMT DEF Msgs
  <2> QED
    BY <1>2, <2>1, <2>2, <2>3
<1>5. Beginning(g, hd, Cat(s, o), down)
  BY <1>2, <1>3, <1>4 DEF Beginning
<1> QED
  BY <1>5 DEF o

\* The relay forwards x.
LEMMA WholeForward ==
    ASSUME NEW g, NEW hd, NEW s, NEW down \in Msgs, NEW up \in Msgs, NEW x \in Message, x \notin Ended,
           Whole(g, hd, s, down, Cat(One(x), up))
    PROVE  Whole(g, hd, s, Cat(down, One(x)), up)
<1> DEFINE o == One(x)
<1>1. o \in Msgs
  BY FirstLaws DEF Msgs
<1>2. PICK m \in Msgs, e \in Msgs : /\ Cat(m, e) = Cat(One(x), up) /\ Closed(e)
                                    /\ Cat(g, Cat(down, m)) = Cat(hd, s)
  BY DEF Whole
<1>3. PICK c \in Msgs : m = Cat(One(x), c) /\ up = Cat(c, e)
  BY <1>2, OpenFirst, SMT
<1> HIDE DEF o
<1>4. Cat(down, Cat(o, c)) = Cat(Cat(down, o), c)
  BY <1>1, CatLaws, SMT DEF Msgs
<1>5. Cat(g, Cat(Cat(down, o), c)) = Cat(hd, s)
  BY <1>2, <1>3, <1>4 DEF o
<1>6. Whole(g, hd, s, Cat(down, o), up)
  BY <1>2, <1>3, <1>5 DEF Whole
<1> QED
  BY <1>6 DEF o

\* down ends, or breaks; up ends.
LEMMA BeginningEnds ==
    ASSUME NEW g, NEW hd, NEW s, NEW down, NEW x \in Ended, Beginning(g, hd, s, down)
    PROVE  Beginning(g, hd, s, Cat(down, One(x))) /\ Beginning(g, hd, s, One(x))
<1> DEFINE o == One(x)
           z == <<>>
<1>0. x \in Message
  BY DEF Ended, Message
<1>1. o \in Msgs /\ z \in Msgs /\ o = Cat(z, o)
  BY <1>0, OneItem, EmptyLaws DEF Msgs
<1>2. PICK k \in Msgs, t \in Msgs, m \in Msgs :
          down = Cat(k, t) /\ Closed(t) /\ Cat(g, Cat(k, m)) = Cat(hd, s)
  BY DEF Beginning
<1>3. Closed(o) /\ Closed(Cat(t, o))
  BY <1>2, ClosedLaws
<1> HIDE DEF o, z
<1>4. Cat(Cat(k, t), o) = Cat(k, Cat(t, o)) /\ Cat(t, o) \in Msgs
  BY <1>1, CatLaws, SMT DEF Msgs
<1>5. Beginning(g, hd, s, Cat(down, o))
  BY <1>2, <1>3, <1>4 DEF Beginning
<1>6. Cat(k, m) \in Msgs
  BY CatLaws DEF Msgs
<1>7. Cat(z, Cat(k, m)) = Cat(k, m)
  BY <1>6, EmptyLaws DEF Msgs, z
<1>8. Beginning(g, hd, s, o)
  BY <1>1, <1>2, <1>3, <1>6, <1>7 DEF Beginning
<1> QED
  BY <1>5, <1>8 DEF o

\* The end of a stream behind its messages takes nothing away.
LEMMA WholeEnds ==
    ASSUME NEW g, NEW hd, NEW s, NEW down, NEW up, NEW x \in Ended, Whole(g, hd, s, down, up)
    PROVE  Whole(g, hd, s, down, Cat(up, One(x)))
<1> DEFINE o == One(x)
<1>0. x \in Message
  BY DEF Ended, Message
<1>1. o \in Msgs
  BY <1>0, OneItem DEF Msgs
<1>2. PICK m \in Msgs, e \in Msgs : up = Cat(m, e) /\ Closed(e) /\ Cat(g, Cat(down, m)) = Cat(hd, s)
  BY DEF Whole
<1>3. Closed(Cat(e, o))
  BY <1>2, ClosedLaws
<1> HIDE DEF o
<1>4. Cat(Cat(m, e), o) = Cat(m, Cat(e, o)) /\ Cat(e, o) \in Msgs
  BY <1>1, CatLaws, SMT DEF Msgs
<1>5. Whole(g, hd, s, down, Cat(up, o))
  BY <1>2, <1>3, <1>4 DEF Whole
<1> QED
  BY <1>5 DEF o

\* The reader takes x.
LEMMA WholeRead ==
    ASSUME NEW g \in Msgs, NEW s, NEW down \in Msgs, NEW up, NEW x \in Message,
           Whole(g, <<>>, s, Cat(One(x), down), up)
    PROVE  Whole(Cat(g, One(x)), <<>>, s, down, up)
<1> DEFINE o == One(x)
<1>1. o \in Msgs
  BY FirstLaws DEF Msgs
<1>2. PICK m \in Msgs, e \in Msgs : /\ up = Cat(m, e) /\ Closed(e)
                                    /\ Cat(g, Cat(Cat(o, down), m)) = Cat(<<>>, s)
  BY DEF Whole
<1> HIDE DEF o
<1>3. Cat(Cat(o, down), m) = Cat(o, Cat(down, m)) /\ Cat(down, m) \in Msgs
  BY <1>1, CatLaws, SMT DEF Msgs
<1>4. Cat(g, Cat(o, Cat(down, m))) = Cat(Cat(g, o), Cat(down, m))
  BY <1>1, <1>3, CatLaws, SMT DEF Msgs
<1>5. Whole(Cat(g, o), <<>>, s, down, up)
  BY <1>2, <1>3, <1>4 DEF Whole
<1> QED
  BY <1>5 DEF o

\* The same when the streams are no longer joined.
LEMMA BeginningRead ==
    ASSUME NEW g \in Msgs, NEW s, NEW down \in Msgs, NEW x \in Message, x \notin Ended,
           Beginning(g, <<>>, s, Cat(One(x), down))
    PROVE  Beginning(Cat(g, One(x)), <<>>, s, down)
<1> DEFINE o == One(x)
<1>1. o \in Msgs
  BY FirstLaws DEF Msgs
<1>2. PICK k \in Msgs, t \in Msgs, m \in Msgs :
          Cat(k, t) = Cat(One(x), down) /\ Closed(t) /\ Cat(g, Cat(k, m)) = Cat(<<>>, s)
  BY DEF Beginning
<1>3. PICK c \in Msgs : k = Cat(One(x), c) /\ down = Cat(c, t)
  BY <1>2, OpenFirst, SMT
<1> HIDE DEF o
<1>4. Cat(Cat(o, c), m) = Cat(o, Cat(c, m)) /\ Cat(c, m) \in Msgs
  BY <1>1, CatLaws, SMT DEF Msgs
<1>5. Cat(g, Cat(o, Cat(c, m))) = Cat(Cat(g, o), Cat(c, m))
  BY <1>1, <1>4, CatLaws, SMT DEF Msgs
<1>6. Cat(Cat(g, o), Cat(c, m)) = Cat(<<>>, s)
  BY <1>2, <1>3, <1>4, <1>5 DEF o
<1>7. Beginning(Cat(g, o), <<>>, s, down)
  BY <1>2, <1>3, <1>6 DEF Beginning
<1> QED
  BY <1>7 DEF o

\* What was read is a beginning of what was written.
LEMMA ReadIsPrefix ==
    ASSUME NEW g \in Msgs, NEW s \in Msgs, NEW down, Beginning(g, <<>>, s, down)
    PROVE  \E r \in Msgs : Cat(g, r) = s
<1>1. PICK k \in Msgs, m \in Msgs : Cat(g, Cat(k, m)) = Cat(<<>>, s)
  BY DEF Beginning
<1>2. Cat(<<>>, s) = s
  BY EmptyLaws DEF Msgs
<1>3. Cat(k, m) \in Msgs
  BY CatLaws DEF Msgs
<1> QED
  BY <1>1, <1>2, <1>3

\* x comes before what is in front of ProxyConnection, or is it.
LEMMA SwitchFirst ==
    ASSUME NEW q, Without("ProxyConnection", q), NEW s \in Msgs, NEW v \in Msgs, NEW x \in Message,
           Cat(One(x), v) = Cat(Cat(q, One("ProxyConnection")), s)
    PROVE  /\ x = "ProxyConnection" => v = s
           /\ x # "ProxyConnection" =>
                  \E r : Without("ProxyConnection", r) /\ v = Cat(Cat(r, One("ProxyConnection")), s)
<1> DEFINE P == "ProxyConnection"
           o == One(P)
<1>1. P \in Message /\ Message \ {P} \subseteq Message
  BY DEF Message, Protocol
<1>2. o \in Msgs /\ q \in Msgs
  BY <1>1, OneItem, Wider DEF Msgs, Without
<1>3. Cat(Cat(q, o), s) = Cat(q, Cat(o, s)) /\ Cat(o, s) \in Msgs
  <2> HIDE DEF o
  <2> QED
    BY <1>2, CatLaws, SMT DEF Msgs
<1>4. CASE q = <<>>
  <2>1. Cat(q, Cat(o, s)) = Cat(o, s)
    BY <1>3, <1>4, EmptyLaws DEF Msgs
  <2>2. Cat(One(x), v) = Cat(One(P), s)
    BY <1>3, <2>1
  <2>3. x = P /\ v = s
    BY <1>1, <2>2, ConsCancel, SMT DEF Msgs
  <2> QED
    BY <2>3
<1>5. CASE q # <<>>
  <2>1. Head(q) \in Message \ {P} /\ Tail(q) \in Seq(Message \ {P}) /\ q = Cat(One(Head(q)), Tail(q))
    BY <1>5, Cons DEF Without
  <2>2. PICK y \in Message \ {P}, r \in Seq(Message \ {P}) : q = Cat(One(y), r)
    BY <2>1
  <2>3. y \in Message /\ r \in Msgs /\ One(y) \in Msgs
    BY <1>1, OneItem, Wider DEF Msgs
  <2> DEFINE w == Cat(r, Cat(o, s))
  <2>4. Cat(q, Cat(o, s)) = Cat(One(y), w) /\ w \in Msgs
    <3> DEFINE u == Cat(o, s)
    <3>1. u \in Msgs
      BY <1>3
    <3> HIDE DEF u, o
    <3>2. Cat(Cat(One(y), r), u) = Cat(One(y), Cat(r, u)) /\ Cat(r, u) \in Msgs
      BY <2>3, <3>1, CatLaws, SMT DEF Msgs
    <3> QED
      BY <2>2, <3>2 DEF u
  <2>5. w = Cat(Cat(r, o), s)
    <3> HIDE DEF o
    <3> QED
      BY <1>2, <2>3, CatLaws, SMT DEF Msgs
  <2> HIDE DEF w
  <2>6. Cat(One(x), v) = Cat(One(y), w)
    BY <1>3, <2>4
  <2>7. x = y /\ v = w
    BY <2>3, <2>4, <2>6, ConsCancel, SMT DEF Msgs
  <2> QED
    BY <2>2, <2>5, <2>7 DEF Without
<1> QED
  BY <1>4, <1>5

\* The reader takes x, a message in front of ProxyConnection or that one.
LEMMA WholeSwitch ==
    ASSUME NEW q, Without("ProxyConnection", q), NEW s \in Msgs, NEW down \in Msgs, NEW up,
           NEW x \in Message, Whole(<<>>, Cat(q, One("ProxyConnection")), s, Cat(One(x), down), up)
    PROVE  /\ x = "ProxyConnection" => Whole(<<>>, <<>>, s, down, up)
           /\ x # "ProxyConnection" =>
                  \E r : /\ Without("ProxyConnection", r)
                         /\ Whole(<<>>, Cat(r, One("ProxyConnection")), s, down, up)
<1> DEFINE z == <<>>
           P == "ProxyConnection"
<1>1. \A a \in Msgs : Cat(z, a) = a
  BY EmptyLaws DEF Msgs
<1>2. PICK m \in Msgs, e \in Msgs : /\ up = Cat(m, e) /\ Closed(e)
                                    /\ Cat(z, Cat(Cat(One(x), down), m)) = Cat(Cat(q, One(P)), s)
  BY DEF Whole
<1> HIDE DEF z
<1>3. One(x) \in Msgs
  BY OneItem DEF Msgs
<1>4. Cat(Cat(One(x), down), m) = Cat(One(x), Cat(down, m)) /\ Cat(down, m) \in Msgs
  BY <1>3, CatLaws, SMT DEF Msgs
<1> DEFINE v == Cat(down, m)
<1>5. v \in Msgs /\ Cat(One(x), v) \in Msgs
  BY <1>4, FirstLaws DEF Msgs
<1>6. Cat(One(x), v) = Cat(Cat(q, One(P)), s)
  BY <1>1, <1>2, <1>4, <1>5
<1> HIDE DEF v
<1>7. /\ x = P => v = s
      /\ x # P => \E r : Without(P, r) /\ v = Cat(Cat(r, One(P)), s)
  BY <1>5, <1>6, SwitchFirst, SMT
<1>8. Cat(z, v) = v /\ Cat(z, s) = s
  BY <1>1, <1>5
<1>9. x = P => Whole(z, z, s, down, up)
  BY <1>2, <1>7, <1>8 DEF Whole, v
<1>10. ASSUME x # P PROVE \E r : Without(P, r) /\ Whole(z, Cat(r, One(P)), s, down, up)
  <2>1. PICK r : Without(P, r) /\ Cat(z, v) = Cat(Cat(r, One(P)), s)
    BY <1>7, <1>8, <1>10
  <2> QED
    BY <1>2, <2>1 DEF Whole, v
<1> QED
  BY <1>9, <1>10 DEF z

\* The same when the streams are no longer joined.
LEMMA BeginningSwitch ==
    ASSUME NEW q, Without("ProxyConnection", q), NEW s \in Msgs, NEW down \in Msgs,
           NEW x \in Message, x \notin Ended,
           Beginning(<<>>, Cat(q, One("ProxyConnection")), s, Cat(One(x), down))
    PROVE  /\ x = "ProxyConnection" => Beginning(<<>>, <<>>, s, down)
           /\ x # "ProxyConnection" =>
                  \E r : /\ Without("ProxyConnection", r)
                         /\ Beginning(<<>>, Cat(r, One("ProxyConnection")), s, down)
<1> DEFINE z == <<>>
           P == "ProxyConnection"
<1>1. \A a \in Msgs : Cat(z, a) = a
  BY EmptyLaws DEF Msgs
<1>2. PICK k \in Msgs, t \in Msgs, m \in Msgs :
          /\ Cat(k, t) = Cat(One(x), down) /\ Closed(t)
          /\ Cat(z, Cat(k, m)) = Cat(Cat(q, One(P)), s)
  BY DEF Beginning
<1> HIDE DEF z
<1>c. PICK c \in Msgs : k = Cat(One(x), c) /\ down = Cat(c, t)
  BY <1>2, OpenFirst, SMT
<1>3. One(x) \in Msgs
  BY OneItem DEF Msgs
<1>4. Cat(Cat(One(x), c), m) = Cat(One(x), Cat(c, m)) /\ Cat(c, m) \in Msgs
  BY <1>3, CatLaws, SMT DEF Msgs
<1> DEFINE v == Cat(c, m)
<1>5. v \in Msgs /\ Cat(One(x), v) \in Msgs
  BY <1>4, FirstLaws DEF Msgs
<1>6. Cat(One(x), v) = Cat(Cat(q, One(P)), s)
  BY <1>1, <1>2, <1>c, <1>4, <1>5
<1> HIDE DEF v
<1>7. /\ x = P => v = s
      /\ x # P => \E r : Without(P, r) /\ v = Cat(Cat(r, One(P)), s)
  BY <1>5, <1>6, SwitchFirst, SMT
<1>8. Cat(z, v) = v /\ Cat(z, s) = s
  BY <1>1, <1>5
<1>9. x = P => Beginning(z, z, s, down)
  BY <1>2, <1>c, <1>7, <1>8 DEF Beginning, v
<1>10. ASSUME x # P PROVE \E r : Without(P, r) /\ Beginning(z, Cat(r, One(P)), s, down)
  <2>1. PICK r : Without(P, r) /\ Cat(z, v) = Cat(Cat(r, One(P)), s)
    BY <1>7, <1>8, <1>10
  <2> QED
    BY <1>2, <1>c, <2>1, SMT DEF Beginning, v
<1> QED
  BY <1>9, <1>10 DEF z

-----------------------------------------------------------------------------
(* What steps do to the channels *)

\* msgs are written to ch, unless its stream is lost.
Written(ch, msgs) ==
    wire'[ch] = IF StreamOf(ch) \in broken THEN wire[ch] ELSE Cat(wire[ch], msgs)

\* The first message x of ch is taken.
Taken(ch, x) == x = Head(wire[ch]) /\ wire[ch] = Cat(One(x), wire'[ch])

\* Only the channels of S change.
OnlyIn(S) == \A c \in Channels \ S : wire'[c] = wire[c]

\* One message is written.
LEMMA WriteStep ==
    ASSUME wire \in WireType, NEW ch \in Channels, NEW x \in Message, wire' = Put(wire, ch, <<x>>)
    PROVE  Written(ch, One(x)) /\ OnlyIn({ch})
<1>1. <<x>> \in Seq(Message)
  BY SMT
<1> QED
  BY <1>1, PutMessages DEF Written, OnlyIn, Cat, One

\* One message is read.
LEMMA TakeStep ==
    ASSUME wire \in WireType, NEW ch \in Channels, wire[ch] # <<>>, wire' = Take(wire, ch)
    PROVE  Taken(ch, Head(wire[ch])) /\ Head(wire[ch]) \in Message /\ OnlyIn({ch})
<1>1. wire[ch] \in Seq(Message)
  BY DEF WireType
<1>2. Head(wire[ch]) \in Message /\ wire[ch] = Cat(One(Head(wire[ch])), Tail(wire[ch]))
  BY <1>1, Cons
<1>3. wire'[ch] = Tail(wire[ch]) /\ OnlyIn({ch})
  BY TakeMessage DEF OnlyIn
<1> QED
  BY <1>2, <1>3 DEF Taken

\* One message is read from a channel, and one written to another.
LEMMA TakeAndWriteStep ==
    ASSUME wire \in WireType, NEW from \in Channels, NEW to \in Channels, from # to, wire[from] # <<>>,
           NEW x \in Message, wire' = Put(Take(wire, from), to, <<x>>)
    PROVE  Taken(from, Head(wire[from])) /\ Head(wire[from]) \in Message /\ Written(to, One(x))
           /\ OnlyIn({from, to})
<1> DEFINE w == Take(wire, from)
<1>1. wire[from] \in Seq(Message)
  BY DEF WireType
<1>2. Head(wire[from]) \in Message /\ wire[from] = Cat(One(Head(wire[from])), Tail(wire[from]))
  BY <1>1, Cons
<1>3. w \in WireType /\ w[from] = Tail(wire[from]) /\ \A c \in Channels : c # from => w[c] = wire[c]
  BY TakeMessage
<1> HIDE DEF w
<1>4. <<x>> \in Seq(Message)
  BY SMT
<1>5. /\ \A c \in Channels : c # to => wire'[c] = w[c]
      /\ StreamOf(to) \in broken => wire'[to] = w[to]
      /\ StreamOf(to) \notin broken => wire'[to] = w[to] \o <<x>>
  BY <1>3, <1>4, PutMessages, ZenonT(30) DEF w
<1>6. wire'[from] = Tail(wire[from]) /\ OnlyIn({from, to})
  BY <1>3, <1>5 DEF OnlyIn
<1>7. Written(to, One(x))
  BY <1>3, <1>5 DEF Written, Cat, One
<1> QED
  BY <1>2, <1>6, <1>7 DEF Taken

\* Both streams of peer1 are written to.
LEMMA WriteBothStep ==
    ASSUME wire \in WireType, NEW a \in Seq(Message), NEW b \in Seq(Message),
           wire' = Put(Put(wire, "p1p0", a), "p1p2", b)
    PROVE  Written("p1p0", a) /\ Written("p1p2", b) /\ OnlyIn({"p1p0", "p1p2"})
<1> DEFINE w == Put(wire, "p1p0", a)
<1>1. "p1p0" \in Channels /\ "p1p2" \in Channels
  BY DEF Channels
<1>2. /\ w \in WireType
      /\ \A c \in Channels : c # "p1p0" => w[c] = wire[c]
      /\ StreamOf("p1p0") \in broken => w["p1p0"] = wire["p1p0"]
      /\ StreamOf("p1p0") \notin broken => w["p1p0"] = wire["p1p0"] \o a
  BY <1>1, PutMessages
<1>3. wire' = Put(w, "p1p2", b)
  OBVIOUS
<1> HIDE DEF w
<1>4. /\ \A c \in Channels : c # "p1p2" => wire'[c] = w[c]
      /\ StreamOf("p1p2") \in broken => wire'["p1p2"] = w["p1p2"]
      /\ StreamOf("p1p2") \notin broken => wire'["p1p2"] = w["p1p2"] \o b
  <2>1. w \in WireType /\ "p1p2" \in Channels
    BY <1>1, <1>2
  <2>2. /\ \A c \in Channels : c # "p1p2" => Put(w, "p1p2", b)[c] = w[c]
        /\ StreamOf("p1p2") \in broken => Put(w, "p1p2", b)["p1p2"] = w["p1p2"]
        /\ StreamOf("p1p2") \notin broken => Put(w, "p1p2", b)["p1p2"] = w["p1p2"] \o b
    BY <2>1, PutMessages, SMT
  <2> QED
    BY <1>3, <2>2
<1>5. OnlyIn({"p1p0", "p1p2"})
  BY <1>2, <1>4 DEF OnlyIn
<1>6. wire'["p1p0"] = w["p1p0"] /\ w["p1p2"] = wire["p1p2"]
  BY <1>1, <1>2, <1>4
<1>7. Written("p1p0", a)
  BY <1>2, <1>6 DEF Written, Cat
<1>8. Written("p1p2", b)
  BY <1>4, <1>6 DEF Written, Cat
<1> QED
  BY <1>5, <1>7, <1>8

\* Messages written at once.
LEMMA WriteAllStep ==
    ASSUME wire \in WireType, NEW ch \in Channels, NEW a \in Seq(Message), wire' = Put(wire, ch, a)
    PROVE  Written(ch, a) /\ OnlyIn({ch})
  BY PutMessages DEF Written, OnlyIn, Cat

-----------------------------------------------------------------------------
(* The steps, as far as they concern the streams *)

\* Nothing happens to the streams.
Idles ==
    /\ p0' = p0 \/ (p0 = "WaitingForConnection" /\ p0' = "WaitingForStream")
         \/ (p0 = "WaitingForProxyStream" /\ p0' \in {"PeerToPeerError", "Dropped"})
    /\ UNCHANGED <<result, p1, p2, wire, broken, sent, got>>

\* peer0 opens the stream to peer1.
Opens ==
    /\ p0 = "WaitingForProxyStream" /\ p0' = "WaitingForInternetAddressInformation"
    /\ p1' = "IncomingStream"
    /\ Written("p0p1", One("ProxyBuildConnectionToPeer")) /\ OnlyIn({"p0p1"})
    /\ UNCHANGED <<result, p2, broken, sent, got>>

\* peer0 learns its internet address and sends its addresses.
Exchanges ==
    /\ p0 = "WaitingForInternetAddressInformation"
    /\ p0' = "WaitingForExchangeAddressInformation"
    /\ Taken("p1p0", "InternetAddressInformation") /\ Written("p0p1", One("ExchangeAddressInformation"))
    /\ OnlyIn({"p1p0", "p0p1"})
    /\ "s01" \notin broken
    /\ UNCHANGED <<result, p1, p2, broken, sent, got>>

\* peer0 gets the addresses of peer2.
Connects ==
    /\ p0 = "WaitingForExchangeAddressInformation" /\ p0' = "WaitingForConnection"
    /\ Taken("p1p0", "ExchangeAddressInformation") /\ OnlyIn({"p1p0"})
    /\ UNCHANGED <<result, p1, p2, broken, sent, got>>

\* peer0 falls back to the proxy stream.
FallsBack ==
    /\ p0 \in {"WaitingForConnection", "WaitingForStream"} /\ p0' = "ConnectionBuilt"
    /\ result' = "proxy"
    /\ "s01" \notin broken
    /\ Written("p0p1", One("ProxyConnection")) /\ OnlyIn({"p0p1"})
    /\ UNCHANGED <<p1, p2, broken, sent, got>>

\* peer0 drops its end of the stream.
Peer0Leaves ==
    /\ p0 \notin {"WaitingForProxyStream", "PeerToPeerError", "Dropped"}
    /\ \/ p0' \in {"PeerToPeerError", "Dropped"} /\ UNCHANGED result
       \/ p0 = "WaitingForStream" /\ p0' = "ConnectionBuilt" /\ result' = "direct"
    /\ Written("p0p1", One("Eof")) /\ OnlyIn({"p0p1"})
    /\ UNCHANGED <<p1, p2, broken, sent, got>>

\* peer1 reads the hello.
Accepts ==
    /\ p1 = "IncomingStream" /\ p1' = "OpeningStream"
    /\ Taken("p0p1", "ProxyBuildConnectionToPeer") /\ OnlyIn({"p0p1"})
    /\ UNCHANGED <<p0, result, p2, broken, sent, got>>

\* peer1 joins the streams.
Joins ==
    /\ p1 = "OpeningStream" /\ p1' = "Relaying"
    /\ p2' = "IncomingStream"
    /\ "s01" \notin broken
    /\ Written("p1p0", One("InternetAddressInformation"))
    /\ Written("p1p2", <<"BuildConnectionToPeer", "InternetAddressInformation">>)
    /\ OnlyIn({"p1p0", "p1p2"})
    /\ UNCHANGED <<p0, result, broken, sent, got>>

\* peer1 drops the stream, or both, before it relays anything.
Declines ==
    /\ p1 \in {"IncomingStream", "OpeningStream"} /\ p1' = "done"
    /\ Written("p1p0", One("Eof")) \/ Written("p1p0", <<"InternetAddressInformation", "Eof">>)
    /\ \/ p2' = p2 /\ OnlyIn({"p1p0"})
       \/ /\ p1 = "OpeningStream" /\ p2' = "IncomingStream"
          /\ Written("p1p2", <<"BuildConnectionToPeer", "Eof">>)
          /\ OnlyIn({"p1p0", "p1p2"})
    /\ UNCHANGED <<p0, result, broken, sent, got>>

\* peer1 relays one message.
Forwards(from, to) ==
    /\ p1 = "Relaying"
    /\ \E x \in Message \ Ended : Taken(from, x) /\ Written(to, One(x))
    /\ OnlyIn({from, to})
    /\ StreamOf(to) \notin broken
    /\ UNCHANGED <<p0, result, p1, p2, broken, sent, got>>

\* The relay ends.
RelayStops ==
    /\ p1 = "Relaying" /\ p1' = "done"
    /\ Written("p1p0", One("Eof")) /\ Written("p1p2", One("Eof")) /\ OnlyIn({"p1p0", "p1p2"})
    /\ UNCHANGED <<p0, result, p2, broken, sent, got>>

\* peer2 reads its hello or its internet address.
Listens ==
    /\ p2 \in {"IncomingStream", "BuildConnectionToPeerRemote"} /\ p2' = "BuildConnectionToPeerRemote"
    /\ \E x \in {"BuildConnectionToPeer", "InternetAddressInformation"} : Taken("p1p2", x)
    /\ OnlyIn({"p1p2"})
    /\ UNCHANGED <<p0, result, p1, broken, sent, got>>

\* peer2 answers the addresses of peer0 with its own.
Answers ==
    /\ p2 = "BuildConnectionToPeerRemote"
    /\ Taken("p1p2", "ExchangeAddressInformation") /\ Written("p2p1", One("ExchangeAddressInformation"))
    /\ OnlyIn({"p1p2", "p2p1"})
    /\ "s12" \notin broken
    /\ UNCHANGED <<p0, result, p1, p2, broken, sent, got>>

\* peer2 passes the proxied stream on.
Switches ==
    /\ p2 = "BuildConnectionToPeerRemote" /\ p2' = "passed"
    /\ Taken("p1p2", "ProxyConnection") /\ OnlyIn({"p1p2"})
    /\ UNCHANGED <<p0, result, p1, broken, sent, got>>

\* peer2 drops its end of the stream.
Peer2Leaves ==
    /\ p2 \in {"IncomingStream", "BuildConnectionToPeerRemote", "passed"} /\ p2' \in {"done", "panicked"}
    /\ Written("p2p1", One("Eof")) /\ OnlyIn({"p2p1"})
    /\ UNCHANGED <<p0, result, p1, broken, sent, got>>

\* The user of u writes one item; v is the other one.
Sends(u, v) ==
    /\ HasProxied(u)
    /\ StreamOf(Outgoing(u)) \notin broken
    /\ \E d \in Data : Written(Outgoing(u), One(d)) /\ sent'[u] = Cat(sent[u], One(d))
    /\ OnlyIn({Outgoing(u)})
    /\ sent'[v] = sent[v]
    /\ UNCHANGED <<p0, result, p1, p2, broken, got>>

\* The user of u reads one item; v is the other one.
Gets(u, v) ==
    /\ HasProxied(u)
    /\ \E x \in Message \ Ended : Taken(Incoming(u), x) /\ got'[u] = Cat(got[u], One(x))
    /\ OnlyIn({Incoming(u)})
    /\ got'[v] = got[v]
    /\ UNCHANGED <<p0, result, p1, p2, broken, sent>>

\* Stream s is lost.
Loses(s) ==
    /\ s = "s01" => p0 # "WaitingForProxyStream"
    /\ s = "s12" => p2 # "none"
    /\ broken' = broken \cup {s}
    /\ \A c \in Channels : wire'[c] = IF StreamOf(c) = s THEN One("Reset") ELSE wire[c]
    /\ UNCHANGED <<p0, result, p1, p2, sent, got>>

Peer0Moves == Idles \/ Opens \/ Exchanges \/ Connects \/ FallsBack \/ Peer0Leaves
Peer1Moves ==
    Accepts \/ Joins \/ Declines \/ Forwards("p0p1", "p1p2") \/ Forwards("p2p1", "p1p0") \/ RelayStops
Peer2Moves == Idles \/ Listens \/ Answers \/ Switches \/ Peer2Leaves
UserMoves ==
    \/ Sends("peer0", "peer2") \/ Sends("peer2", "peer0")
    \/ Gets("peer0", "peer2") \/ Gets("peer2", "peer0")
    \/ Peer0Leaves \/ Peer2Leaves
Moves == Peer0Moves \/ Peer1Moves \/ Peer2Moves \/ UserMoves \/ \E s \in {"s01", "s12"} : Loses(s)


\* What the steps of peer0 do.
LEMMA Peer0Kinds ==
    ASSUME TypeOK,
           \/ PollWaitingForProxyStream \/ PollWaitingForInternetAddressInformation
           \/ PollWaitingForExchangeAddressInformation \/ TimerElapses \/ ConnectionTimeout
           \/ StreamReady \/ StreamError \/ DropFuture
           \/ \E a \in Candidates :
                  \/ \E outcome \in {"peer2", "other", "failed"} : CandidateResolves(a, outcome)
                  \/ ConnectionError(a) \/ ConnectionReady(a)
    PROVE  Peer0Moves
<1>1. wire \in WireType /\ "p0p1" \in Channels /\ "p1p0" \in Channels
  BY TypeSplit DEF Channels
<1>2. /\ "ProxyBuildConnectionToPeer" \in Message /\ "ExchangeAddressInformation" \in Message
      /\ "ProxyConnection" \in Message /\ "Eof" \in Message
  BY DEF Message, Protocol
<1>3. StreamOf("p0p1") = "s01"
  BY DEF StreamOf
<1> HIDE DEF Message
<1>4. ASSUME wire' = Put(wire, "p0p1", <<"Eof">>)
      PROVE  Written("p0p1", One("Eof")) /\ OnlyIn({"p0p1"})
  BY <1>1, <1>2, <1>4, WriteStep
<1>5. ASSUME p0 \in {"WaitingForConnection", "WaitingForStream"}, ProxyStream,
             UNCHANGED <<p1, p2, broken, sent, got>>
      PROVE  FallsBack \/ Peer0Leaves
  <2>1. CASE WriteWorks("p0p1") /\ wire' = Put(wire, "p0p1", <<"ProxyConnection">>)
             /\ p0' = "ConnectionBuilt" /\ result' = "proxy"
    <3>1. Written("p0p1", One("ProxyConnection")) /\ OnlyIn({"p0p1"})
      BY <1>1, <1>2, <2>1, WriteStep
    <3> QED
      BY <1>3, <1>5, <2>1, <3>1 DEF FallsBack, WriteWorks
  <2>2. CASE wire' = Put(wire, "p0p1", <<"Eof">>) /\ p0' = "PeerToPeerError" /\ UNCHANGED result
    BY <1>4, <1>5, <2>2 DEF Peer0Leaves
  <2> QED
    BY <1>5, <2>1, <2>2 DEF ProxyStream
<1>6. ASSUME PollWaitingForProxyStream PROVE Opens \/ Idles
  <2>1. CASE p1' = "IncomingStream" /\ wire' = Put(wire, "p0p1", <<"ProxyBuildConnectionToPeer">>)
             /\ p0' = "WaitingForInternetAddressInformation"
    <3>1. Written("p0p1", One("ProxyBuildConnectionToPeer")) /\ OnlyIn({"p0p1"})
      BY <1>1, <1>2, <2>1, WriteStep
    <3> QED
      BY <1>6, <2>1, <3>1 DEF PollWaitingForProxyStream, Opens, peer2Vars, userVars
  <2>2. CASE p0' = "PeerToPeerError" /\ UNCHANGED <<p1, wire>>
    BY <1>6, <2>2 DEF PollWaitingForProxyStream, Idles, peer2Vars, userVars
  <2> QED
    BY <1>6, <2>1, <2>2 DEF PollWaitingForProxyStream
<1>7. ASSUME PollWaitingForInternetAddressInformation PROVE Exchanges \/ Peer0Leaves
  <2>1. CASE /\ Receives("p1p0", {"InternetAddressInformation"}) /\ WriteWorks("p0p1")
             /\ wire' = Put(Take(wire, "p1p0"), "p0p1", <<"ExchangeAddressInformation">>)
             /\ p0' = "WaitingForExchangeAddressInformation"
    <3>1. wire["p1p0"] # <<>> /\ Head(wire["p1p0"]) = "InternetAddressInformation"
      BY <2>1 DEF Receives
    <3>2. /\ Taken("p1p0", Head(wire["p1p0"])) /\ Written("p0p1", One("ExchangeAddressInformation"))
          /\ OnlyIn({"p1p0", "p0p1"})
      BY <1>1, <1>2, <2>1, <3>1, TakeAndWriteStep
    <3> QED
      BY <1>3, <1>7, <2>1, <3>1, <3>2
         DEF PollWaitingForInternetAddressInformation, Exchanges, WriteWorks, peer1Vars, peer2Vars, userVars
  <2>2. CASE PeerToPeerError
    BY <1>4, <1>7, <2>2
       DEF PollWaitingForInternetAddressInformation, PeerToPeerError, Peer0Leaves, peer1Vars, peer2Vars,
           userVars
  <2> QED
    BY <1>7, <2>1, <2>2 DEF PollWaitingForInternetAddressInformation
<1>8. ASSUME PollWaitingForExchangeAddressInformation PROVE Connects \/ Peer0Leaves
  <2>1. CASE /\ Receives("p1p0", {"ExchangeAddressInformation"}) /\ p0' = "WaitingForConnection"
             /\ wire' = Take(wire, "p1p0")
    <3>1. wire["p1p0"] # <<>> /\ Head(wire["p1p0"]) = "ExchangeAddressInformation"
      BY <2>1 DEF Receives
    <3>2. Taken("p1p0", Head(wire["p1p0"])) /\ OnlyIn({"p1p0"})
      BY <1>1, <2>1, <3>1, TakeStep
    <3> QED
      BY <1>8, <2>1, <3>1, <3>2
         DEF PollWaitingForExchangeAddressInformation, Connects, peer1Vars, peer2Vars, userVars
  <2>2. CASE PeerToPeerError
    BY <1>4, <1>8, <2>2
       DEF PollWaitingForExchangeAddressInformation, PeerToPeerError, Peer0Leaves, peer1Vars, peer2Vars,
           userVars
  <2> QED
    BY <1>8, <2>1, <2>2 DEF PollWaitingForExchangeAddressInformation
<1>9. ASSUME StreamReady PROVE Peer0Leaves
  BY <1>4, <1>9 DEF StreamReady, Peer0Leaves, peer1Vars, userVars
<1>10. ASSUME DropFuture PROVE Idles \/ Peer0Leaves
  BY <1>4, <1>10 DEF DropFuture, Idles, Peer0Leaves, peer1Vars, peer2Vars, userVars
<1>11. ASSUME TimerElapses \/ \E a \in Candidates :
                  \/ \E outcome \in {"peer2", "other", "failed"} : CandidateResolves(a, outcome)
                  \/ ConnectionReady(a)
       PROVE  Idles
  BY <1>11 DEF TimerElapses, CandidateResolves, ConnectionReady, Idles, peer1Vars, peer2Vars, userVars
<1>12. ASSUME ConnectionTimeout \/ StreamError \/ \E a \in Candidates : ConnectionError(a)
       PROVE  FallsBack \/ Peer0Leaves
  BY <1>5, <1>12 DEF ConnectionTimeout, StreamError, ConnectionError, peer1Vars, peer2Vars, userVars
<1> QED
  BY <1>6, <1>7, <1>8, <1>9, <1>10, <1>11, <1>12 DEF Peer0Moves


\* What the steps of peer1 do.
LEMMA Peer1Kinds ==
    ASSUME TypeOK, Peer1Hello \/ Peer1Prepares \/ Peer1Fails \/ Relay("p0p1", "p1p2") \/ Relay("p2p1", "p1p0")
    PROVE  Peer1Moves
<1>1. /\ wire \in WireType
      /\ "p0p1" \in Channels /\ "p1p0" \in Channels /\ "p1p2" \in Channels /\ "p2p1" \in Channels
  BY TypeSplit DEF Channels
<1>2. "Eof" \in Message /\ "InternetAddressInformation" \in Message /\ "BuildConnectionToPeer" \in Message
  BY DEF Message, Protocol
<1>3. StreamOf("p1p0") = "s01"
  BY DEF StreamOf
<1> HIDE DEF Message
<1>4. /\ One("Eof") \in Seq(Message) /\ One("InternetAddressInformation") \in Seq(Message)
      /\ <<"BuildConnectionToPeer", "InternetAddressInformation">> \in Seq(Message)
      /\ <<"BuildConnectionToPeer", "Eof">> \in Seq(Message)
      /\ <<"InternetAddressInformation", "Eof">> \in Seq(Message)
  BY <1>2, SMTT(20) DEF One
<1>5. ASSUME wire' = Put(wire, "p1p0", <<"Eof">>)
      PROVE  Written("p1p0", One("Eof")) /\ OnlyIn({"p1p0"})
  BY <1>1, <1>2, <1>5, WriteStep
<1>6. ASSUME Peer1Hello PROVE Accepts \/ Declines
  <2>1. CASE /\ Receives("p0p1", {"ProxyBuildConnectionToPeer"}) /\ p1' = "OpeningStream"
             /\ wire' = Take(wire, "p0p1")
    <3>1. wire["p0p1"] # <<>> /\ Head(wire["p0p1"]) = "ProxyBuildConnectionToPeer"
      BY <2>1 DEF Receives
    <3>2. Taken("p0p1", Head(wire["p0p1"])) /\ OnlyIn({"p0p1"})
      BY <1>1, <2>1, <3>1, TakeStep
    <3> QED
      BY <1>6, <2>1, <3>1, <3>2 DEF Peer1Hello, Accepts, peer0Vars, peer2Vars, userVars
  <2>2. CASE p1' = "done" /\ wire' = Put(wire, "p1p0", <<"Eof">>)
    BY <1>5, <1>6, <2>2 DEF Peer1Hello, Declines, peer0Vars, peer2Vars, userVars
  <2> QED
    BY <1>6, <2>1, <2>2 DEF Peer1Hello
<1>7. ASSUME Peer1Prepares PROVE Joins
  <2>1. wire' = Put(Put(wire, "p1p0", One("InternetAddressInformation")),
                    "p1p2", <<"BuildConnectionToPeer", "InternetAddressInformation">>)
    BY <1>7 DEF Peer1Prepares, One
  <2>2. /\ Written("p1p0", One("InternetAddressInformation"))
        /\ Written("p1p2", <<"BuildConnectionToPeer", "InternetAddressInformation">>)
        /\ OnlyIn({"p1p0", "p1p2"})
    BY <1>1, <1>4, <2>1, WriteBothStep
  <2> QED
    BY <1>3, <1>7, <2>2 DEF Peer1Prepares, WriteWorks, Joins, peer0Vars, userVars
<1>8. ASSUME Peer1Fails PROVE Declines
  <2>0. p1 = "OpeningStream" /\ p1' = "done" /\ UNCHANGED <<p0, result, broken, sent, got>>
    BY <1>8 DEF Peer1Fails, peer0Vars, userVars
  <2>1. CASE wire' = Put(wire, "p1p0", <<"Eof">>) /\ UNCHANGED p2
    BY <1>5, <2>0, <2>1 DEF Declines
  <2>2. CASE /\ p2' = "IncomingStream"
             /\ wire' = Put(Put(wire, "p1p0", <<"Eof">>), "p1p2", <<"BuildConnectionToPeer", "Eof">>)
    <3>1. wire' = Put(Put(wire, "p1p0", One("Eof")), "p1p2", <<"BuildConnectionToPeer", "Eof">>)
      BY <2>2 DEF One
    <3>2. /\ Written("p1p0", One("Eof")) /\ Written("p1p2", <<"BuildConnectionToPeer", "Eof">>)
          /\ OnlyIn({"p1p0", "p1p2"})
      BY <1>1, <1>4, <3>1, WriteBothStep
    <3> QED
      BY <2>0, <2>2, <3>2 DEF Declines
  <2>3. CASE wire' = Put(wire, "p1p0", <<"InternetAddressInformation", "Eof">>) /\ UNCHANGED p2
    <3>1. Written("p1p0", <<"InternetAddressInformation", "Eof">>) /\ OnlyIn({"p1p0"})
      BY <1>1, <1>4, <2>3, WriteAllStep
    <3> QED
      BY <2>0, <2>3, <3>1 DEF Declines
  <2> QED
    BY <1>8, <2>1, <2>2, <2>3 DEF Peer1Fails
<1>9. ASSUME NEW from \in Channels, NEW to \in Channels, from # to, Relay(from, to)
      PROVE  Forwards(from, to) \/ RelayStops
  <2>0. p1 = "Relaying" /\ wire[from] # <<>> /\ UNCHANGED <<p0, result, p2, broken, sent, got>>
    BY <1>9 DEF Relay, peer0Vars, peer2Vars, userVars
  <2>1. CASE /\ ~Receives(from, Ended) /\ WriteWorks(to)
             /\ wire' = Put(Take(wire, from), to, <<Head(wire[from])>>) /\ UNCHANGED p1
    <3>1. wire[from] \in Seq(Message)
      BY <1>1 DEF WireType
    <3>2. Head(wire[from]) \in Message
      BY <2>0, <3>1, Cons
    <3>3. Taken(from, Head(wire[from])) /\ Written(to, One(Head(wire[from]))) /\ OnlyIn({from, to})
      BY <1>1, <1>9, <2>0, <2>1, <3>2, TakeAndWriteStep
    <3>4. Head(wire[from]) \in Message \ Ended /\ StreamOf(to) \notin broken
      BY <2>0, <2>1, <3>2 DEF Receives, WriteWorks
    <3> QED
      BY <2>0, <2>1, <3>3, <3>4 DEF Forwards
  <2>2. CASE wire' = Put(Put(wire, "p1p0", <<"Eof">>), "p1p2", <<"Eof">>) /\ p1' = "done"
    <3>1. wire' = Put(Put(wire, "p1p0", One("Eof")), "p1p2", One("Eof"))
      BY <2>2 DEF One
    <3>2. Written("p1p0", One("Eof")) /\ Written("p1p2", One("Eof")) /\ OnlyIn({"p1p0", "p1p2"})
      BY <1>1, <1>4, <3>1, WriteBothStep
    <3> QED
      BY <2>0, <2>2, <3>2 DEF RelayStops
  <2> QED
    BY <1>9, <2>1, <2>2 DEF Relay
<1>10. ASSUME Relay("p0p1", "p1p2") PROVE Forwards("p0p1", "p1p2") \/ RelayStops
  BY <1>1, <1>9, <1>10
<1>11. ASSUME Relay("p2p1", "p1p0") PROVE Forwards("p2p1", "p1p0") \/ RelayStops
  BY <1>1, <1>9, <1>11
<1> QED
  BY <1>6, <1>7, <1>8, <1>10, <1>11 DEF Peer1Moves

\* What the steps of peer2 do.
LEMMA Peer2Kinds ==
    ASSUME TypeOK,
           \/ Peer2Hello \/ Peer2InternetAddress \/ Peer2ExchangeAddresses \/ Peer2ProxyConnection
           \/ Peer2StreamEnds \/ Peer2DirectHello
    PROVE  Peer2Moves
<1>1. wire \in WireType /\ "p1p2" \in Channels /\ "p2p1" \in Channels
  BY TypeSplit DEF Channels
<1>2. "Eof" \in Message /\ "ExchangeAddressInformation" \in Message
  BY DEF Message, Protocol
<1>3. StreamOf("p2p1") = "s12"
  BY DEF StreamOf
<1> HIDE DEF Message
<1>4. ASSUME wire' = Put(wire, "p2p1", <<"Eof">>)
      PROVE  Written("p2p1", One("Eof")) /\ OnlyIn({"p2p1"})
  BY <1>1, <1>2, <1>4, WriteStep
<1>5. ASSUME NEW x, Receives("p1p2", {x}), wire' = Take(wire, "p1p2")
      PROVE  Taken("p1p2", x) /\ OnlyIn({"p1p2"})
  <2>1. wire["p1p2"] # <<>> /\ Head(wire["p1p2"]) = x
    BY <1>5 DEF Receives
  <2> QED
    BY <1>1, <1>5, <2>1, TakeStep
<1>6. ASSUME Peer2Hello PROVE Listens \/ Peer2Leaves
  <2>1. CASE /\ Receives("p1p2", {"BuildConnectionToPeer"}) /\ p2' = "BuildConnectionToPeerRemote"
             /\ wire' = Take(wire, "p1p2")
    BY <1>5, <1>6, <2>1 DEF Peer2Hello, Listens, peer0Vars, peer1Vars, userVars
  <2>2. CASE Peer2Ends
    BY <1>4, <1>6, <2>2 DEF Peer2Hello, Peer2Ends, Peer2Leaves, peer0Vars, peer1Vars, userVars
  <2> QED
    BY <1>6, <2>1, <2>2 DEF Peer2Hello
<1>7. ASSUME Peer2InternetAddress PROVE Listens
  BY <1>5, <1>7 DEF Peer2InternetAddress, Listens, peer0Vars, peer1Vars, userVars
<1>8. ASSUME Peer2ExchangeAddresses PROVE Answers \/ Peer2Leaves
  <2>1. CASE /\ WriteWorks("p2p1") /\ UNCHANGED p2
             /\ wire' = Put(Take(wire, "p1p2"), "p2p1", <<"ExchangeAddressInformation">>)
    <3>1. wire["p1p2"] # <<>> /\ Head(wire["p1p2"]) = "ExchangeAddressInformation"
      BY <1>8 DEF Peer2ExchangeAddresses, Receives
    <3>2. /\ Taken("p1p2", Head(wire["p1p2"])) /\ Written("p2p1", One("ExchangeAddressInformation"))
          /\ OnlyIn({"p1p2", "p2p1"})
      BY <1>1, <1>2, <2>1, <3>1, TakeAndWriteStep
    <3> QED
      BY <1>3, <1>8, <2>1, <3>1, <3>2
         DEF Peer2ExchangeAddresses, WriteWorks, Answers, peer0Vars, peer1Vars, userVars
  <2>2. CASE wire' = Put(wire, "p2p1", <<"Eof">>) /\ p2' \in {"done", "panicked"}
    BY <1>4, <1>8, <2>2 DEF Peer2ExchangeAddresses, Peer2Leaves, peer0Vars, peer1Vars, userVars
  <2> QED
    BY <1>8, <2>1, <2>2 DEF Peer2ExchangeAddresses, Peer2Ends
<1>9. ASSUME Peer2ProxyConnection PROVE Switches
  BY <1>5, <1>9 DEF Peer2ProxyConnection, Switches, peer0Vars, peer1Vars, userVars
<1>10. ASSUME Peer2StreamEnds PROVE Peer2Leaves
  BY <1>4, <1>10 DEF Peer2StreamEnds, Peer2Ends, Peer2Leaves, peer0Vars, peer1Vars, userVars
<1>11. ASSUME Peer2DirectHello PROVE Idles
  BY <1>11 DEF Peer2DirectHello, Idles, peer0Vars, peer1Vars, userVars
<1> QED
  BY <1>6, <1>7, <1>8, <1>9, <1>10, <1>11 DEF Peer2Moves

\* What the steps of the users do.
LEMMA UserKinds ==
    ASSUME TypeOK, NEW u \in {"peer0", "peer2"},
           (\E d \in Data : UserWrites(u, d)) \/ UserReads(u) \/ UserCloses(u)
    PROVE  UserMoves
<1>1. wire \in WireType /\ Outgoing(u) \in Channels /\ Incoming(u) \in Channels
  BY TypeSplit DEF Channels, Outgoing, Incoming
<1>2. "Eof" \in Message /\ Data \subseteq Message
  BY DEF Message
<1>3. sent \in [{"peer0", "peer2"} -> Seq(Data)] /\ got \in [{"peer0", "peer2"} -> Seq(Message)]
  BY DEF TypeOK
<1> HIDE DEF Message
<1> DEFINE v == IF u = "peer0" THEN "peer2" ELSE "peer0"
<1>4. ASSUME NEW d \in Data, UserWrites(u, d) PROVE Sends(u, v)
  <2>1. Written(Outgoing(u), One(d)) /\ OnlyIn({Outgoing(u)})
    BY <1>1, <1>2, <1>4, WriteStep DEF UserWrites
  <2>2. sent[u] \in Seq(Data)
    BY <1>3
  <2>3. Append(sent[u], d) = Cat(sent[u], One(d))
    BY <2>2, SMTT(20) DEF Cat, One
  <2>4. sent'[u] = Append(sent[u], d) /\ sent'[v] = sent[v]
    BY <1>3, <1>4 DEF UserWrites
  <2> QED
    BY <1>4, <2>1, <2>3, <2>4 DEF UserWrites, WriteWorks, Sends, peer0Vars, peer1Vars, peer2Vars
<1>5. ASSUME UserReads(u) PROVE Gets(u, v)
  <2> DEFINE x == Head(wire[Incoming(u)])
  <2>1. Taken(Incoming(u), x) /\ x \in Message /\ OnlyIn({Incoming(u)})
    BY <1>1, <1>5, TakeStep DEF UserReads
  <2>2. got[u] \in Seq(Message)
    BY <1>3
  <2>3. got'[u] = Append(got[u], x) /\ got'[v] = got[v]
    BY <1>3, <1>5 DEF UserReads
  <2>4. x \notin Ended
    BY <1>5 DEF UserReads, Receives
  <2> HIDE DEF x
  <2>5. Append(got[u], x) = Cat(got[u], One(x))
    BY <2>1, <2>2, SMTT(20) DEF Cat, One
  <2> QED
    BY <1>5, <2>1, <2>3, <2>4, <2>5 DEF UserReads, Gets, peer0Vars, peer1Vars, peer2Vars
<1>6. ASSUME UserCloses(u) PROVE Peer0Leaves \/ Peer2Leaves
  <2>1. Written(Outgoing(u), One("Eof")) /\ OnlyIn({Outgoing(u)})
    BY <1>1, <1>2, <1>6, WriteStep DEF UserCloses
  <2>2. CASE u = "peer0"
    BY <1>6, <2>1, <2>2 DEF UserCloses, HasProxied, Outgoing, Peer0Leaves, peer1Vars, userVars
  <2>3. CASE u = "peer2"
    BY <1>6, <2>1, <2>3 DEF UserCloses, HasProxied, Outgoing, Peer2Leaves, peer1Vars, userVars
  <2> QED
    BY <2>2, <2>3
<1> QED
  BY <1>4, <1>5, <1>6 DEF UserMoves

\* Every step is one of these.
LEMMA StepKinds ==
    ASSUME TypeOK, [Next]_vars PROVE Moves
<1>1. ASSUME NEW s \in {"s01", "s12"}, Breaks(s) PROVE Loses(s)
  BY <1>1 DEF Breaks, Loses, One, peer0Vars, peer1Vars, peer2Vars, userVars
<1>2. ASSUME UNCHANGED vars PROVE Peer0Moves
  BY <1>2 DEF vars, Peer0Moves, Idles
<1> QED
  BY <1>1, <1>2, Peer0Kinds, Peer1Kinds, Peer2Kinds, UserKinds DEF Next, Moves


\* The messages of c remain in S.
Keeps(c, S) == wire[c] \in Seq(S) => wire'[c] \in Seq(S)

\* Writing messages of S keeps a channel in S.
LEMMA WriteKeeps ==
    ASSUME NEW S, NEW ch, NEW msgs \in Seq(S), Written(ch, msgs) PROVE Keeps(ch, S)
<1> SUFFICES ASSUME wire[ch] \in Seq(S) PROVE wire'[ch] \in Seq(S)
  BY DEF Keeps
<1>1. Cat(wire[ch], msgs) \in Seq(S)
  BY CatLaws
<1> QED
  BY <1>1 DEF Written

\* So does reading, and what is read is in S.
LEMMA TakeKeeps ==
    ASSUME NEW S \in SUBSET Message, NEW ch, NEW x \in Message, wire'[ch] \in Msgs, Taken(ch, x)
    PROVE  Keeps(ch, S) /\ (wire[ch] \in Seq(S) => x \in S)
<1> SUFFICES ASSUME wire[ch] \in Seq(S) PROVE wire'[ch] \in Seq(S) /\ x \in S
  BY DEF Keeps
<1> DEFINE r == wire'[ch]
<1>1. r \in Seq(Message) /\ One(x) \in Seq(Message) /\ Cat(One(x), r) \in Seq(S) /\ S \subseteq Message
  BY OneItem DEF Msgs, Taken
<1> HIDE DEF r, Message
<1>2. r \in Seq(S) /\ One(x) \in Seq(S)
  BY <1>1, Parts
<1>3. x \in S
  BY <1>2, SMTT(20) DEF One
<1> QED
  BY <1>2, <1>3 DEF r

\* And so does doing nothing.
LEMMA SameKeeps ==
    ASSUME NEW S, NEW T, OnlyIn(T) PROVE \A c \in Channels \ T : Keeps(c, S)
  BY DEF OnlyIn, Keeps

\* Which steps keep the messages of which channels in S.
LEMMA StepKeeps ==
    ASSUME wire' \in WireType, NEW S \in SUBSET Message, NEW c \in Channels
    PROVE  /\ Idles \/ Connects \/ Accepts \/ Listens \/ Switches => Keeps(c, S)
           /\ Gets("peer0", "peer2") \/ Gets("peer2", "peer0") => Keeps(c, S)
           /\ Opens /\ (c # "p0p1" \/ "ProxyBuildConnectionToPeer" \in S) => Keeps(c, S)
           /\ Exchanges /\ (c # "p0p1" \/ "ExchangeAddressInformation" \in S) => Keeps(c, S)
           /\ FallsBack /\ (c # "p0p1" \/ "ProxyConnection" \in S) => Keeps(c, S)
           /\ Peer0Leaves /\ (c # "p0p1" \/ "Eof" \in S) => Keeps(c, S)
           /\ Joins /\ (c \notin {"p1p0", "p1p2"} \/ {"BuildConnectionToPeer", "InternetAddressInformation"} \subseteq S)
                  => Keeps(c, S)
           /\ Declines /\ (c \notin {"p1p0", "p1p2"}
                           \/ {"BuildConnectionToPeer", "InternetAddressInformation", "Eof"} \subseteq S)
                  => Keeps(c, S)
           /\ (Joins \/ Declines) /\ c = "p1p0" /\ {"InternetAddressInformation", "Eof"} \subseteq S
                  => Keeps(c, S)
           /\ RelayStops /\ (c \notin {"p1p0", "p1p2"} \/ "Eof" \in S) => Keeps(c, S)
           /\ Answers /\ (c # "p2p1" \/ "ExchangeAddressInformation" \in S) => Keeps(c, S)
           /\ Peer2Leaves /\ (c # "p2p1" \/ "Eof" \in S) => Keeps(c, S)
           /\ Sends("peer0", "peer2") /\ (c # "p0p1" \/ Data \subseteq S) => Keeps(c, S)
           /\ Sends("peer2", "peer0") /\ (c # "p2p1" \/ Data \subseteq S) => Keeps(c, S)
<1>1. "p0p1" \in Channels /\ "p1p0" \in Channels /\ "p1p2" \in Channels /\ "p2p1" \in Channels
  BY DEF Channels
<1>2. \A d \in Channels : wire'[d] \in Msgs
  BY DEF WireType, Msgs
<1>3. \A x \in S : One(x) \in Seq(S)
  BY OneItem
<1>4. \A x \in Protocol : x \in Message
  BY DEF Message
<1>5. \A ch \in Channels, x \in Message : Taken(ch, x) => Keeps(ch, S)
  BY <1>2, TakeKeeps
<1>6. \A ch \in Channels, msgs \in Seq(S) : Written(ch, msgs) => Keeps(ch, S)
  BY WriteKeeps
<1>7. \A T : OnlyIn(T) /\ c \notin T => Keeps(c, S)
  BY SameKeeps
<1>8. \A ch \in Channels, x \in S : Written(ch, One(x)) => Keeps(ch, S)
  BY <1>3, <1>6
<1> HIDE DEF Message, Channels
<1>9. Idles => Keeps(c, S)
  BY DEF Idles, Keeps
<1>10. Connects \/ Accepts \/ Listens \/ Switches => Keeps(c, S)
  BY <1>1, <1>4, <1>5, <1>7 DEF Connects, Accepts, Listens, Switches, Protocol
<1>11. Gets("peer0", "peer2") \/ Gets("peer2", "peer0") => Keeps(c, S)
  BY <1>1, <1>5, <1>7 DEF Gets, Incoming
<1>12. Opens /\ (c # "p0p1" \/ "ProxyBuildConnectionToPeer" \in S) => Keeps(c, S)
  BY <1>1, <1>7, <1>8 DEF Opens
<1>13. Exchanges /\ (c # "p0p1" \/ "ExchangeAddressInformation" \in S) => Keeps(c, S)
  BY <1>1, <1>4, <1>5, <1>7, <1>8 DEF Exchanges, Protocol
<1>14. FallsBack /\ (c # "p0p1" \/ "ProxyConnection" \in S) => Keeps(c, S)
  BY <1>1, <1>7, <1>8 DEF FallsBack
<1>15. Peer0Leaves /\ (c # "p0p1" \/ "Eof" \in S) => Keeps(c, S)
  BY <1>1, <1>7, <1>8 DEF Peer0Leaves
<1>16. Joins /\ (c \notin {"p1p0", "p1p2"} \/ {"BuildConnectionToPeer", "InternetAddressInformation"} \subseteq S)
           => Keeps(c, S)
  <2>1. CASE c \notin {"p1p0", "p1p2"}
    BY <1>7, <2>1 DEF Joins
  <2>2. CASE {"BuildConnectionToPeer", "InternetAddressInformation"} \subseteq S /\ c \in {"p1p0", "p1p2"}
    <3>1. <<"BuildConnectionToPeer", "InternetAddressInformation">> \in Seq(S)
      BY <2>2, SMTT(20)
    <3> QED
      BY <1>1, <1>6, <1>8, <2>2, <3>1 DEF Joins
  <2> QED
    BY <2>1, <2>2
<1>17. Declines /\ (c \notin {"p1p0", "p1p2"}
                    \/ {"BuildConnectionToPeer", "InternetAddressInformation", "Eof"} \subseteq S)
           => Keeps(c, S)
  <2>1. CASE c \notin {"p1p0", "p1p2"}
    BY <1>7, <2>1 DEF Declines
  <2>2. CASE {"BuildConnectionToPeer", "InternetAddressInformation", "Eof"} \subseteq S /\ c \in {"p1p0", "p1p2"}
    <3>1. <<"BuildConnectionToPeer", "Eof">> \in Seq(S) /\ <<"InternetAddressInformation", "Eof">> \in Seq(S)
      BY <2>2, SMTT(20)
    <3> QED
      BY <1>1, <1>6, <1>7, <1>8, <2>2, <3>1 DEF Declines
  <2> QED
    BY <2>1, <2>2
<1>18. RelayStops /\ (c \notin {"p1p0", "p1p2"} \/ "Eof" \in S) => Keeps(c, S)
  BY <1>1, <1>7, <1>8 DEF RelayStops
<1>19. Answers /\ (c # "p2p1" \/ "ExchangeAddressInformation" \in S) => Keeps(c, S)
  BY <1>1, <1>4, <1>5, <1>7, <1>8 DEF Answers, Protocol
<1>20. Peer2Leaves /\ (c # "p2p1" \/ "Eof" \in S) => Keeps(c, S)
  BY <1>1, <1>7, <1>8 DEF Peer2Leaves
<1>21. Sends("peer0", "peer2") /\ (c # "p0p1" \/ Data \subseteq S) => Keeps(c, S)
  BY <1>1, <1>7, <1>8 DEF Sends, Outgoing
<1>22. Sends("peer2", "peer0") /\ (c # "p2p1" \/ Data \subseteq S) => Keeps(c, S)
  BY <1>1, <1>7, <1>8 DEF Sends, Outgoing
<1>23. (Joins \/ Declines) /\ c = "p1p0" /\ {"InternetAddressInformation", "Eof"} \subseteq S => Keeps(c, S)
  <2>1. {"InternetAddressInformation", "Eof"} \subseteq S => <<"InternetAddressInformation", "Eof">> \in Seq(S)
    BY SMTT(20)
  <2> QED
    BY <1>1, <1>6, <1>8, <2>1 DEF Joins, Declines
<1> QED
  BY <1>9, <1>10, <1>11, <1>12, <1>13, <1>14, <1>15, <1>16, <1>17, <1>18, <1>19, <1>20, <1>21, <1>22,
     <1>23

\* The same of the relay and of a loss.
LEMMA ForwardKeeps ==
    ASSUME wire' \in WireType, NEW S \in SUBSET Message, NEW from \in Channels, NEW to \in Channels,
           from # to, Forwards(from, to), NEW c \in Channels
    PROVE  c # to \/ Message \ Ended \subseteq S \/ wire[from] \in Seq(S) => Keeps(c, S)
<1>1. wire'[from] \in Msgs
  BY DEF WireType, Msgs
<1>2. PICK x \in Message \ Ended : Taken(from, x) /\ Written(to, One(x))
  BY DEF Forwards
<1>3. Keeps(from, S) /\ (wire[from] \in Seq(S) => x \in S)
  BY <1>1, <1>2, TakeKeeps
<1>4. x \in S => One(x) \in Seq(S)
  BY OneItem
<1>5. x \in S => Keeps(to, S)
  BY <1>2, <1>4, WriteKeeps
<1>6. c \notin {from, to} => Keeps(c, S)
  BY SameKeeps DEF Forwards
<1> QED
  BY <1>2, <1>3, <1>5, <1>6

\* The loss of a stream leaves the end of it.
LEMMA LossKeeps ==
    ASSUME NEW S \in SUBSET Message, NEW s, Loses(s), NEW c \in Channels
    PROVE  StreamOf(c) # s \/ "Reset" \in S => Keeps(c, S)
<1>1. "Reset" \in S => One("Reset") \in Seq(S)
  BY OneItem
<1> QED
  BY <1>1 DEF Loses, Keeps


-----------------------------------------------------------------------------
(* The invariant of the proxied stream *)

\* The relay has not ended, and neither stream is lost.
Joined == p1 # "done" /\ broken = {}

\* peer0, and peer2, still hold their end of the stream.
Live0 == p0 \notin {"PeerToPeerError", "Dropped"} /\ result # "direct"
Live2 == p2 \notin {"done", "panicked"}

BeforeRelay == {"none", "IncomingStream", "OpeningStream"}

\* peer0 has read its internet address.
Informed ==
    \/ p0 \in {"WaitingForExchangeAddressInformation", "WaitingForConnection", "WaitingForStream"}
    \/ result # "none"

\* A stream ends at its lost connection, and otherwise only after its writer let
\* go of it.
EndInv ==
    /\ \A c \in Channels : StreamOf(c) \in broken => wire[c] = One("Reset")
    /\ Joined => Clear(wire["p1p0"]) /\ Clear(wire["p1p2"])
    /\ Live0 /\ "s01" \notin broken => Clear(wire["p0p1"])
    /\ Live2 /\ "s12" \notin broken => Clear(wire["p2p1"])

\* When the users have written or read nothing yet.
StageInv ==
    /\ p2 = "passed" => result = "proxy"
    /\ result # "proxy" => sent["peer0"] = <<>> /\ sent["peer2"] = <<>> /\ got["peer0"] = <<>>
    /\ p2 \in BeforeSwitch => sent["peer2"] = <<>> /\ got["peer2"] = <<>>

\* What peer2 may have sent, with the result r of peer0.
Back(r) == {"ExchangeAddressInformation"} \cup Ended \cup (IF r = "proxy" THEN Data ELSE {})

\* What is on the way to peer0. It is told its internet address once.
ReturnInv ==
    /\ wire["p2p1"] \in Seq(Back(result))
    /\ wire["p1p0"] \in Seq({"InternetAddressInformation"} \cup Back(result))
    /\ p1 \in BeforeRelay /\ "s01" \notin broken => wire["p1p0"] = <<>>
    /\ p0 = "WaitingForInternetAddressInformation" =>
           \/ Without("InternetAddressInformation", wire["p1p0"])
           \/ \E r : /\ Without("InternetAddressInformation", r)
                     /\ wire["p1p0"] = Cat(One("InternetAddressInformation"), r)
    /\ Informed => p1 \notin BeforeRelay /\ Without("InternetAddressInformation", wire["p1p0"])

\* A message taken is not the end of a lost stream.
LEMMA TakenOpen ==
    ASSUME EndInv, NEW ch \in Channels, NEW x \in Message \ Ended, Taken(ch, x), wire'[ch] \in Msgs
    PROVE  StreamOf(ch) \notin broken /\ wire[ch] # <<>>
<1>1. wire[ch] # <<>>
  BY FirstLaws, SMTT(20) DEF Taken, Msgs
<1>2. Head(One("Reset")) = "Reset"
  BY SMTT(20) DEF One
<1> QED
  BY <1>1, <1>2 DEF EndInv, Taken, Ended

\* Steps that write to streams that are not lost, or not at all, keep EndInv's
\* first part.
LEMMA EndOfLost ==
    ASSUME EndInv, UNCHANGED broken,
           \A c \in Channels : wire'[c] = wire[c] \/ StreamOf(c) \notin broken
    PROVE  \A c \in Channels : StreamOf(c) \in broken' => wire'[c] = One("Reset")
  BY DEF EndInv

\* Which is all of them.
LEMMA NothingAfterLoss ==
    ASSUME EndInv, wire' \in WireType,
           Peer0Moves \/ Peer1Moves \/ Peer2Moves \/ UserMoves
    PROVE  UNCHANGED broken /\ \A c \in Channels : wire'[c] = wire[c] \/ StreamOf(c) \notin broken
<1>1. "p0p1" \in Channels /\ "p1p0" \in Channels /\ "p1p2" \in Channels /\ "p2p1" \in Channels
  BY DEF Channels
<1>2. \A ch \in Channels : wire'[ch] \in Msgs
  BY DEF WireType, Msgs
<1>3. \A ch \in Channels, x \in Message \ Ended : Taken(ch, x) => StreamOf(ch) \notin broken
  BY <1>2, TakenOpen
<1>4. Protocol \subseteq Message \ Ended
  BY DEF Message, Protocol, Ended
<1>5. \A ch, msgs : Written(ch, msgs) => wire'[ch] = wire[ch] \/ StreamOf(ch) \notin broken
  BY DEF Written
<1> HIDE DEF Message, Channels, Ended
<1>6. ASSUME Peer0Moves
      PROVE  UNCHANGED broken /\ \A c \in Channels : wire'[c] = wire[c] \/ StreamOf(c) \notin broken
  BY <1>1, <1>3, <1>4, <1>5, <1>6
     DEF Peer0Moves, Idles, Opens, Exchanges, Connects, FallsBack, Peer0Leaves, OnlyIn, Protocol
<1>7. ASSUME Peer1Moves
      PROVE  UNCHANGED broken /\ \A c \in Channels : wire'[c] = wire[c] \/ StreamOf(c) \notin broken
  BY <1>1, <1>3, <1>4, <1>5, <1>7
     DEF Peer1Moves, Accepts, Joins, Declines, Forwards, RelayStops, OnlyIn, Protocol
<1>8. ASSUME Peer2Moves
      PROVE  UNCHANGED broken /\ \A c \in Channels : wire'[c] = wire[c] \/ StreamOf(c) \notin broken
  BY <1>1, <1>3, <1>4, <1>5, <1>8
     DEF Peer2Moves, Idles, Listens, Answers, Switches, Peer2Leaves, OnlyIn, Protocol
<1>9. ASSUME UserMoves
      PROVE  UNCHANGED broken /\ \A c \in Channels : wire'[c] = wire[c] \/ StreamOf(c) \notin broken
  BY <1>1, <1>3, <1>4, <1>5, <1>9
     DEF UserMoves, Sends, Gets, Peer0Leaves, Peer2Leaves, OnlyIn, Incoming, Outgoing
<1> QED
  BY <1>6, <1>7, <1>8, <1>9

\* EndInv is kept.
LEMMA EndStep ==
    ASSUME TypeOK, IInv, wire' \in WireType, EndInv, Moves
    PROVE  EndInv'
<1>1. "p0p1" \in Channels /\ "p1p0" \in Channels /\ "p1p2" \in Channels /\ "p2p1" \in Channels
  BY DEF Channels
<1>2. /\ StreamOf("p0p1") = "s01" /\ StreamOf("p1p0") = "s01"
      /\ StreamOf("p1p2") = "s12" /\ StreamOf("p2p1") = "s12"
  BY DEF StreamOf
<1> DEFINE S == Message \ Ended
<1>3. S \in SUBSET Message /\ Protocol \subseteq S /\ Data \subseteq S /\ Message \ Ended \subseteq S
  BY DataAssumption DEF Message, Protocol, Ended
<1>4. \A s : Clear(s) <=> s \in Seq(S)
  BY DEF Clear
<1> HIDE DEF Message, Channels, S
<1>5. ASSUME NEW s \in {"s01", "s12"}, Loses(s) PROVE EndInv'
  <2>1. \A c \in Channels : StreamOf(c) \in broken' => wire'[c] = One("Reset")
    BY <1>5 DEF Loses, EndInv
  <2>2. ~Joined'
    BY <1>5 DEF Loses, Joined
  <2>3. \A c \in Channels : StreamOf(c) \notin broken' => wire'[c] = wire[c]
    BY <1>5 DEF Loses
  <2> QED
    BY <1>1, <1>2, <1>5, <2>1, <2>2, <2>3 DEF Loses, EndInv, Live0, Live2
<1>6. ASSUME Peer0Moves \/ Peer1Moves \/ Peer2Moves \/ UserMoves PROVE EndInv'
  <2>1. UNCHANGED broken /\ \A c \in Channels : StreamOf(c) \in broken' => wire'[c] = One("Reset")
    BY <1>6, NothingAfterLoss, EndOfLost
  <2>2. /\ \A c \in Channels : Idles \/ Connects \/ Accepts \/ Listens \/ Switches => Keeps(c, S)
        /\ \A c \in Channels : Gets("peer0", "peer2") \/ Gets("peer2", "peer0") => Keeps(c, S)
        /\ \A c \in Channels : Opens \/ Exchanges \/ FallsBack \/ Joins \/ Answers => Keeps(c, S)
        /\ \A c \in Channels : Sends("peer0", "peer2") \/ Sends("peer2", "peer0") => Keeps(c, S)
        /\ \A c \in Channels : Peer0Leaves /\ c # "p0p1" => Keeps(c, S)
        /\ \A c \in Channels : Declines \/ RelayStops => c \in {"p1p0", "p1p2"} \/ Keeps(c, S)
        /\ \A c \in Channels : Peer2Leaves /\ c # "p2p1" => Keeps(c, S)
    BY <1>3, StepKeeps DEF Protocol
  <2>3. ASSUME Forwards("p0p1", "p1p2") \/ Forwards("p2p1", "p1p0"), NEW c \in Channels
        PROVE  Keeps(c, S)
    BY <1>1, <1>3, <2>3, ForwardKeeps
  <2>4. /\ Joins \/ (Declines /\ p1 = "OpeningStream") => Live2
        /\ FallsBack => Live0
        /\ Opens => p1 # "done"
    BY DEF Joins, FallsBack, Opens, IInv, AddressInv, AgreeInv, Live0, Live2
  <2>5. CASE \/ Idles \/ Connects \/ Accepts \/ Listens \/ Switches \/ Gets("peer0", "peer2")
             \/ Gets("peer2", "peer0") \/ Opens \/ Exchanges \/ FallsBack \/ Joins \/ Answers
             \/ Sends("peer0", "peer2") \/ Sends("peer2", "peer0")
             \/ Forwards("p0p1", "p1p2") \/ Forwards("p2p1", "p1p0")
    <3>1. \A c \in Channels : Keeps(c, S)
      BY <2>2, <2>3, <2>5
    <3>2. (Joined' => Joined) /\ (Live0' => Live0) /\ (Live2' => Live2)
      BY <2>4, <2>1, <2>5
         DEF Idles, Connects, Accepts, Listens, Switches, Gets, Opens, Exchanges, FallsBack, Joins, Answers,
             Sends, Forwards, Joined, Live0, Live2
    <3> QED
      BY <1>1, <1>4, <2>1, <3>1, <3>2 DEF EndInv, Keeps
  <2>6. CASE Peer0Leaves
    <3>1. ~Live0' /\ (Joined' => Joined) /\ (Live2' => Live2)
      BY <2>1, <2>6 DEF Peer0Leaves, Joined, Live0, Live2
    <3> QED
      BY <1>1, <1>4, <2>1, <2>2, <2>6, <3>1 DEF EndInv, Keeps
  <2>7. CASE Declines \/ RelayStops
    <3>1. ~Joined' /\ (Live0' => Live0) /\ (Live2' => Live2)
      BY <2>4, <2>1, <2>7 DEF Declines, RelayStops, Joined, Live0, Live2
    <3> QED
      BY <1>1, <1>4, <2>1, <2>2, <2>7, <3>1 DEF EndInv, Keeps
  <2>8. CASE Peer2Leaves
    <3>1. ~Live2' /\ (Joined' => Joined) /\ (Live0' => Live0)
      BY <2>1, <2>8 DEF Peer2Leaves, Joined, Live0, Live2
    <3> QED
      BY <1>1, <1>4, <2>1, <2>2, <2>8, <3>1 DEF EndInv, Keeps
  <2> QED
    BY <1>6, <2>5, <2>6, <2>7, <2>8 DEF Peer0Moves, Peer1Moves, Peer2Moves, UserMoves
<1> QED
  BY <1>5, <1>6 DEF Moves


\* ProxyConnection is in s or not.
LEMMA SwitchOrNot ==
    ASSUME NEW s \in Msgs PROVE HasSwitch(s) <=> ~Without("ProxyConnection", s)
<1> HIDE DEF Message
<1>1. s \in Seq(Message)
  BY DEF Msgs
<1>2. ~HasSwitch(s) => s \in Seq(Message \ {"ProxyConnection"})
  BY <1>1, SMTT(20) DEF HasSwitch
<1>3. s \in Seq(Message \ {"ProxyConnection"}) => ~HasSwitch(s)
  BY SMTT(20) DEF HasSwitch
<1> QED
  BY <1>2, <1>3 DEF Without

\* peer2 switches only to a proxied result.
LEMMA SwitchesToProxy ==
    ASSUME TypeOK, IInv, wire' \in WireType, Switches
    PROVE  result = "proxy" /\ HasSwitch(wire["p1p2"])
<1> DEFINE s == wire["p1p2"]
           S == Message \ {"ProxyConnection"}
<1>1. s \in Msgs /\ wire'["p1p2"] \in Msgs
  BY TypeSplit DEF WireType, Channels, Msgs
<1>2. "ProxyConnection" \in Message /\ S \in SUBSET Message /\ "ProxyConnection" \notin S
  BY DEF Message, Protocol
<1>3. Taken("p1p2", "ProxyConnection")
  BY DEF Switches
<1>4. (s \in Seq(S)) <=> Without("ProxyConnection", s)
  BY DEF Without
<1> HIDE DEF Message, S
<1>5. s \notin Seq(S)
  BY <1>1, <1>2, <1>3, TakeKeeps
<1>6. HasSwitch(s)
  BY <1>1, <1>4, <1>5, SwitchOrNot
<1> QED
  BY <1>6 DEF IInv, AgreeInv

\* StageInv is kept.
LEMMA StageStep ==
    ASSUME TypeOK, IInv, wire' \in WireType, StageInv, Moves
    PROVE  StageInv'
<1>1. CASE Peer0Moves
  BY <1>1 DEF Peer0Moves, Idles, Opens, Exchanges, Connects, FallsBack, Peer0Leaves, StageInv, IInv, AgreeInv
<1>2. CASE Peer1Moves
  <2>1. Joins \/ (Declines /\ p1 = "OpeningStream") => p2 \in BeforeSwitch
    BY DEF Joins, IInv, AddressInv, BeforeSwitch
  <2> QED
    BY <1>2, <2>1 DEF Peer1Moves, Accepts, Joins, Declines, Forwards, RelayStops, StageInv
<1>3. CASE Peer2Moves
  <2>1. Switches => result = "proxy"
    BY SwitchesToProxy
  <2> QED
    BY <1>3, <2>1 DEF Peer2Moves, Idles, Listens, Answers, Switches, Peer2Leaves, StageInv, BeforeSwitch
<1>4. CASE UserMoves
  BY <1>4 DEF UserMoves, Sends, Gets, Peer0Leaves, Peer2Leaves, HasProxied, StageInv, BeforeSwitch, IInv, AgreeInv
<1>5. ASSUME NEW s \in {"s01", "s12"}, Loses(s) PROVE StageInv'
  BY <1>5 DEF Loses, StageInv
<1> QED
  BY <1>1, <1>2, <1>3, <1>4, <1>5 DEF Moves


\* What peer2 may send is a message, and the more so the more peer0 has got.
LEMMA BackLaws ==
    ASSUME TypeOK, IInv, Moves
    PROVE  /\ Back(result) \subseteq Back(result') /\ Back(result) \subseteq Message
           /\ "ExchangeAddressInformation" \in Back(result) /\ Ended \subseteq Back(result)
           /\ "InternetAddressInformation" \notin Back(result)
           /\ "InternetAddressInformation" \in Message
           /\ result = "proxy" => Data \subseteq Back(result)
<1>1. \/ result' = result \/ result' = "proxy"
      \/ result = "none" /\ result' = "direct"
  <2>1. p0 = "WaitingForStream" => result = "none"
    BY DEF TypeOK, IInv, AgreeInv
  <2>2. Peer0Moves \/ Peer0Leaves => result' = result \/ result' = "proxy" \/ (result = "none" /\ result' = "direct")
    BY <2>1 DEF Peer0Moves, Idles, Opens, Exchanges, Connects, FallsBack, Peer0Leaves
  <2>3. Peer1Moves \/ Peer2Moves \/ (UserMoves /\ ~Peer0Leaves) \/ (\E s \in {"s01", "s12"} : Loses(s))
            => result' = result
    BY DEF Peer1Moves, Accepts, Joins, Declines, Forwards, RelayStops, Peer2Moves, Idles, Listens, Answers,
           Switches, Peer2Leaves, UserMoves, Sends, Gets, Loses
  <2> QED
    BY <2>2, <2>3 DEF Moves
<1>2. Back(result) \subseteq Back(result')
  BY <1>1 DEF Back
<1> QED
  BY <1>2, DataAssumption DEF Back, Ended, Message, Protocol

\* What is on the way to peer0, with the result after the step.
LEMMA ReturnTypes ==
    ASSUME TypeOK, IInv, wire' \in WireType, StageInv, ReturnInv, Moves
    PROVE  /\ wire'["p2p1"] \in Seq(Back(result'))
           /\ wire'["p1p0"] \in Seq({"InternetAddressInformation"} \cup Back(result'))
<1> DEFINE B == Back(result)
           A == {"InternetAddressInformation"} \cup B
<1>1. "p0p1" \in Channels /\ "p1p0" \in Channels /\ "p1p2" \in Channels /\ "p2p1" \in Channels
  BY DEF Channels
<1>2. /\ B \in SUBSET Message /\ A \in SUBSET Message /\ B \subseteq A /\ B \subseteq Back(result')
      /\ A \subseteq {"InternetAddressInformation"} \cup Back(result')
      /\ "ExchangeAddressInformation" \in B /\ "Eof" \in B /\ "Reset" \in B
      /\ "InternetAddressInformation" \in A /\ "Eof" \in A /\ "Reset" \in A
      /\ result = "proxy" => Data \subseteq B
  BY BackLaws DEF Ended
<1>3. wire["p2p1"] \in Seq(B) /\ wire["p1p0"] \in Seq(A)
  BY DEF ReturnInv
<1> HIDE DEF A, B, Message
<1>4. wire["p2p1"] \in Seq(A)
  BY <1>2, <1>3, Wider
<1>5. Sends("peer2", "peer0") => Data \subseteq B
  BY <1>2 DEF Sends, HasProxied, StageInv
<1>6. Keeps("p2p1", B)
  <2>1. CASE Forwards("p0p1", "p1p2")
    <3>1. \A c \in Channels : c # "p1p2" => Keeps(c, B)
      BY <1>1, <1>2, <2>1, ForwardKeeps
    <3> QED
      BY <1>1, <3>1
  <2>2. CASE Forwards("p2p1", "p1p0")
    BY <1>1, <1>2, <2>2, ForwardKeeps, ZenonT(30)
  <2>3. CASE \E s \in {"s01", "s12"} : Loses(s)
    BY <1>1, <1>2, <2>3, LossKeeps
  <2>4. CASE Peer0Moves \/ Accepts \/ Joins \/ Declines \/ RelayStops \/ Peer2Moves \/ UserMoves
    BY <1>1, <1>2, <1>5, <2>4, StepKeeps DEF Peer0Moves, Peer2Moves, UserMoves
  <2> QED
    BY <2>1, <2>2, <2>3, <2>4 DEF Moves, Peer1Moves
<1>7. Keeps("p1p0", A)
  <2>1. CASE Forwards("p0p1", "p1p2")
    <3>1. \A c \in Channels : c # "p1p2" => Keeps(c, A)
      BY <1>1, <1>2, <2>1, ForwardKeeps
    <3> QED
      BY <1>1, <3>1
  <2>2. CASE Forwards("p2p1", "p1p0")
    BY <1>1, <1>2, <1>4, <2>2, ForwardKeeps
  <2>3. CASE \E s \in {"s01", "s12"} : Loses(s)
    BY <1>1, <1>2, <2>3, LossKeeps
  <2>4. CASE Peer0Moves \/ Accepts \/ Joins \/ Declines \/ RelayStops \/ Peer2Moves \/ UserMoves
    BY <1>1, <1>2, <2>4, StepKeeps DEF Peer0Moves, Peer2Moves, UserMoves
  <2> QED
    BY <2>1, <2>2, <2>3, <2>4 DEF Moves, Peer1Moves
<1>8. wire'["p2p1"] \in Seq(B) /\ wire'["p1p0"] \in Seq(A)
  BY <1>3, <1>6, <1>7 DEF Keeps
<1>9. wire'["p2p1"] \in Seq(Back(result'))
  BY <1>2, <1>8, Wider
<1>10. wire'["p1p0"] \in Seq({"InternetAddressInformation"} \cup Back(result'))
  <2> DEFINE T == {"InternetAddressInformation"} \cup Back(result')
  <2>1. A \subseteq T
    BY <1>2
  <2> HIDE DEF T
  <2>2. wire'["p1p0"] \in Seq(T)
    BY <1>8, <2>1, Wider
  <2> QED
    BY <2>2 DEF T
<1> QED
  BY <1>9, <1>10

\* Until the relay runs, peer0 is sent nothing.
LEMMA ReturnEmpty ==
    ASSUME TypeOK, IInv, wire' \in WireType, EndInv, ReturnInv, Moves,
           p1' \in BeforeRelay, "s01" \notin broken'
    PROVE  wire'["p1p0"] = <<>>
<1>1. "p1p0" \in Channels /\ StreamOf("p1p0") = "s01"
  BY DEF Channels, StreamOf
<1>2. "s01" \notin broken
  BY DEF Moves, Peer0Moves, Peer1Moves, Peer2Moves, UserMoves, Idles, Opens, Exchanges, Connects, FallsBack,
         Peer0Leaves, Accepts, Joins, Declines, Forwards, RelayStops, Listens, Answers, Switches, Peer2Leaves,
         Sends, Gets, Loses
<1>3. p1 \in BeforeRelay /\ ~Joins /\ ~Declines /\ ~RelayStops /\ ~Forwards("p0p1", "p1p2") /\ ~Forwards("p2p1", "p1p0")
  <2>1. Opens => p1 = "none"
    BY DEF Opens, IInv, AddressInv
  <2> QED
    BY <2>1
       DEF BeforeRelay, Moves, Peer0Moves, Peer1Moves, Peer2Moves, UserMoves, Idles, Opens, Exchanges, Connects,
           FallsBack, Peer0Leaves, Accepts, Joins, Declines, Forwards, RelayStops, Listens, Answers, Switches,
           Peer2Leaves, Sends, Gets, Loses
<1>4. wire["p1p0"] = <<>>
  BY <1>2, <1>3 DEF ReturnInv
<1>5. wire'["p1p0"] \in Msgs
  BY <1>1 DEF WireType, Msgs
<1>6. \A x \in Message \ Ended : ~Taken("p1p0", x)
  BY <1>1, <1>4, <1>5, TakenOpen
<1>7. {"InternetAddressInformation", "ExchangeAddressInformation"} \subseteq Message \ Ended
  BY DEF Message, Protocol, Ended
<1> HIDE DEF Message, Ended
<1>8. ~Exchanges /\ ~Connects /\ ~Gets("peer0", "peer2")
  BY <1>6, <1>7 DEF Exchanges, Connects, Gets, Incoming
<1>9. wire'["p1p0"] = wire["p1p0"]
  BY <1>1, <1>3, <1>8
     DEF Moves, Peer0Moves, Peer1Moves, Peer2Moves, UserMoves, Idles, Opens, FallsBack, Peer0Leaves, Accepts,
         Listens, Answers, Switches, Peer2Leaves, Sends, Gets, Loses, OnlyIn, Incoming, Outgoing
<1> QED
  BY <1>4, <1>9


\* I, the internet address of peer0, is at most the first message of s.
FirstOnly(s) ==
    \/ Without("InternetAddressInformation", s)
    \/ \E r : /\ Without("InternetAddressInformation", r)
              /\ s = Cat(One("InternetAddressInformation"), r)

\* That stays so when anything else is written.
LEMMA FirstOnlyLaws ==
    ASSUME NEW s, FirstOnly(s), NEW x \in Message, x # "InternetAddressInformation"
    PROVE  FirstOnly(Cat(s, One(x))) /\ FirstOnly(One(x)) /\ FirstOnly(<<>>)
<1> DEFINE S == Message \ {"InternetAddressInformation"}
<1>1. S \subseteq Message /\ x \in S /\ "InternetAddressInformation" \in Message
  BY DEF Message, Protocol
<1>2. \A t : Without("InternetAddressInformation", t) <=> t \in Seq(S)
  BY DEF Without
<1> HIDE DEF S, Message
<1>3. One(x) \in Seq(S) /\ One(x) \in Seq(Message) /\ One("InternetAddressInformation") \in Seq(Message)
  BY <1>1, OneItem
<1>4. CASE s \in Seq(S)
  <2>1. Cat(s, One(x)) \in Seq(S)
    BY <1>3, <1>4, CatLaws
  <2>2. <<>> \in Seq(S)
    BY SMTT(20)
  <2> QED
    BY <1>2, <1>3, <2>1, <2>2 DEF FirstOnly
<1>5. CASE s \notin Seq(S)
  <2>1. PICK r \in Seq(S) : s = Cat(One("InternetAddressInformation"), r)
    BY <1>2, <1>5 DEF FirstOnly
  <2>2. r \in Seq(Message)
    BY <1>1, Wider
  <2>3. Cat(r, One(x)) \in Seq(S)
    BY <1>3, CatLaws
  <2>4. Cat(Cat(One("InternetAddressInformation"), r), One(x))
            = Cat(One("InternetAddressInformation"), Cat(r, One(x)))
    BY <1>3, <2>2, CatLaws, SMTT(20)
  <2>5. <<>> \in Seq(S)
    BY SMTT(20)
  <2> QED
    BY <1>2, <1>3, <2>1, <2>3, <2>4, <2>5 DEF FirstOnly
<1> QED
  BY <1>4, <1>5

\* The internet address, alone or with the end of the stream behind it.
LEMMA FirstOnlyInfo ==
    /\ FirstOnly(Cat(<<>>, One("InternetAddressInformation")))
    /\ FirstOnly(Cat(<<>>, <<"InternetAddressInformation", "Eof">>))
<1> DEFINE S == Message \ {"InternetAddressInformation"}
<1>1. "InternetAddressInformation" \in Message /\ "Eof" \in S /\ "Eof" \in Message
  BY DEF Message, Protocol
<1>2. \A t : Without("InternetAddressInformation", t) <=> t \in Seq(S)
  BY DEF Without
<1> HIDE DEF S, Message
<1>3. <<>> \in Seq(S) /\ One("Eof") \in Seq(S)
  BY <1>1, OneItem, SMTT(20)
<1>4. Cat(<<>>, One("InternetAddressInformation")) = Cat(One("InternetAddressInformation"), <<>>)
  BY SMTT(20) DEF Cat, One
<1>5. Cat(<<>>, <<"InternetAddressInformation", "Eof">>) = Cat(One("InternetAddressInformation"), One("Eof"))
  BY SMTT(20) DEF Cat, One
<1> QED
  BY <1>2, <1>3, <1>4, <1>5 DEF FirstOnly

\* peer0 waits for its internet address.
LEMMA ReturnFirst ==
    ASSUME TypeOK, IInv, wire' \in WireType, EndInv, ReturnInv, Moves,
           p0' = "WaitingForInternetAddressInformation"
    PROVE  FirstOnly(wire'["p1p0"])
<1>1. "p0p1" \in Channels /\ "p1p0" \in Channels /\ "p1p2" \in Channels /\ "p2p1" \in Channels
      /\ StreamOf("p1p0") = "s01"
  BY DEF Channels, StreamOf
<1>2. "Eof" \in Message /\ "Reset" \in Message
  BY DEF Message
<1>3. FirstOnly(One("Reset")) /\ FirstOnly(<<>>) /\ FirstOnly(One("Eof")) /\ FirstOnly(Cat(<<>>, One("Eof")))
  <2>1. <<>> \in Seq(Message \ {"InternetAddressInformation"})
    BY SMTT(20)
  <2>2. FirstOnly(<<>>)
    BY <2>1 DEF FirstOnly, Without
  <2> QED
    BY <1>2, <2>2, FirstOnlyLaws
<1>4. p1 \in BeforeRelay => FirstOnly(wire["p1p0"])
  BY <1>1, <1>3 DEF ReturnInv, EndInv
<1>5. p1 \in BeforeRelay /\ "s01" \notin broken => wire["p1p0"] = <<>>
  BY DEF ReturnInv
<1>6. p0 = "WaitingForInternetAddressInformation" => FirstOnly(wire["p1p0"])
  BY DEF ReturnInv, FirstOnly
<1>7. CASE Opens
  <2>1. p1 \in BeforeRelay
    BY <1>7 DEF Opens, IInv, AddressInv, BeforeRelay
  <2>2. wire'["p1p0"] = wire["p1p0"]
    BY <1>1, <1>7 DEF Opens, OnlyIn
  <2> QED
    BY <1>4, <2>1, <2>2
<1>8. CASE ~Opens
  <2>1. /\ p0 = "WaitingForInternetAddressInformation"
        /\ ~Exchanges /\ ~Connects /\ ~Gets("peer0", "peer2")
    BY <1>8
       DEF Moves, Peer0Moves, Peer1Moves, Peer2Moves, UserMoves, Idles, Exchanges, Connects, FallsBack,
           Peer0Leaves, Accepts, Joins, Declines, Forwards, RelayStops, Listens, Answers, Switches, Peer2Leaves,
           Sends, Gets, Loses, HasProxied
  <2>2. FirstOnly(wire["p1p0"])
    BY <1>6, <2>1
  <2>3. CASE Joins
    <3>1. p1 \in BeforeRelay /\ "s01" \notin broken
      BY <2>3 DEF Joins, BeforeRelay
    <3>2. wire'["p1p0"] = Cat(<<>>, One("InternetAddressInformation"))
      BY <1>1, <1>5, <2>3, <3>1 DEF Joins, Written
    <3> QED
      BY <3>2, FirstOnlyInfo
  <2>4. CASE Declines
    <3>1. p1 \in BeforeRelay
      BY <2>4 DEF Declines, BeforeRelay
    <3>2. \/ wire'["p1p0"] = wire["p1p0"] \/ wire'["p1p0"] = Cat(<<>>, One("Eof"))
          \/ wire'["p1p0"] = Cat(<<>>, <<"InternetAddressInformation", "Eof">>)
      BY <1>1, <1>5, <2>4, <3>1 DEF Declines, Written
    <3> QED
      BY <1>3, <2>2, <3>2, FirstOnlyInfo
  <2>5. CASE Forwards("p2p1", "p1p0")
    <3>1. PICK x \in Message \ Ended : Taken("p2p1", x) /\ Written("p1p0", One(x))
      BY <2>5 DEF Forwards
    <3>2. x \in Back(result)
      <4>1. wire["p2p1"] \in Seq(Back(result)) /\ Back(result) \in SUBSET Message
        BY BackLaws DEF ReturnInv
      <4>2. wire'["p2p1"] \in Msgs
        BY <1>1 DEF WireType, Msgs
      <4> QED
        BY <3>1, <4>1, <4>2, TakeKeeps
    <3>3. x # "InternetAddressInformation" /\ x \in Message
      BY <3>1, <3>2, BackLaws
    <3>4. FirstOnly(Cat(wire["p1p0"], One(x)))
      BY <2>2, <3>3, FirstOnlyLaws
    <3> QED
      BY <2>2, <3>1, <3>4 DEF Written
  <2>6. CASE RelayStops
    <3>1. FirstOnly(Cat(wire["p1p0"], One("Eof")))
      BY <1>2, <2>2, FirstOnlyLaws
    <3> QED
      BY <2>2, <2>6, <3>1 DEF RelayStops, Written
  <2>7. CASE \E s \in {"s01", "s12"} : Loses(s)
    BY <1>1, <1>3, <2>2, <2>7 DEF Loses
  <2>8. CASE \/ Idles \/ FallsBack \/ Peer0Leaves \/ Accepts \/ Forwards("p0p1", "p1p2") \/ Peer2Moves
             \/ Sends("peer0", "peer2") \/ Sends("peer2", "peer0") \/ Gets("peer2", "peer0")
    <3>1. wire'["p1p0"] = wire["p1p0"]
      BY <1>1, <2>8
         DEF Peer2Moves, Idles, FallsBack, Peer0Leaves, Accepts, Forwards, Listens, Answers, Switches,
             Peer2Leaves, Sends, Gets, OnlyIn, Incoming, Outgoing
    <3> QED
      BY <2>2, <3>1
  <2> QED
    BY <1>8, <2>1, <2>3, <2>4, <2>5, <2>6, <2>7, <2>8
       DEF Moves, Peer0Moves, Peer1Moves, UserMoves, Peer2Moves
<1> QED
  BY <1>7, <1>8


\* peer0 has read its internet address, and is not told it again.
LEMMA ReturnInformed ==
    ASSUME TypeOK, IInv, wire' \in WireType, EndInv, ReturnInv, Moves, Informed'
    PROVE  p1' \notin BeforeRelay /\ Without("InternetAddressInformation", wire'["p1p0"])
<1> DEFINE S == Message \ {"InternetAddressInformation"}
<1>1. "p0p1" \in Channels /\ "p1p0" \in Channels /\ "p1p2" \in Channels /\ "p2p1" \in Channels
      /\ StreamOf("p1p0") = "s01"
  BY DEF Channels, StreamOf
<1>2. S \in SUBSET Message /\ "Eof" \in S /\ "Reset" \in S /\ "InternetAddressInformation" \notin S
      /\ "InternetAddressInformation" \in Message \ Ended
  BY DEF Message, Protocol, Ended
<1>3. \A t : Without("InternetAddressInformation", t) <=> t \in Seq(S)
  BY DEF Without
<1>4. wire["p2p1"] \in Seq(S)
  <2>1. Back(result) \subseteq S
    BY BackLaws
  <2>2. wire["p2p1"] \in Seq(Back(result))
    BY DEF ReturnInv
  <2> HIDE DEF S
  <2> QED
    BY <2>1, <2>2, Wider
<1>5. wire'["p1p0"] \in Msgs
  BY <1>1 DEF WireType, Msgs
<1> HIDE DEF S, Message, Ended
<1>6. CASE Exchanges
  <2>1. Taken("p1p0", "InternetAddressInformation") /\ p0 = "WaitingForInternetAddressInformation" /\ p1' = p1
    BY <1>6 DEF Exchanges
  <2>2. wire["p1p0"] # <<>> /\ "s01" \notin broken
    BY <1>1, <1>2, <1>5, <2>1, TakenOpen
  <2>3. p1' \notin BeforeRelay
    BY <2>1, <2>2 DEF ReturnInv
  <2>4. wire["p1p0"] \notin Seq(S)
    BY <1>2, <1>5, <2>1, TakeKeeps
  <2>5. PICK r \in Seq(S) : wire["p1p0"] = Cat(One("InternetAddressInformation"), r)
    BY <1>3, <2>1, <2>4 DEF ReturnInv
  <2>6. r \in Seq(Message) /\ wire'["p1p0"] \in Seq(Message)
    BY <1>2, <1>5, Wider DEF Msgs
  <2>7. Cat(One("InternetAddressInformation"), r) = Cat(One("InternetAddressInformation"), wire'["p1p0"])
    BY <2>1, <2>5 DEF Taken
  <2>8. r = wire'["p1p0"]
    BY <1>2, <2>6, <2>7, ConsCancel
  <2> QED
    BY <1>3, <2>3, <2>8
<1>7. CASE ~Exchanges
  <2>1. Informed
    <3>1. Opens \/ Exchanges => result = "none"
      BY DEF Opens, Exchanges, IInv, AgreeInv
    <3> QED
      BY <1>7, <3>1
         DEF Informed, Moves, Peer0Moves, Peer1Moves, Peer2Moves, UserMoves, Idles, Opens, Connects,
             FallsBack, Peer0Leaves, Accepts, Joins, Declines, Forwards, RelayStops, Listens, Answers, Switches,
             Peer2Leaves, Sends, Gets, Loses
  <2>2. p1 \notin BeforeRelay /\ wire["p1p0"] \in Seq(S)
    BY <1>3, <2>1 DEF ReturnInv
  <2>3. ~Opens /\ ~Accepts /\ ~Joins /\ ~Declines
    BY <2>2 DEF Opens, Accepts, Joins, Declines, BeforeRelay, IInv, AddressInv
  <2>4. p1' \notin BeforeRelay
    BY <1>7, <2>2, <2>3
       DEF BeforeRelay, Moves, Peer0Moves, Peer1Moves, Peer2Moves, UserMoves, Idles, Connects, FallsBack,
           Peer0Leaves, Forwards, RelayStops, Listens, Answers, Switches, Peer2Leaves, Sends, Gets, Loses
  <2>5. Keeps("p1p0", S)
    <3>1. CASE Forwards("p0p1", "p1p2")
      <4>1. \A c \in Channels : c # "p1p2" => Keeps(c, S)
        BY <1>1, <1>2, <3>1, ForwardKeeps
      <4> QED
        BY <1>1, <4>1
    <3>2. CASE Forwards("p2p1", "p1p0")
      BY <1>1, <1>2, <1>4, <3>2, ForwardKeeps
    <3>3. CASE \E s \in {"s01", "s12"} : Loses(s)
      BY <1>1, <1>2, <3>3, LossKeeps
    <3>4. CASE Peer0Moves \/ RelayStops \/ Peer2Moves \/ UserMoves
      BY <1>1, <1>2, <3>4, StepKeeps DEF Peer0Moves, Peer2Moves, UserMoves
    <3> QED
      BY <2>3, <3>1, <3>2, <3>3, <3>4 DEF Moves, Peer1Moves
  <2> QED
    BY <1>3, <2>2, <2>4, <2>5 DEF Keeps
<1> QED
  BY <1>6, <1>7

\* ReturnInv is kept.
LEMMA ReturnStep ==
    ASSUME TypeOK, IInv, wire' \in WireType, EndInv, StageInv, ReturnInv, Moves PROVE ReturnInv'
<1>1. /\ wire'["p2p1"] \in Seq(Back(result'))
      /\ wire'["p1p0"] \in Seq({"InternetAddressInformation"} \cup Back(result'))
  BY ReturnTypes
<1>2. p1' \in BeforeRelay /\ "s01" \notin broken' => wire'["p1p0"] = <<>>
  BY ReturnEmpty
<1>3. p0' = "WaitingForInternetAddressInformation" => FirstOnly(wire'["p1p0"])
  BY ReturnFirst
<1>4. Informed' => p1' \notin BeforeRelay /\ Without("InternetAddressInformation", wire'["p1p0"])
  BY ReturnInformed
<1> QED
  BY <1>1, <1>2, <1>3, <1>4 DEF ReturnInv, FirstOnly

-----------------------------------------------------------------------------
(* ExchangeAddressInformation is sent once *)

Token == "ExchangeAddressInformation"

\* s holds it at most once.
Single(s) ==
    \/ Without(Token, s)
    \/ \E a, b : Without(Token, a) /\ Without(Token, b) /\ s = Cat(a, Cat(One(Token), b))

\* It is at most in channel c, and there at most once.
TokenAt(c) == Single(wire[c]) /\ \A d \in Channels \ {c} : Without(Token, wire[d])

TokenInv ==
    /\ p0 = "WaitingForExchangeAddressInformation" => \E c \in Channels : TokenAt(c)
    /\ Live0 /\ p0 # "WaitingForExchangeAddressInformation" =>
           \A c \in Channels : Without(Token, wire[c])

\* That stays so when anything else is written, or it is written for the first time.
LEMMA SingleLaws ==
    ASSUME NEW s, Single(s), NEW x \in Message
    PROVE  /\ x # Token => Single(Cat(s, One(x)))
           /\ Without(Token, s) => Single(Cat(s, One(Token)))
           /\ s \in Msgs
<1> DEFINE S == Message \ {Token}
<1>1. S \subseteq Message /\ Token \in Message /\ (x # Token => x \in S)
  BY DEF Message, Protocol, Token
<1>2. \A t : Without(Token, t) <=> t \in Seq(S)
  BY DEF Without
<1> HIDE DEF S, Message, Token
<1>3. (x # Token => One(x) \in Seq(S)) /\ One(x) \in Seq(Message) /\ One(Token) \in Seq(Message) /\ <<>> \in Seq(S)
  BY <1>1, OneItem, SMTT(20)
<1>4. CASE s \in Seq(S)
  <2>1. x # Token => Cat(s, One(x)) \in Seq(S)
    BY <1>3, <1>4, CatLaws
  <2>2. Cat(One(Token), <<>>) = One(Token)
    BY <1>3, EmptyLaws
  <2>3. s \in Seq(Message)
    BY <1>1, <1>4, Wider
  <2> QED
    BY <1>2, <1>3, <1>4, <2>1, <2>2, <2>3 DEF Single, Msgs
<1>5. CASE s \notin Seq(S)
  <2>1. PICK a, b : a \in Seq(S) /\ b \in Seq(S) /\ s = Cat(a, Cat(One(Token), b))
    BY <1>2, <1>5 DEF Single
  <2>2. a \in Seq(Message) /\ b \in Seq(Message)
    BY <1>1, <2>1, Wider
  <2> DEFINE v == Cat(One(Token), b)
             w == Cat(b, One(x))
  <2>3. v \in Seq(Message) /\ w \in Seq(Message)
    BY <1>3, <2>2, CatLaws
  <2>4. Cat(v, One(x)) = Cat(One(Token), w)
    BY <1>3, <2>2, CatLaws, SMTT(20)
  <2>5. x # Token => w \in Seq(S)
    BY <1>3, <2>1, CatLaws
  <2>6. s = Cat(a, v)
    BY <2>1
  <2> HIDE DEF v, w
  <2>7. Cat(Cat(a, v), One(x)) = Cat(a, Cat(v, One(x))) /\ Cat(a, v) \in Seq(Message)
    BY <1>3, <2>2, <2>3, CatLaws, SMTT(20)
  <2>8. Cat(s, One(x)) = Cat(a, Cat(One(Token), w)) /\ s \in Seq(Message)
    BY <2>4, <2>6, <2>7
  <2> QED
    BY <1>2, <1>5, <2>1, <2>5, <2>8 DEF Single, Msgs
<1> QED
  BY <1>4, <1>5

\* The same, when the first message is taken.
LEMMA SingleTail ==
    ASSUME NEW r \in Msgs, NEW x \in Message, Single(Cat(One(x), r))
    PROVE  Single(r) /\ (x = Token => Without(Token, r))
<1> DEFINE S == Message \ {Token}
           s == Cat(One(x), r)
<1>1. S \subseteq Message /\ Token \in Message /\ Token \notin S
  BY DEF Message, Protocol, Token
<1>2. \A t : Without(Token, t) <=> t \in Seq(S)
  BY DEF Without
<1> HIDE DEF S, Message, Token
<1>3. r \in Seq(Message) /\ One(x) \in Seq(Message)
  BY OneItem DEF Msgs
<1>4. CASE s \in Seq(S)
  <2>1. r \in Seq(S) /\ One(x) \in Seq(S)
    BY <1>1, <1>3, <1>4, Parts
  <2> QED
    BY <1>2, <2>1 DEF Single
<1>5. CASE s \notin Seq(S)
  <2>1. PICK a, b : a \in Seq(S) /\ b \in Seq(S) /\ s = Cat(a, Cat(One(Token), b))
    BY <1>2, <1>5 DEF Single
  <2>2. a \in Seq(Message) /\ b \in Seq(Message)
    BY <1>1, <2>1, Wider
  <2>3. CASE a = <<>>
    <3> DEFINE v == Cat(One(Token), b)
    <3>1. v \in Seq(Message)
      BY <1>1, <2>2, FirstLaws
    <3> HIDE DEF v
    <3>2. Cat(<<>>, v) = v
      BY <3>1, EmptyLaws
    <3>3. Cat(One(x), r) = Cat(One(Token), b)
      BY <2>1, <2>3, <3>2 DEF v
    <3>4. r = b
      BY <1>1, <1>3, <2>2, <3>3, ConsCancel, SMTT(20)
    <3> QED
      BY <1>2, <2>1, <3>4 DEF Single
  <2>4. CASE a # <<>>
    <3>1. Head(a) \in S /\ Tail(a) \in Seq(S) /\ a = Cat(One(Head(a)), Tail(a))
      BY <2>1, <2>4, Cons
    <3> DEFINE y == Head(a)
               c == Tail(a)
               v == Cat(One(Token), b)
    <3>2. y \in S /\ y \in Message /\ c \in Seq(S) /\ a = Cat(One(y), c)
      BY <1>1, <3>1
    <3>3. v \in Seq(Message)
      BY <1>1, <2>2, FirstLaws
    <3>4. s = Cat(a, v)
      BY <2>1
    <3> HIDE DEF y, c, v
    <3>5. c \in Seq(Message) /\ One(y) \in Seq(Message)
      BY <1>1, <3>2, Wider, OneItem
    <3>6. Cat(Cat(One(y), c), v) = Cat(One(y), Cat(c, v)) /\ Cat(c, v) \in Seq(Message)
      BY <3>3, <3>5, CatLaws, SMTT(20)
    <3> DEFINE u == Cat(c, v)
    <3>7. Cat(One(x), r) = Cat(One(y), u) /\ u \in Seq(Message)
      BY <3>2, <3>4, <3>6
    <3> HIDE DEF u
    <3>8. x = y /\ r = u
      BY <1>3, <3>2, <3>7, ConsCancel, SMTT(20)
    <3>9. r = Cat(c, Cat(One(Token), b)) /\ x # Token
      BY <1>1, <3>2, <3>8 DEF u, v
    <3> QED
      BY <1>2, <2>1, <3>2, <3>9 DEF Single
  <2> QED
    BY <2>3, <2>4
<1> QED
  BY <1>4, <1>5


\* The message moves on.
LEMMA TokenMoves ==
    ASSUME wire' \in WireType, NEW from \in Channels, NEW to \in Channels, from # to,
           Taken(from, Token), Written(to, One(Token)), StreamOf(to) \notin broken, OnlyIn({from, to}),
           NEW c \in Channels, TokenAt(c)
    PROVE  TokenAt(to)'
<1> DEFINE S == Message \ {Token}
<1>1. S \in SUBSET Message /\ Token \in Message /\ Token \notin S
  BY DEF Message, Protocol, Token
<1>2. \A t : Without(Token, t) <=> t \in Seq(S)
  BY DEF Without
<1>3. wire'[from] \in Msgs
  BY DEF WireType, Msgs
<1> HIDE DEF S, Message, Token
<1>4. wire[from] \notin Seq(S)
  BY <1>1, <1>3, TakeKeeps
<1>5. c = from
  BY <1>2, <1>4 DEF TokenAt
<1>6. Without(Token, wire'[from])
  BY <1>1, <1>3, <1>5, SingleTail DEF TokenAt, Taken
<1>7. Without(Token, wire[to])
  BY <1>5 DEF TokenAt
<1>8. Single(wire'[to])
  <2>1. Single(wire[to])
    BY <1>7 DEF Single
  <2>2. Single(Cat(wire[to], One(Token)))
    BY <1>1, <1>7, <2>1, SingleLaws
  <2> QED
    BY <2>2 DEF Written
<1>9. \A d \in Channels \ {to} : Without(Token, wire'[d])
  BY <1>5, <1>6 DEF TokenAt, OnlyIn
<1> QED
  BY <1>8, <1>9 DEF TokenAt

\* Or it stays.
LEMMA TokenStays ==
    ASSUME NEW c \in Channels, TokenAt(c), \A d \in Channels : Keeps(d, Message \ {Token}),
           Single(wire[c]) => Single(wire'[c])
    PROVE  TokenAt(c)'
  BY DEF TokenAt, Keeps, Without

\* While peer0 waits for the addresses of peer2.
LEMMA TokenWaiting ==
    ASSUME TypeOK, IInv, wire' \in WireType, StageInv, ReturnInv, Moves, NEW c \in Channels, TokenAt(c),
           p0 = "WaitingForExchangeAddressInformation", p0' = p0
    PROVE  \E d \in Channels : TokenAt(d)'
<1> DEFINE S == Message \ {Token}
<1>1. "p0p1" \in Channels /\ "p1p0" \in Channels /\ "p1p2" \in Channels /\ "p2p1" \in Channels
      /\ StreamOf("p1p0") = "s01" /\ StreamOf("p1p2") = "s12" /\ StreamOf("p2p1") = "s12"
  BY DEF Channels, StreamOf
<1>2. /\ S \in SUBSET Message /\ Token \in Message /\ "Eof" \in S /\ "Reset" \in S /\ "Eof" \in Message
      /\ "Eof" # Token /\ "Reset" \in Message /\ "ExchangeAddressInformation" = Token
      /\ {"BuildConnectionToPeer", "InternetAddressInformation", "ProxyConnection"} \subseteq Message
      /\ S = Message \ {Token}
  BY DEF Message, Protocol, Token
<1>3. \A t : Without(Token, t) <=> t \in Seq(S)
  BY DEF Without
<1>4. \A d \in Channels : wire'[d] \in Msgs
  BY DEF WireType, Msgs
<1> HIDE DEF S, Message, Token
<1>5. result = "none" /\ p1 \notin BeforeRelay /\ p2 # "passed"
  BY DEF ReturnInv, Informed, IInv, AgreeInv, StageInv
<1>6. ASSUME NEW d \in Channels, NEW x \in Message, Taken(d, x), Single(wire[d]) PROVE Single(wire'[d])
  BY <1>4, <1>6, SingleTail DEF Taken
<1>7. ASSUME NEW d \in Channels, NEW x \in Message, x # Token, Written(d, One(x)), Single(wire[d])
      PROVE  Single(wire'[d])
  BY <1>7, SingleLaws DEF Written
<1>8. ASSUME \A d \in Channels : Keeps(d, S), Single(wire[c]) => Single(wire'[c])
      PROVE  \E d \in Channels : TokenAt(d)'
  BY <1>2, <1>8, TokenStays
<1>9. CASE Idles
  <2>1. \A d \in Channels : Keeps(d, S)
    BY <1>2, <1>9, StepKeeps
  <2> QED
    BY <1>8, <1>9, <2>1 DEF Idles
<1>10. ASSUME NEW from \in Channels, NEW to \in Channels, from # to, Forwards(from, to)
       PROVE  \E d \in Channels : TokenAt(d)'
  <2>1. PICK x \in Message \ Ended : Taken(from, x) /\ Written(to, One(x))
    BY <1>10 DEF Forwards
  <2>2. OnlyIn({from, to}) /\ StreamOf(to) \notin broken
    BY <1>10 DEF Forwards
  <2>3. CASE x = Token
    BY <1>10, <2>1, <2>2, <2>3, TokenMoves
  <2>4. CASE x # Token
    <3>1. x \in S /\ x \in Message
      BY <1>2, <2>1, <2>4
    <3>2. One(x) \in Seq(S)
      BY <3>1, OneItem
    <3>3. Keeps(to, S)
      BY <2>1, <3>2, WriteKeeps
    <3>4. \A d \in Channels : d # to => Keeps(d, S)
      BY <1>2, <1>10, ForwardKeeps
    <3>5. Single(wire[c]) => Single(wire'[c])
      BY <1>6, <1>7, <2>1, <2>2, <2>4, <3>1 DEF OnlyIn
    <3> QED
      BY <1>8, <3>3, <3>4, <3>5
  <2> QED
    BY <2>3, <2>4
<1>11. CASE RelayStops
  <2>1. \A d \in Channels : Keeps(d, S)
    BY <1>2, <1>11, StepKeeps
  <2>2. Single(wire[c]) => Single(wire'[c])
    BY <1>1, <1>2, <1>7, <1>11 DEF RelayStops, OnlyIn
  <2> QED
    BY <1>8, <2>1, <2>2
<1>12. CASE Listens \/ Switches
  <2>1. \A d \in Channels : Keeps(d, S)
    BY <1>2, <1>12, StepKeeps
  <2>2. Single(wire[c]) => Single(wire'[c])
    BY <1>1, <1>2, <1>6, <1>12 DEF Listens, Switches, OnlyIn
  <2> QED
    BY <1>8, <2>1, <2>2
<1>13. CASE Answers
  <2>1. /\ Taken("p1p2", Token) /\ Written("p2p1", One(Token)) /\ OnlyIn({"p1p2", "p2p1"})
        /\ StreamOf("p2p1") \notin broken
    BY <1>1, <1>2, <1>13 DEF Answers
  <2> QED
    BY <1>1, <2>1, TokenMoves
<1>14. CASE Peer2Leaves
  <2>1. \A d \in Channels : Keeps(d, S)
    BY <1>2, <1>14, StepKeeps
  <2>2. Single(wire[c]) => Single(wire'[c])
    BY <1>1, <1>2, <1>7, <1>14 DEF Peer2Leaves, OnlyIn
  <2> QED
    BY <1>8, <2>1, <2>2
<1>15. ASSUME NEW s \in {"s01", "s12"}, Loses(s) PROVE \E d \in Channels : TokenAt(d)'
  <2>1. \A d \in Channels : Keeps(d, S)
    BY <1>2, <1>15, LossKeeps
  <2>2. Single(One("Reset"))
    BY <1>2, <1>3, OneItem DEF Single
  <2>3. Single(wire[c]) => Single(wire'[c])
    BY <1>15, <2>2 DEF Loses
  <2> QED
    BY <1>8, <2>1, <2>3
<1>16. ASSUME Sends("peer0", "peer2") \/ Sends("peer2", "peer0") \/ Gets("peer0", "peer2") \/ Gets("peer2", "peer0")
       PROVE  FALSE
  BY <1>5, <1>16 DEF Sends, Gets, HasProxied
<1>17. ~Opens /\ ~Exchanges /\ ~Connects /\ ~FallsBack /\ ~Peer0Leaves /\ ~Accepts /\ ~Joins /\ ~Declines
  BY <1>5 DEF Opens, Exchanges, Connects, FallsBack, Peer0Leaves, Accepts, Joins, Declines, BeforeRelay
<1>18. ASSUME Forwards("p0p1", "p1p2") \/ Forwards("p2p1", "p1p0") PROVE \E d \in Channels : TokenAt(d)'
  BY <1>1, <1>10, <1>18
<1> QED
  BY <1>9, <1>11, <1>12, <1>13, <1>14, <1>15, <1>16, <1>17, <1>18
     DEF Moves, Peer0Moves, Peer1Moves, Peer2Moves, UserMoves

\* TokenInv is kept.
LEMMA TokenStep ==
    ASSUME TypeOK, IInv, wire' \in WireType, StageInv, ReturnInv, TokenInv, Moves PROVE TokenInv'
<1> DEFINE S == Message \ {Token}
<1>1. "p0p1" \in Channels /\ "p1p0" \in Channels /\ "p1p2" \in Channels /\ "p2p1" \in Channels
      /\ StreamOf("p0p1") = "s01"
  BY DEF Channels, StreamOf
<1>2. /\ S \in SUBSET Message /\ Token \in Message /\ Token \notin S /\ "ExchangeAddressInformation" = Token
      /\ {"ProxyBuildConnectionToPeer", "BuildConnectionToPeer", "InternetAddressInformation",
          "ProxyConnection", "Eof", "Reset"} \subseteq S
      /\ Data \subseteq S
  BY DataAssumption DEF Message, Protocol, Token
<1>3. \A t : Without(Token, t) <=> t \in Seq(S)
  BY DEF Without
<1>4. \A d \in Channels : wire'[d] \in Msgs
  BY DEF WireType, Msgs
<1>5. p0 # "ConnectionBuilt" /\ p0 # "Dropped" => result = "none"
  BY DEF IInv, AgreeInv
<1> HIDE DEF S, Message, Token
<1>6. ASSUME p0' = "WaitingForExchangeAddressInformation" PROVE \E d \in Channels : TokenAt(d)'
  <2>1. CASE Exchanges
    <3>1. \A d \in Channels : Without(Token, wire[d])
      BY <1>5, <2>1 DEF Exchanges, TokenInv, Live0
    <3>2. Written("p0p1", One(Token)) /\ StreamOf("p0p1") \notin broken
      BY <1>1, <1>2, <2>1 DEF Exchanges
    <3>3. Single(wire["p0p1"])
      BY <1>1, <3>1 DEF Single
    <3>4. Single(Cat(wire["p0p1"], One(Token)))
      BY <1>1, <1>2, <3>1, <3>3, SingleLaws
    <3>5. Single(wire'["p0p1"])
      BY <3>2, <3>4 DEF Written
    <3>6. \A d \in Channels : d # "p0p1" => Keeps(d, S)
      BY <1>2, <2>1, StepKeeps
    <3>7. TokenAt("p0p1")'
      BY <1>1, <1>3, <3>1, <3>5, <3>6 DEF TokenAt, Keeps
    <3> QED
      BY <1>1, <3>7
  <2>2. CASE ~Exchanges
    <3>1. p0 = "WaitingForExchangeAddressInformation"
      BY <1>6, <2>2
         DEF Moves, Peer0Moves, Peer1Moves, Peer2Moves, UserMoves, Idles, Opens, Connects, FallsBack,
             Peer0Leaves, Accepts, Joins, Declines, Forwards, RelayStops, Listens, Answers, Switches, Peer2Leaves,
             Sends, Gets, Loses
    <3>2. PICK c \in Channels : TokenAt(c)
      BY <3>1 DEF TokenInv
    <3> QED
      BY <1>6, <3>1, <3>2, TokenWaiting
  <2> QED
    BY <2>1, <2>2
<1>7. ASSUME Live0', p0' # "WaitingForExchangeAddressInformation", NEW d \in Channels
      PROVE  Without(Token, wire'[d])
  <2>1. CASE Connects
    <3>1. PICK c \in Channels : TokenAt(c)
      BY <2>1 DEF Connects, TokenInv
    <3>2. Taken("p1p0", Token) /\ OnlyIn({"p1p0"})
      BY <1>2, <2>1 DEF Connects
    <3>3. wire["p1p0"] \notin Seq(S)
      BY <1>1, <1>2, <1>4, <3>2, TakeKeeps
    <3>4. c = "p1p0"
      BY <1>1, <1>3, <3>1, <3>3 DEF TokenAt
    <3>5. Without(Token, wire'["p1p0"])
      <4>1. Single(Cat(One(Token), wire'["p1p0"])) /\ wire'["p1p0"] \in Msgs
        BY <1>1, <1>4, <3>1, <3>2, <3>4 DEF TokenAt, Taken
      <4> QED
        BY <1>2, <4>1, SingleTail
    <3> QED
      BY <3>1, <3>2, <3>4, <3>5 DEF TokenAt, OnlyIn
  <2>2. CASE ~Connects
    <3>1. Live0 /\ p0 # "WaitingForExchangeAddressInformation" /\ ~Exchanges
      BY <1>5, <1>7, <2>2
         DEF Moves, Peer0Moves, Peer1Moves, Peer2Moves, UserMoves, Idles, Opens, Exchanges, FallsBack,
             Peer0Leaves, Accepts, Joins, Declines, Forwards, RelayStops, Listens, Answers, Switches, Peer2Leaves,
             Sends, Gets, Loses, Live0
    <3>2. \A c \in Channels : wire[c] \in Seq(S)
      BY <1>3, <3>1 DEF TokenInv
    <3>3. ~Answers
      <4>1. ASSUME Answers PROVE Taken("p1p2", Token)
        BY <1>2, <4>1 DEF Answers
      <4>2. ~Taken("p1p2", Token)
        BY <1>1, <1>2, <1>4, <3>2, TakeKeeps
      <4> QED
        BY <4>1, <4>2
    <3>4. ASSUME Forwards("p0p1", "p1p2") \/ Forwards("p2p1", "p1p0") PROVE Keeps(d, S)
      BY <1>1, <1>2, <3>2, <3>4, ForwardKeeps
    <3>5. ASSUME \E s \in {"s01", "s12"} : Loses(s) PROVE Keeps(d, S)
      BY <1>2, <3>5, LossKeeps
    <3>6. ASSUME Peer0Moves \/ Accepts \/ Joins \/ Declines \/ RelayStops \/ Peer2Moves \/ UserMoves
          PROVE  Keeps(d, S)
      BY <1>2, <2>2, <3>1, <3>3, <3>6, StepKeeps DEF Peer0Moves, Peer2Moves, UserMoves
    <3>7. Keeps(d, S)
      BY <3>4, <3>5, <3>6 DEF Moves, Peer1Moves
    <3> QED
      BY <1>3, <3>2, <3>7 DEF Keeps
  <2> QED
    BY <2>1, <2>2
<1> QED
  BY <1>6, <1>7 DEF TokenInv


-----------------------------------------------------------------------------
(* What is carried from one user to the other *)

\* While the streams are joined (j), everything written is read or on its way;
\* afterwards what can be read is a beginning of it.
Carried(j, g, hd, s, down, up) == IF j THEN Whole(g, hd, s, down, up) ELSE Beginning(g, hd, s, down)

\* What is on its way to peer2, until it switches to the proxied stream.
Switching == p2 \in BeforeSwitch /\ result = "proxy" /\ (Joined \/ HasSwitch(wire["p1p2"]))
ToSwitch ==
    \E q : /\ Without("ProxyConnection", q)
           /\ Carried(Joined, <<>>, Cat(q, One("ProxyConnection")), sent["peer0"], wire["p1p2"], wire["p0p1"])

\* And after that, to its user.
ToUser == Carried(Joined, got["peer2"], <<>>, sent["peer0"], wire["p1p2"], wire["p0p1"])

ForwardInv ==
    /\ Switching => ToSwitch
    /\ p2 = "passed" => ToUser
    /\ \E r \in Msgs : Cat(got["peer2"], r) = sent["peer0"]

\* What is on its way to the user of peer0.
ToUser0 == Carried(Joined, got["peer0"], <<>>, sent["peer2"], wire["p1p0"], wire["p2p1"])

BackInv ==
    /\ HasProxied("peer0") => ToUser0
    /\ \E r \in Msgs : Cat(got["peer0"], r) = sent["peer2"]

\* The relay forwards a message of the stream.
LEMMA CarriedForward ==
    ASSUME NEW g, NEW hd, NEW s, NEW down \in Channels, NEW up \in Channels, down # up,
           wire \in WireType, wire' \in WireType,
           NEW x \in Message \ Ended, Taken(up, x), Written(down, One(x)), StreamOf(down) \notin broken,
           Carried(TRUE, g, hd, s, wire[down], wire[up])
    PROVE  Carried(TRUE, g, hd, s, wire'[down], wire'[up])
<1>1. wire[down] \in Msgs /\ wire'[up] \in Msgs
  BY DEF WireType, Msgs
<1>2. Whole(g, hd, s, wire[down], Cat(One(x), wire'[up]))
  BY DEF Carried, Taken
<1>3. Whole(g, hd, s, Cat(wire[down], One(x)), wire'[up])
  BY <1>1, <1>2, WholeForward
<1> QED
  BY <1>3 DEF Carried, Written

\* It ends.
LEMMA CarriedEnds ==
    ASSUME NEW j, NEW g, NEW hd, NEW s, NEW down \in Channels, NEW up, wire \in WireType,
           Written(down, One("Eof")), Carried(j, g, hd, s, wire[down], up), NEW more
    PROVE  Carried(FALSE, g, hd, s, wire'[down], more)
<1>1. wire[down] \in Msgs
  BY DEF WireType, Msgs
<1>2. Beginning(g, hd, s, wire[down])
  BY <1>1, WholeBegins DEF Carried
<1>3. Beginning(g, hd, s, Cat(wire[down], One("Eof")))
  BY <1>2, BeginningEnds DEF Ended
<1> QED
  BY <1>2, <1>3 DEF Carried, Written

\* A stream is lost.
LEMMA CarriedLost ==
    ASSUME NEW j, NEW g, NEW hd, NEW s, NEW down \in Channels, NEW up, wire \in WireType,
           NEW lost, Loses(lost), Carried(j, g, hd, s, wire[down], up), NEW more
    PROVE  Carried(FALSE, g, hd, s, wire'[down], more)
<1>1. wire[down] \in Msgs
  BY DEF WireType, Msgs
<1>2. Beginning(g, hd, s, wire[down])
  BY <1>1, WholeBegins DEF Carried
<1>3. Beginning(g, hd, s, One("Reset"))
  BY <1>2, BeginningEnds DEF Ended
<1> QED
  BY <1>2, <1>3 DEF Carried, Loses

\* The writer drops its end.
LEMMA CarriedWriterLeaves ==
    ASSUME NEW j, NEW g, NEW hd, NEW s, NEW down, NEW up,
           Written(up, One("Eof")), Carried(j, g, hd, s, down, wire[up])
    PROVE  Carried(j, g, hd, s, down, wire'[up])
<1>1. Whole(g, hd, s, down, wire[up]) => Whole(g, hd, s, down, Cat(wire[up], One("Eof")))
  BY WholeEnds DEF Ended
<1> QED
  BY <1>1 DEF Carried, Written

\* The writer writes.
LEMMA CarriedWrite ==
    ASSUME NEW j, NEW g \in Msgs, NEW hd \in Msgs, NEW s \in Msgs, NEW down \in Msgs, NEW up,
           NEW x \in Message, Written(up, One(x)), StreamOf(up) \notin broken, Clear(wire[up]),
           Carried(j, g, hd, s, down, wire[up])
    PROVE  Carried(j, g, hd, Cat(s, One(x)), down, wire'[up])
<1>1. Whole(g, hd, s, down, wire[up]) => Whole(g, hd, Cat(s, One(x)), down, Cat(wire[up], One(x)))
  BY WholeWrite
<1>2. Beginning(g, hd, s, down) => Beginning(g, hd, Cat(s, One(x)), down)
  BY BeginningWrite
<1> QED
  BY <1>1, <1>2 DEF Carried, Written

\* The reader reads.
LEMMA CarriedRead ==
    ASSUME NEW j, NEW g \in Msgs, NEW s \in Msgs, NEW down \in Channels, NEW up, wire' \in WireType,
           NEW x \in Message \ Ended, Taken(down, x), Carried(j, g, <<>>, s, wire[down], up)
    PROVE  Carried(j, Cat(g, One(x)), <<>>, s, wire'[down], up)
<1>1. wire'[down] \in Msgs /\ wire[down] = Cat(One(x), wire'[down])
  BY DEF WireType, Msgs, Taken
<1> DEFINE d == wire'[down]
<1>2. Whole(g, <<>>, s, Cat(One(x), d), up) => Whole(Cat(g, One(x)), <<>>, s, d, up)
  BY <1>1, WholeRead
<1>3. Beginning(g, <<>>, s, Cat(One(x), d)) => Beginning(Cat(g, One(x)), <<>>, s, d)
  BY <1>1, BeginningRead
<1> QED
  BY <1>1, <1>2, <1>3 DEF Carried

\* What was read is a beginning of what was written.
LEMMA CarriedPrefix ==
    ASSUME NEW j, NEW g \in Msgs, NEW s \in Msgs, NEW down \in Msgs, NEW up, Carried(j, g, <<>>, s, down, up)
    PROVE  \E r \in Msgs : Cat(g, r) = s
<1>1. Beginning(g, <<>>, s, down)
  BY WholeBegins DEF Carried
<1> QED
  BY <1>1, ReadIsPrefix

\* peer2 reads a message of the build protocol.
LEMMA CarriedSwitch ==
    ASSUME NEW j, NEW q, Without("ProxyConnection", q), NEW s \in Msgs, NEW down \in Channels, NEW up,
           wire' \in WireType, NEW x \in Message \ Ended, Taken(down, x),
           Carried(j, <<>>, Cat(q, One("ProxyConnection")), s, wire[down], up)
    PROVE  /\ x = "ProxyConnection" => Carried(j, <<>>, <<>>, s, wire'[down], up)
           /\ x # "ProxyConnection" =>
                  \E r : /\ Without("ProxyConnection", r)
                         /\ Carried(j, <<>>, Cat(r, One("ProxyConnection")), s, wire'[down], up)
<1>1. wire'[down] \in Msgs /\ wire[down] = Cat(One(x), wire'[down])
  BY DEF WireType, Msgs, Taken
<1>2. CASE j
  <2>1. Whole(<<>>, Cat(q, One("ProxyConnection")), s, Cat(One(x), wire'[down]), up)
    BY <1>1, <1>2 DEF Carried
  <2>2. /\ x = "ProxyConnection" => Whole(<<>>, <<>>, s, wire'[down], up)
        /\ x # "ProxyConnection" =>
               \E r : /\ Without("ProxyConnection", r)
                      /\ Whole(<<>>, Cat(r, One("ProxyConnection")), s, wire'[down], up)
    BY <1>1, <2>1, WholeSwitch, SMTT(20)
  <2> QED
    BY <1>2, <2>2 DEF Carried
<1>3. CASE ~j
  <2>1. Beginning(<<>>, Cat(q, One("ProxyConnection")), s, Cat(One(x), wire'[down]))
    BY <1>1, <1>3 DEF Carried
  <2>2. /\ x = "ProxyConnection" => Beginning(<<>>, <<>>, s, wire'[down])
        /\ x # "ProxyConnection" =>
               \E r : /\ Without("ProxyConnection", r)
                      /\ Beginning(<<>>, Cat(r, One("ProxyConnection")), s, wire'[down])
    BY <1>1, <2>1, BeginningSwitch
  <2> QED
    BY <1>3, <2>2 DEF Carried
<1> QED
  BY <1>2, <1>3


\* The users' items are messages.
LEMMA UserTypes ==
    ASSUME TypeOK
    PROVE  /\ sent["peer0"] \in Msgs /\ sent["peer2"] \in Msgs
           /\ got["peer0"] \in Msgs /\ got["peer2"] \in Msgs
           /\ \A c \in Channels : wire[c] \in Msgs
<1>1. sent["peer0"] \in Seq(Data) /\ sent["peer2"] \in Seq(Data)
  BY DEF TypeOK
<1>2. Data \subseteq Message
  BY DEF Message
<1> HIDE DEF Message
<1>3. sent["peer0"] \in Seq(Message)
  BY <1>1, <1>2, Wider
<1>4. sent["peer2"] \in Seq(Message)
  BY <1>1, <1>2, Wider
<1> QED
  BY <1>3, <1>4 DEF TypeOK, Msgs

\* Nothing that concerns the way to peer2 happens.
LEMMA ForwardIdle ==
    ASSUME ForwardInv, wire'["p1p2"] = wire["p1p2"], wire'["p0p1"] = wire["p0p1"],
           Joined' <=> Joined, result' = result,
           p2' \in BeforeSwitch => p2 \in BeforeSwitch, p2' = "passed" => p2 = "passed",
           sent'["peer0"] = sent["peer0"], got'["peer2"] = got["peer2"]
    PROVE  ForwardInv'
<1>1. Switching' => Switching
  BY DEF Switching
<1>2. ToSwitch => ToSwitch'
  BY DEF ToSwitch, Carried
<1>3. ToUser => ToUser'
  BY DEF ToUser, Carried
<1> QED
  BY <1>1, <1>2, <1>3 DEF ForwardInv

\* peer0 does not have the proxied stream as its result.
LEMMA ForwardNoProxy ==
    ASSUME ForwardInv, StageInv', result' # "proxy", UNCHANGED <<sent, got>> PROVE ForwardInv'
  BY DEF ForwardInv, StageInv, Switching

\* peer0 falls back to the proxied stream.
LEMMA ForwardFallsBack ==
    ASSUME TypeOK, IInv, wire' \in WireType, StageInv, ForwardInv, FallsBack PROVE ForwardInv'
<1> DEFINE down == wire["p1p2"]
           up == wire["p0p1"]
           q == Cat(down, up)
<1>1. "p0p1" \in Channels /\ "p1p2" \in Channels /\ StreamOf("p0p1") = "s01"
  BY DEF Channels, StreamOf
<1>2. down \in Msgs /\ up \in Msgs
  BY <1>1, UserTypes
<1>3. p0 \in {"WaitingForConnection", "WaitingForStream"} /\ result' = "proxy" /\ UNCHANGED <<p1, p2, broken, sent, got>>
  BY DEF FallsBack
<1>4. result = "none"
  BY <1>3 DEF IInv, AgreeInv
<1>5. ~HasSwitch(down) /\ ~HasSwitch(up)
  BY <1>4 DEF IInv, AgreeInv
<1>6. wire'["p1p2"] = down /\ wire'["p0p1"] = Cat(up, One("ProxyConnection"))
  BY <1>1 DEF FallsBack, OnlyIn, Written
<1>7. sent["peer0"] = <<>> /\ p2 # "passed"
  BY <1>4 DEF StageInv
<1>8. "ProxyConnection" \in Message
  BY DEF Message, Protocol
<1> HIDE DEF Message
<1>9. Without("ProxyConnection", q)
  <2>1. Without("ProxyConnection", down) /\ Without("ProxyConnection", up)
    BY <1>2, <1>5, SwitchOrNot
  <2> QED
    BY <2>1, CatLaws DEF Without
<1>10. Whole(<<>>, Cat(q, One("ProxyConnection")), <<>>, down, Cat(up, One("ProxyConnection")))
  BY <1>2, <1>8, WholeFromHere
<1>11. Switching' => Joined'
  BY <1>5, <1>6 DEF Switching
<1> HIDE DEF q, down, up
<1>12. Switching' => ToSwitch'
  BY <1>3, <1>6, <1>7, <1>9, <1>10, <1>11 DEF ToSwitch, Carried
<1> QED
  BY <1>3, <1>7, <1>12 DEF ForwardInv

\* The relay forwards to peer2.
LEMMA ForwardForwards ==
    ASSUME TypeOK, wire' \in WireType, EndInv, ForwardInv, Forwards("p0p1", "p1p2") PROVE ForwardInv'
<1>1. "p0p1" \in Channels /\ "p1p2" \in Channels /\ StreamOf("p0p1") = "s01" /\ StreamOf("p1p2") = "s12"
  BY DEF Channels, StreamOf
<1>2. PICK x \in Message \ Ended : Taken("p0p1", x) /\ Written("p1p2", One(x))
  BY DEF Forwards
<1>3. StreamOf("p1p2") \notin broken /\ p1 = "Relaying" /\ UNCHANGED <<p0, result, p1, p2, broken, sent, got>>
  BY DEF Forwards
<1>4. StreamOf("p0p1") \notin broken
  <2>1. wire'["p0p1"] \in Msgs
    BY <1>1 DEF WireType, Msgs
  <2> QED
    BY <1>1, <1>2, <2>1, TakenOpen
<1>5. Joined /\ Joined'
  BY <1>1, <1>3, <1>4, ZenonT(30) DEF Joined, TypeOK
<1>6. wire \in WireType
  BY TypeSplit
<1>7. ASSUME NEW g, NEW hd, NEW s, Carried(TRUE, g, hd, s, wire["p1p2"], wire["p0p1"])
      PROVE  Carried(TRUE, g, hd, s, wire'["p1p2"], wire'["p0p1"])
  BY <1>1, <1>2, <1>3, <1>6, <1>7, CarriedForward
<1>8. (Switching' => Switching) /\ Joined = TRUE /\ Joined' = TRUE
  BY <1>3, <1>5 DEF Switching, Joined
<1>9. ToSwitch => ToSwitch'
  BY <1>3, <1>7, <1>8 DEF ToSwitch
<1>10. ToUser => ToUser'
  BY <1>3, <1>7, <1>8 DEF ToUser
<1> QED
  BY <1>3, <1>8, <1>9, <1>10 DEF ForwardInv

\* The relay ends, or a stream is lost.
LEMMA ForwardEnds ==
    ASSUME TypeOK, wire' \in WireType, ForwardInv, RelayStops \/ \E s \in {"s01", "s12"} : Loses(s)
    PROVE  ForwardInv'
<1>1. "p0p1" \in Channels /\ "p1p2" \in Channels /\ StreamOf("p0p1") = "s01" /\ StreamOf("p1p2") = "s12"
  BY DEF Channels, StreamOf
<1>2. UNCHANGED <<p0, result, p2, sent, got>> /\ ~Joined'
  BY DEF RelayStops, Loses, Joined
<1>3. wire \in WireType /\ wire["p1p2"] \in Msgs /\ "Eof" \in Message /\ "Reset" \in Message
  BY <1>1, TypeSplit, UserTypes DEF Message
<1>4. ASSUME NEW j, NEW g, NEW hd, NEW s, Carried(j, g, hd, s, wire["p1p2"], wire["p0p1"])
      PROVE  Carried(FALSE, g, hd, s, wire'["p1p2"], wire'["p0p1"])
  <2>1. CASE RelayStops
    <3>1. Written("p1p2", One("Eof"))
      BY <2>1 DEF RelayStops
    <3> QED
      BY <1>1, <1>3, <1>4, <3>1, CarriedEnds
  <2>2. ASSUME NEW l \in {"s01", "s12"}, Loses(l) PROVE Carried(FALSE, g, hd, s, wire'["p1p2"], wire'["p0p1"])
    BY <1>1, <1>3, <1>4, <2>2, CarriedLost
  <2> QED
    BY <2>1, <2>2
<1>5. HasSwitch(wire'["p1p2"]) => HasSwitch(wire["p1p2"])
  <2>1. ~HasSwitch(<<"Eof">>) /\ ~HasSwitch(<<"Reset">>) /\ <<"Eof">> \in Seq(Message)
    BY <1>3, WrittenMessages
  <2>2. HasSwitch(Cat(wire["p1p2"], One("Eof"))) => HasSwitch(wire["p1p2"])
    BY <1>3, <2>1, ConcatMessages DEF Cat, One, Msgs
  <2>3. ~HasSwitch(One("Reset"))
    BY <2>1 DEF One
  <2> QED
    BY <1>1, <2>2, <2>3 DEF RelayStops, Loses, Written
<1>6. Switching' => Switching
  BY <1>2, <1>5 DEF Switching
<1>7. Joined' = FALSE
  BY <1>2 DEF Joined
<1>8. ToSwitch => ToSwitch'
  BY <1>2, <1>4, <1>7 DEF ToSwitch
<1>9. ToUser => ToUser'
  BY <1>2, <1>4, <1>7 DEF ToUser
<1> QED
  BY <1>2, <1>6, <1>8, <1>9 DEF ForwardInv


\* peer0 drops its end.
LEMMA ForwardLeaves ==
    ASSUME StageInv', ForwardInv, Peer0Leaves PROVE ForwardInv'
<1>1. "p1p2" \in Channels /\ "p1p2" # "p0p1"
  BY DEF Channels
<1>2. Written("p0p1", One("Eof")) /\ wire'["p1p2"] = wire["p1p2"] /\ UNCHANGED <<p1, p2, broken, sent, got>>
  BY <1>1 DEF Peer0Leaves, OnlyIn
<1>3. result' = "proxy" => result = "proxy"
  BY DEF Peer0Leaves
<1>4. ASSUME NEW j, NEW g, NEW hd, NEW s, Carried(j, g, hd, s, wire["p1p2"], wire["p0p1"])
      PROVE  Carried(j, g, hd, s, wire'["p1p2"], wire'["p0p1"])
  BY <1>2, <1>4, CarriedWriterLeaves
<1>5. (Switching' => Switching) /\ Joined' = Joined
  BY <1>2, <1>3 DEF Switching, Joined
<1>6. ToSwitch => ToSwitch'
  BY <1>2, <1>4, <1>5 DEF ToSwitch
<1>7. ToUser => ToUser'
  BY <1>2, <1>4, <1>5 DEF ToUser
<1> QED
  BY <1>2, <1>5, <1>6, <1>7 DEF ForwardInv

\* peer2 reads.
LEMMA ForwardReads ==
    ASSUME TypeOK, IInv, wire' \in WireType, StageInv, ForwardInv, Listens \/ Answers \/ Switches
    PROVE  ForwardInv'
<1>1. "p0p1" \in Channels /\ "p1p2" \in Channels /\ "p0p1" # "p1p2" /\ "p0p1" # "p2p1"
  BY DEF Channels
<1>2. {"BuildConnectionToPeer", "InternetAddressInformation", "ExchangeAddressInformation", "ProxyConnection"}
          \subseteq Message \ Ended
  BY DEF Message, Protocol, Ended
<1> HIDE DEF Message, Ended
<1>3. PICK x \in Message \ Ended : Taken("p1p2", x) /\ (Switches => x = "ProxyConnection")
                                   /\ (x = "ProxyConnection" => Switches)
  BY <1>2 DEF Listens, Answers, Switches
<1>4. /\ UNCHANGED <<result, p1, broken, sent, got>> /\ wire'["p0p1"] = wire["p0p1"]
      /\ p2 \in BeforeSwitch
      /\ Switches => p2' = "passed"
      /\ ~Switches => p2' \in BeforeSwitch
  BY <1>1 DEF Listens, Answers, Switches, OnlyIn, BeforeSwitch
<1>5. sent["peer0"] \in Msgs /\ wire["p1p2"] \in Msgs /\ wire'["p1p2"] \in Msgs
  BY <1>1, UserTypes DEF WireType, Msgs
<1>6. HasSwitch(wire'["p1p2"]) => HasSwitch(wire["p1p2"])
  <2> DEFINE S == Message \ {"ProxyConnection"}
  <2>1. S \in SUBSET Message /\ \A t : Without("ProxyConnection", t) <=> t \in Seq(S)
    BY DEF Without
  <2> HIDE DEF S
  <2>2. wire["p1p2"] \in Seq(S) => wire'["p1p2"] \in Seq(S)
    BY <1>3, <1>5, <2>1, TakeKeeps DEF Keeps
  <2> QED
    BY <1>5, <2>1, <2>2, SwitchOrNot
<1>7. (Switching' \/ Switches => Switching) /\ Joined' = Joined
  <2>1. Switches => result = "proxy" /\ HasSwitch(wire["p1p2"])
    BY SwitchesToProxy
  <2> QED
    BY <1>4, <1>6, <2>1 DEF Switching, Joined
<1>8. ASSUME Switching
      PROVE  /\ x = "ProxyConnection" =>
                   Carried(Joined, <<>>, <<>>, sent["peer0"], wire'["p1p2"], wire["p0p1"])
             /\ x # "ProxyConnection" =>
                   \E r : /\ Without("ProxyConnection", r)
                          /\ Carried(Joined, <<>>, Cat(r, One("ProxyConnection")), sent["peer0"],
                                     wire'["p1p2"], wire["p0p1"])
  <2>1. PICK q : /\ Without("ProxyConnection", q)
                 /\ Carried(Joined, <<>>, Cat(q, One("ProxyConnection")), sent["peer0"],
                            wire["p1p2"], wire["p0p1"])
    BY <1>8 DEF ForwardInv, ToSwitch
  <2> QED
    BY <1>1, <1>3, <1>5, <2>1, CarriedSwitch
<1>9. CASE Switches
  <2>1. got["peer2"] = <<>>
    BY <1>4 DEF StageInv
  <2>2. Carried(Joined, <<>>, <<>>, sent["peer0"], wire'["p1p2"], wire["p0p1"])
    BY <1>3, <1>7, <1>8, <1>9
  <2>3. ToUser'
    BY <1>4, <1>7, <2>1, <2>2 DEF ToUser
  <2>4. ~Switching'
    BY <1>4, <1>9 DEF Switching, BeforeSwitch
  <2> QED
    BY <1>4, <2>3, <2>4 DEF ForwardInv
<1>10. CASE ~Switches
  <2>1. Switching' => ToSwitch'
    BY <1>3, <1>4, <1>7, <1>8, <1>10 DEF ToSwitch
  <2>2. p2' # "passed"
    BY <1>4, <1>10 DEF BeforeSwitch
  <2> QED
    BY <1>4, <2>1, <2>2 DEF ForwardInv
<1> QED
  BY <1>9, <1>10

\* What was read remains a beginning when more is written.
LEMMA PrefixWrite ==
    ASSUME NEW g \in Msgs, NEW s, NEW x \in Message, \E r \in Msgs : Cat(g, r) = s
    PROVE  \E r \in Msgs : Cat(g, r) = Cat(s, One(x))
<1>1. PICK r \in Msgs : Cat(g, r) = s
  OBVIOUS
<1>2. g \in Seq(Message) /\ r \in Seq(Message) /\ One(x) \in Seq(Message)
  BY OneItem DEF Msgs
<1>3. Cat(r, One(x)) \in Seq(Message) /\ Cat(Cat(g, r), One(x)) = Cat(g, Cat(r, One(x)))
  BY <1>2, CatLaws, SMTT(20)
<1> QED
  BY <1>1, <1>3 DEF Msgs

\* The user of peer0 writes.
LEMMA ForwardWrites ==
    ASSUME TypeOK, wire' \in WireType, EndInv, ForwardInv, Sends("peer0", "peer2") PROVE ForwardInv'
<1>1. "p0p1" \in Channels /\ "p1p2" \in Channels /\ "p0p1" # "p1p2" /\ StreamOf("p0p1") = "s01"
  BY DEF Channels, StreamOf
<1>2. PICK d \in Data : Written("p0p1", One(d)) /\ sent'["peer0"] = Cat(sent["peer0"], One(d))
  BY DEF Sends, Outgoing
<1>3. /\ UNCHANGED <<result, p1, p2, broken, got>> /\ wire'["p1p2"] = wire["p1p2"]
      /\ StreamOf("p0p1") \notin broken /\ HasProxied("peer0")
  BY <1>1 DEF Sends, OnlyIn, Outgoing
<1>4. Clear(wire["p0p1"])
  BY <1>1, <1>3 DEF HasProxied, EndInv, Live0
<1>5. /\ sent["peer0"] \in Msgs /\ got["peer2"] \in Msgs /\ wire["p1p2"] \in Msgs /\ d \in Message
      /\ "ProxyConnection" \in Message
  BY <1>1, UserTypes DEF Message, Protocol
<1> HIDE DEF Message
<1>6. ASSUME NEW j, NEW g \in Msgs, NEW hd \in Msgs, Carried(j, g, hd, sent["peer0"], wire["p1p2"], wire["p0p1"])
      PROVE  Carried(j, g, hd, sent'["peer0"], wire'["p1p2"], wire'["p0p1"])
  <2>1. Carried(j, g, hd, Cat(sent["peer0"], One(d)), wire["p1p2"], wire'["p0p1"])
    BY <1>2, <1>3, <1>4, <1>5, <1>6, CarriedWrite
  <2> QED
    BY <1>2, <1>3, <2>1
<1>7. (Switching' => Switching) /\ Joined' = Joined
  BY <1>3 DEF Switching, Joined
<1>8. <<>> \in Msgs
  BY SMTT(20) DEF Msgs
<1>9. ToSwitch => ToSwitch'
  <2> SUFFICES ASSUME NEW q, Without("ProxyConnection", q),
                      Carried(Joined, <<>>, Cat(q, One("ProxyConnection")), sent["peer0"],
                              wire["p1p2"], wire["p0p1"])
               PROVE  ToSwitch'
    BY DEF ToSwitch
  <2> DEFINE hd == Cat(q, One("ProxyConnection"))
  <2>1. q \in Seq(Message)
    BY Wider DEF Without
  <2>2. hd \in Msgs
    BY <1>5, <2>1, OneItem, CatLaws DEF Msgs
  <2> HIDE DEF hd
  <2>3. Carried(Joined, <<>>, hd, sent'["peer0"], wire'["p1p2"], wire'["p0p1"])
    BY <1>6, <1>8, <2>2 DEF hd
  <2> QED
    BY <1>7, <2>3 DEF hd, ToSwitch
<1>10. ToUser => ToUser'
  BY <1>3, <1>5, <1>6, <1>7, <1>8 DEF ToUser
<1>11. \E r \in Msgs : Cat(got'["peer2"], r) = sent'["peer0"]
  <2>1. \E r \in Msgs : Cat(got["peer2"], r) = sent["peer0"]
    BY DEF ForwardInv
  <2>2. \E r \in Msgs : Cat(got["peer2"], r) = Cat(sent["peer0"], One(d))
    BY <1>5, <2>1, PrefixWrite
  <2> QED
    BY <1>2, <1>3, <2>2
<1> QED
  BY <1>3, <1>7, <1>9, <1>10, <1>11 DEF ForwardInv

\* The user of peer2 reads.
LEMMA ForwardGets ==
    ASSUME TypeOK, wire' \in WireType, ForwardInv, Gets("peer2", "peer0") PROVE ForwardInv'
<1>1. "p0p1" \in Channels /\ "p1p2" \in Channels /\ "p0p1" # "p1p2"
  BY DEF Channels
<1>2. PICK x \in Message \ Ended : Taken("p1p2", x) /\ got'["peer2"] = Cat(got["peer2"], One(x))
  BY DEF Gets, Incoming
<1>3. UNCHANGED <<result, p1, p2, broken, sent>> /\ wire'["p0p1"] = wire["p0p1"] /\ p2 = "passed"
  BY <1>1 DEF Gets, OnlyIn, Incoming, HasProxied
<1>4. sent["peer0"] \in Msgs /\ got["peer2"] \in Msgs
  BY UserTypes
<1>5. Carried(Joined, got["peer2"], <<>>, sent["peer0"], wire["p1p2"], wire["p0p1"])
  BY <1>3 DEF ForwardInv, ToUser
<1>6. /\ Carried(Joined, Cat(got["peer2"], One(x)), <<>>, sent["peer0"], wire'["p1p2"], wire["p0p1"])
      /\ \E r \in Msgs : Cat(Cat(got["peer2"], One(x)), r) = sent["peer0"]
  <2> DEFINE g == got["peer2"]
             s == sent["peer0"]
             j == Joined
             up == wire["p0p1"]
  <2>1. g \in Msgs /\ s \in Msgs /\ Taken("p1p2", x) /\ Carried(j, g, <<>>, s, wire["p1p2"], up)
    BY <1>2, <1>4, <1>5
  <2> HIDE DEF g, s, j, up
  <2>2. Carried(j, Cat(g, One(x)), <<>>, s, wire'["p1p2"], up)
    BY <1>1, <2>1, CarriedRead
  <2> DEFINE h == Cat(g, One(x))
             down == wire'["p1p2"]
  <2>3. h \in Msgs
    <3>1. g \in Seq(Message) /\ One(x) \in Seq(Message)
      BY <1>2, <2>1, OneItem DEF Msgs
    <3> QED
      BY <3>1, CatLaws DEF Msgs
  <2>4. down \in Msgs /\ Carried(j, h, <<>>, s, down, up)
    BY <1>1, <2>2 DEF WireType, Msgs
  <2> HIDE DEF h, down
  <2>5. \E r \in Msgs : Cat(h, r) = s
    BY <2>1, <2>3, <2>4, CarriedPrefix, SMTT(20)
  <2> QED
    BY <2>4, <2>5 DEF g, s, j, up, h, down
<1>7. Joined' = Joined
  BY <1>3 DEF Joined
<1>8. ToUser' /\ \E r \in Msgs : Cat(got'["peer2"], r) = sent'["peer0"]
  BY <1>2, <1>3, <1>6, <1>7 DEF ToUser
<1>9. ~Switching'
  BY <1>3 DEF Switching, BeforeSwitch
<1> QED
  BY <1>8, <1>9 DEF ForwardInv

\* ForwardInv is kept.
LEMMA ForwardStep ==
    ASSUME TypeOK, IInv, wire' \in WireType, EndInv, StageInv, StageInv', ReturnInv, ForwardInv, Moves
    PROVE  ForwardInv'
<1>1. "p0p1" \in Channels /\ "p1p0" \in Channels /\ "p1p2" \in Channels /\ "p2p1" \in Channels
  BY DEF Channels
<1>2. CASE Opens \/ Exchanges \/ Accepts \/ Joins \/ Declines
  <2>1. result' # "proxy"
    BY <1>2
       DEF Opens, Exchanges, Accepts, Joins, Declines, IInv, AgreeInv, ReturnInv, Informed, BeforeRelay
  <2>2. UNCHANGED <<sent, got>>
    BY <1>2 DEF Opens, Exchanges, Accepts, Joins, Declines
  <2> QED
    BY <2>1, <2>2, ForwardNoProxy
<1>3. CASE \/ Idles \/ Connects \/ Forwards("p2p1", "p1p0") \/ Peer2Leaves
           \/ Sends("peer2", "peer0") \/ Gets("peer0", "peer2")
  <2>1. /\ wire'["p1p2"] = wire["p1p2"] /\ wire'["p0p1"] = wire["p0p1"]
        /\ Joined' <=> Joined
        /\ result' = result
        /\ p2' \in BeforeSwitch => p2 \in BeforeSwitch
        /\ p2' = "passed" => p2 = "passed"
        /\ sent'["peer0"] = sent["peer0"] /\ got'["peer2"] = got["peer2"]
    BY <1>1, <1>3
       DEF Idles, Connects, Forwards, Peer2Leaves, Sends, Gets, OnlyIn, Outgoing, Incoming, Joined, BeforeSwitch
  <2> QED
    BY <2>1, ForwardIdle
<1>4. CASE FallsBack
  BY <1>4, ForwardFallsBack
<1>5. CASE Peer0Leaves
  BY <1>5, ForwardLeaves
<1>6. CASE Forwards("p0p1", "p1p2")
  BY <1>6, ForwardForwards
<1>7. CASE RelayStops \/ \E s \in {"s01", "s12"} : Loses(s)
  BY <1>7, ForwardEnds
<1>8. CASE Listens \/ Answers \/ Switches
  BY <1>8, ForwardReads
<1>9. CASE Sends("peer0", "peer2")
  BY <1>9, ForwardWrites
<1>10. CASE Gets("peer2", "peer0")
  BY <1>10, ForwardGets
<1> QED
  BY <1>2, <1>3, <1>4, <1>5, <1>6, <1>7, <1>8, <1>9, <1>10
     DEF Moves, Peer0Moves, Peer1Moves, Peer2Moves, UserMoves


\* Nothing that concerns the way to the user of peer0 happens.
LEMMA BackIdle ==
    ASSUME BackInv, wire'["p1p0"] = wire["p1p0"], wire'["p2p1"] = wire["p2p1"],
           Joined' <=> Joined, HasProxied("peer0")' => HasProxied("peer0"),
           sent'["peer2"] = sent["peer2"], got'["peer0"] = got["peer0"]
    PROVE  BackInv'
<1>1. ToUser0 => ToUser0'
  BY DEF ToUser0, Carried
<1> QED
  BY <1>1 DEF BackInv

\* peer0 falls back to the proxied stream: nothing is on the way to it but the
\* end of the stream.
LEMMA BackFallsBack ==
    ASSUME TypeOK, IInv, wire' \in WireType, EndInv, StageInv, ReturnInv, TokenInv, BackInv, FallsBack
    PROVE  BackInv'
<1> DEFINE down == wire["p1p0"]
           up == wire["p2p1"]
           A == {"InternetAddressInformation"} \cup Back(result)
           B == Message \ {"InternetAddressInformation"}
           C == Message \ {"ExchangeAddressInformation"}
<1>1. "p1p0" \in Channels /\ "p2p1" \in Channels
  BY DEF Channels
<1>2. /\ p0 \in {"WaitingForConnection", "WaitingForStream"} /\ UNCHANGED <<p1, p2, broken, sent, got>>
      /\ wire'["p1p0"] = down /\ wire'["p2p1"] = up
  BY <1>1 DEF FallsBack, OnlyIn
<1>3. result = "none"
  BY <1>2 DEF IInv, AgreeInv
<1>4. down \in Seq(A) /\ down \in Seq(B) /\ up \in Seq(Back(result))
  BY <1>2 DEF ReturnInv, Informed, Without
<1>5. down \in Seq(C) /\ up \in Seq(C)
  BY <1>1, <1>2, <1>3 DEF TokenInv, Live0, Token, Without
<1>6. (A \cap B) \cap C \subseteq Ended /\ Back(result) \cap C \subseteq Ended
  BY <1>3 DEF Back
<1> HIDE DEF A, B, C, down, up
<1>7. down \in Seq(Ended)
  <2>1. down \in Seq(A \cap B)
    BY <1>4, Both
  <2>2. down \in Seq((A \cap B) \cap C)
    BY <1>5, <2>1, Both
  <2> QED
    BY <1>6, <2>2, Wider
<1>8. up \in Seq(Ended)
  <2>1. up \in Seq(Back(result) \cap C)
    BY <1>4, <1>5, Both
  <2> QED
    BY <1>6, <2>1, Wider
<1>9. sent["peer2"] = <<>> /\ got["peer0"] = <<>>
  BY <1>3 DEF StageInv
<1>10. Joined' => Clear(down)
  BY <1>2 DEF Joined, EndInv, down
<1>11. /\ Clear(down) => Whole(<<>>, <<>>, <<>>, down, up)
       /\ Beginning(<<>>, <<>>, <<>>, down)
  BY <1>7, <1>8, NothingYet
<1>12. ToUser0'
  BY <1>2, <1>9, <1>10, <1>11 DEF ToUser0, Carried
<1> QED
  BY <1>2, <1>12 DEF BackInv

\* The relay forwards to peer0.
LEMMA BackForwards ==
    ASSUME TypeOK, wire' \in WireType, EndInv, BackInv, Forwards("p2p1", "p1p0") PROVE BackInv'
<1>1. "p2p1" \in Channels /\ "p1p0" \in Channels /\ StreamOf("p2p1") = "s12" /\ StreamOf("p1p0") = "s01"
  BY DEF Channels, StreamOf
<1>2. PICK x \in Message \ Ended : Taken("p2p1", x) /\ Written("p1p0", One(x))
  BY DEF Forwards
<1>3. StreamOf("p1p0") \notin broken /\ p1 = "Relaying" /\ UNCHANGED <<p0, result, p1, broken, sent, got>>
  BY DEF Forwards
<1>4. StreamOf("p2p1") \notin broken
  <2>1. wire'["p2p1"] \in Msgs
    BY <1>1 DEF WireType, Msgs
  <2> QED
    BY <1>1, <1>2, <2>1, TakenOpen
<1>5. Joined /\ Joined' /\ Joined = TRUE /\ Joined' = TRUE
  BY <1>1, <1>3, <1>4, ZenonT(30) DEF Joined, TypeOK
<1>6. wire \in WireType
  BY TypeSplit
<1>7. ASSUME NEW g, NEW hd, NEW s, Carried(TRUE, g, hd, s, wire["p1p0"], wire["p2p1"])
      PROVE  Carried(TRUE, g, hd, s, wire'["p1p0"], wire'["p2p1"])
  BY <1>1, <1>2, <1>3, <1>6, <1>7, CarriedForward
<1>8. ToUser0 => ToUser0'
  BY <1>3, <1>5, <1>7 DEF ToUser0
<1> QED
  BY <1>3, <1>8 DEF BackInv, HasProxied

\* The relay ends, or a stream is lost.
LEMMA BackEnds ==
    ASSUME TypeOK, wire' \in WireType, BackInv, RelayStops \/ \E s \in {"s01", "s12"} : Loses(s)
    PROVE  BackInv'
<1>1. "p1p0" \in Channels
  BY DEF Channels
<1>2. UNCHANGED <<p0, result, sent, got>> /\ ~Joined' /\ Joined' = FALSE
  BY DEF RelayStops, Loses, Joined
<1>3. wire \in WireType
  BY TypeSplit
<1>4. ASSUME NEW j, NEW g, NEW hd, NEW s, Carried(j, g, hd, s, wire["p1p0"], wire["p2p1"])
      PROVE  Carried(FALSE, g, hd, s, wire'["p1p0"], wire'["p2p1"])
  <2>1. CASE RelayStops
    <3>1. Written("p1p0", One("Eof"))
      BY <2>1 DEF RelayStops
    <3> QED
      BY <1>1, <1>3, <1>4, <3>1, CarriedEnds
  <2>2. ASSUME NEW l \in {"s01", "s12"}, Loses(l) PROVE Carried(FALSE, g, hd, s, wire'["p1p0"], wire'["p2p1"])
    BY <1>1, <1>3, <1>4, <2>2, CarriedLost
  <2> QED
    BY <2>1, <2>2
<1>5. ToUser0 => ToUser0'
  BY <1>2, <1>4 DEF ToUser0
<1> QED
  BY <1>2, <1>5 DEF BackInv, HasProxied

\* peer2 drops its end.
LEMMA BackLeaves ==
    ASSUME BackInv, Peer2Leaves PROVE BackInv'
<1>1. "p1p0" \in Channels /\ "p1p0" # "p2p1"
  BY DEF Channels
<1>2. Written("p2p1", One("Eof")) /\ wire'["p1p0"] = wire["p1p0"] /\ UNCHANGED <<p0, result, p1, broken, sent, got>>
  BY <1>1 DEF Peer2Leaves, OnlyIn
<1>3. ASSUME NEW j, NEW g, NEW hd, NEW s, Carried(j, g, hd, s, wire["p1p0"], wire["p2p1"])
      PROVE  Carried(j, g, hd, s, wire'["p1p0"], wire'["p2p1"])
  BY <1>2, <1>3, CarriedWriterLeaves
<1>4. Joined' = Joined
  BY <1>2 DEF Joined
<1>5. ToUser0 => ToUser0'
  BY <1>2, <1>3, <1>4 DEF ToUser0
<1> QED
  BY <1>2, <1>5 DEF BackInv, HasProxied

\* The user of peer2 writes.
LEMMA BackWrites ==
    ASSUME TypeOK, wire' \in WireType, EndInv, BackInv, Sends("peer2", "peer0") PROVE BackInv'
<1>1. "p2p1" \in Channels /\ "p1p0" \in Channels /\ "p1p0" # "p2p1" /\ StreamOf("p2p1") = "s12"
  BY DEF Channels, StreamOf
<1>2. PICK d \in Data : Written("p2p1", One(d)) /\ sent'["peer2"] = Cat(sent["peer2"], One(d))
  BY DEF Sends, Outgoing
<1>3. /\ UNCHANGED <<p0, result, p1, p2, broken, got>> /\ wire'["p1p0"] = wire["p1p0"]
      /\ StreamOf("p2p1") \notin broken /\ p2 = "passed"
  BY <1>1 DEF Sends, OnlyIn, Outgoing, HasProxied
<1>4. Clear(wire["p2p1"])
  BY <1>1, <1>3 DEF EndInv, Live2
<1>5. sent["peer2"] \in Msgs /\ got["peer0"] \in Msgs /\ wire["p1p0"] \in Msgs /\ d \in Message
  BY <1>1, UserTypes DEF Message
<1>6. <<>> \in Msgs
  BY SMTT(20) DEF Msgs
<1> HIDE DEF Message
<1>7. ASSUME NEW j, NEW g \in Msgs, NEW hd \in Msgs, Carried(j, g, hd, sent["peer2"], wire["p1p0"], wire["p2p1"])
      PROVE  Carried(j, g, hd, sent'["peer2"], wire'["p1p0"], wire'["p2p1"])
  <2>1. Carried(j, g, hd, Cat(sent["peer2"], One(d)), wire["p1p0"], wire'["p2p1"])
    BY <1>2, <1>3, <1>4, <1>5, <1>7, CarriedWrite
  <2> QED
    BY <1>2, <1>3, <2>1
<1>8. Joined' = Joined
  BY <1>3 DEF Joined
<1>9. ToUser0 => ToUser0'
  BY <1>3, <1>5, <1>6, <1>7, <1>8 DEF ToUser0
<1>10. \E r \in Msgs : Cat(got'["peer0"], r) = sent'["peer2"]
  <2>1. \E r \in Msgs : Cat(got["peer0"], r) = sent["peer2"]
    BY DEF BackInv
  <2>2. \E r \in Msgs : Cat(got["peer0"], r) = Cat(sent["peer2"], One(d))
    BY <1>5, <2>1, PrefixWrite
  <2> QED
    BY <1>2, <1>3, <2>2
<1> QED
  BY <1>3, <1>9, <1>10 DEF BackInv, HasProxied

\* The user of peer0 reads.
LEMMA BackGets ==
    ASSUME TypeOK, wire' \in WireType, BackInv, Gets("peer0", "peer2") PROVE BackInv'
<1>1. "p1p0" \in Channels /\ "p2p1" \in Channels /\ "p1p0" # "p2p1"
  BY DEF Channels
<1>2. PICK x \in Message \ Ended : Taken("p1p0", x) /\ got'["peer0"] = Cat(got["peer0"], One(x))
  BY DEF Gets, Incoming
<1>3. UNCHANGED <<p1, broken, sent>> /\ wire'["p2p1"] = wire["p2p1"] /\ HasProxied("peer0")
  BY <1>1 DEF Gets, OnlyIn, Incoming
<1>4. sent["peer2"] \in Msgs /\ got["peer0"] \in Msgs
  BY UserTypes
<1>5. Carried(Joined, got["peer0"], <<>>, sent["peer2"], wire["p1p0"], wire["p2p1"])
  BY <1>3 DEF BackInv, ToUser0
<1>6. /\ Carried(Joined, Cat(got["peer0"], One(x)), <<>>, sent["peer2"], wire'["p1p0"], wire["p2p1"])
      /\ \E r \in Msgs : Cat(Cat(got["peer0"], One(x)), r) = sent["peer2"]
  <2> DEFINE g == got["peer0"]
             s == sent["peer2"]
             j == Joined
             up == wire["p2p1"]
  <2>1. g \in Msgs /\ s \in Msgs /\ Taken("p1p0", x) /\ Carried(j, g, <<>>, s, wire["p1p0"], up)
    BY <1>2, <1>4, <1>5
  <2> HIDE DEF g, s, j, up
  <2>2. Carried(j, Cat(g, One(x)), <<>>, s, wire'["p1p0"], up)
    BY <1>1, <2>1, CarriedRead
  <2> DEFINE h == Cat(g, One(x))
             down == wire'["p1p0"]
  <2>3. h \in Msgs
    <3>1. g \in Seq(Message) /\ One(x) \in Seq(Message)
      BY <1>2, <2>1, OneItem DEF Msgs
    <3> QED
      BY <3>1, CatLaws DEF Msgs
  <2>4. down \in Msgs /\ Carried(j, h, <<>>, s, down, up)
    BY <1>1, <2>2 DEF WireType, Msgs
  <2> HIDE DEF h, down
  <2>5. \E r \in Msgs : Cat(h, r) = s
    BY <2>1, <2>3, <2>4, CarriedPrefix, SMTT(20)
  <2> QED
    BY <2>4, <2>5 DEF g, s, j, up, h, down
<1>7. Joined' = Joined
  BY <1>3 DEF Joined
<1>8. ToUser0' /\ \E r \in Msgs : Cat(got'["peer0"], r) = sent'["peer2"]
  BY <1>2, <1>3, <1>6, <1>7 DEF ToUser0
<1> QED
  BY <1>8 DEF BackInv

\* BackInv is kept.
LEMMA BackStep ==
    ASSUME TypeOK, IInv, wire' \in WireType, EndInv, StageInv, ReturnInv, TokenInv, BackInv, Moves
    PROVE  BackInv'
<1>1. "p0p1" \in Channels /\ "p1p0" \in Channels /\ "p1p2" \in Channels /\ "p2p1" \in Channels
  BY DEF Channels
<1>2. CASE Opens \/ Exchanges \/ Connects \/ Accepts \/ Joins \/ Declines \/ Answers \/ Peer0Leaves
  <2>1. ASSUME Answers, HasProxied("peer0") PROVE FALSE
    <3> DEFINE S == Message \ {Token}
    <3>1. Taken("p1p2", Token) /\ Token \in Message /\ Token \notin S /\ S \in SUBSET Message
      BY <2>1 DEF Answers, Token, Message, Protocol
    <3>2. wire["p1p2"] \in Seq(S)
      BY <1>1, <2>1 DEF HasProxied, TokenInv, Live0, Without
    <3>3. wire'["p1p2"] \in Msgs
      BY <1>1 DEF WireType, Msgs
    <3> HIDE DEF S, Token, Message
    <3> QED
      BY <3>1, <3>2, <3>3, TakeKeeps
  <2>2. ~HasProxied("peer0")'
    BY <1>2, <2>1
       DEF HasProxied, Opens, Exchanges, Connects, Accepts, Joins, Declines, Answers, Peer0Leaves, ReturnInv,
           Informed, BeforeRelay
  <2>3. UNCHANGED <<sent, got>>
    BY <1>2 DEF Opens, Exchanges, Connects, Accepts, Joins, Declines, Answers, Peer0Leaves
  <2> QED
    BY <2>2, <2>3 DEF BackInv
<1>3. CASE \/ Idles \/ Forwards("p0p1", "p1p2") \/ Listens \/ Switches
           \/ Sends("peer0", "peer2") \/ Gets("peer2", "peer0")
  <2>1. /\ wire'["p1p0"] = wire["p1p0"] /\ wire'["p2p1"] = wire["p2p1"]
        /\ Joined' <=> Joined
        /\ HasProxied("peer0")' => HasProxied("peer0")
        /\ sent'["peer2"] = sent["peer2"] /\ got'["peer0"] = got["peer0"]
    BY <1>1, <1>3
       DEF Idles, Forwards, Listens, Switches, Sends, Gets, OnlyIn, Outgoing, Incoming, Joined, HasProxied
  <2> QED
    BY <2>1, BackIdle
<1>4. CASE FallsBack
  BY <1>4, BackFallsBack
<1>5. CASE Forwards("p2p1", "p1p0")
  BY <1>5, BackForwards
<1>6. CASE RelayStops \/ \E s \in {"s01", "s12"} : Loses(s)
  BY <1>6, BackEnds
<1>7. CASE Peer2Leaves
  BY <1>7, BackLeaves
<1>8. CASE Sends("peer2", "peer0")
  BY <1>8, BackWrites
<1>9. CASE Gets("peer0", "peer2")
  BY <1>9, BackGets
<1> QED
  BY <1>2, <1>3, <1>4, <1>5, <1>6, <1>7, <1>8, <1>9
     DEF Moves, Peer0Moves, Peer1Moves, Peer2Moves, UserMoves


-----------------------------------------------------------------------------
(* The proxied stream *)

StreamInv == EndInv /\ StageInv /\ ReturnInv /\ TokenInv /\ ForwardInv /\ BackInv

\* It holds at first.
LEMMA StreamInit == Init => StreamInv
<1> SUFFICES ASSUME Init PROVE StreamInv
  OBVIOUS
<1>1. /\ "p0p1" \in Channels /\ "p1p0" \in Channels /\ "p1p2" \in Channels /\ "p2p1" \in Channels
      /\ p0 = "WaitingForProxyStream" /\ result = "none" /\ p1 = "none" /\ p2 = "none" /\ broken = {}
      /\ \A c \in Channels : wire[c] = <<>>
      /\ sent["peer0"] = <<>> /\ sent["peer2"] = <<>> /\ got["peer0"] = <<>> /\ got["peer2"] = <<>>
  BY DEF Init, Channels
<1>2. \A S : <<>> \in Seq(S)
  BY SMTT(20)
<1>3. Cat(<<>>, <<>>) = <<>>
  BY SMTT(20) DEF Cat
<1>4. EndInv /\ StageInv
  BY <1>1, <1>2 DEF EndInv, StageInv, Clear
<1>5. ReturnInv
  BY <1>1, <1>2 DEF ReturnInv, Informed
<1>6. TokenInv
  BY <1>1, <1>2 DEF TokenInv, Without
<1>7. ForwardInv /\ BackInv
  BY <1>1, <1>2, <1>3 DEF ForwardInv, BackInv, Switching, HasProxied, Msgs
<1> QED
  BY <1>4, <1>5, <1>6, <1>7 DEF StreamInv

\* Every step keeps it.
LEMMA StreamStep == TypeOK /\ TypeOK' /\ IInv /\ StreamInv /\ [Next]_vars => StreamInv'
<1> SUFFICES ASSUME TypeOK, TypeOK', IInv, StreamInv, [Next]_vars PROVE StreamInv'
  OBVIOUS
<1>1. Moves /\ EndInv /\ StageInv /\ ReturnInv /\ TokenInv /\ ForwardInv /\ BackInv
  BY StepKinds DEF StreamInv
<1>2. wire' \in WireType
  BY DEF TypeOK, WireType
<1>3. EndInv'
  BY <1>1, <1>2, EndStep
<1>4. StageInv'
  BY <1>1, <1>2, StageStep
<1>5. ReturnInv'
  BY <1>1, <1>2, ReturnStep
<1>6. TokenInv'
  BY <1>1, <1>2, TokenStep
<1>7. ForwardInv'
  BY <1>1, <1>2, <1>4, ForwardStep
<1>8. BackInv'
  BY <1>1, <1>2, BackStep
<1> QED
  BY <1>3, <1>4, <1>5, <1>6, <1>7, <1>8 DEF StreamInv

\* A beginning, said with SubSeq.
LEMMA BeginningOf ==
    ASSUME NEW S, NEW g \in Seq(S), NEW s \in Seq(S), NEW r \in Seq(S), Cat(g, r) = s
    PROVE  \E n \in 0 .. Len(s) : g = SubSeq(s, 1, n)
<1>1. Len(g) \in 0 .. Len(s) /\ Len(g) \in Nat /\ Len(s) \in Nat
  BY SMTT(20) DEF Cat
<1>2. \A i \in 1 .. Len(g) : s[i] = g[i]
  BY SMTT(20) DEF Cat
<1>3. SubSeq(s, 1, Len(g)) \in Seq(S) /\ Len(SubSeq(s, 1, Len(g))) = Len(g)
      /\ \A i \in 1 .. Len(g) : SubSeq(s, 1, Len(g))[i] = s[i]
  BY <1>1, SMTT(20)
<1> DEFINE t == SubSeq(s, 1, Len(g))
<1>4. t \in Seq(S) /\ Len(t) = Len(g) /\ \A i \in 1 .. Len(g) : t[i] = g[i]
  BY <1>2, <1>3
<1> HIDE DEF t
<1>5. g = t
  BY <1>4, SeqEqual
<1> QED
  BY <1>1, <1>5 DEF t

\* ProxiedDataIntact, for any data: in both directions a user of the proxied
\* stream reads a beginning of what the other one wrote, whatever is lost or
\* dropped meanwhile. No message of the build protocol is among it, and the
\* switch of peer2 from the build protocol to the user loses nothing.
THEOREM ProxiedDataArrives == Spec => []ProxiedDataIntact
<1>1. TypeOK /\ StreamInv => ProxiedDataIntact
  <2> SUFFICES ASSUME TypeOK, StreamInv PROVE ProxiedDataIntact
    OBVIOUS
  <2>1. /\ sent["peer0"] \in Seq(Message) /\ sent["peer2"] \in Seq(Message)
        /\ got["peer0"] \in Seq(Message) /\ got["peer2"] \in Seq(Message)
    BY UserTypes DEF Msgs
  <2>2. PICK r \in Seq(Message) : Cat(got["peer2"], r) = sent["peer0"]
    BY DEF StreamInv, ForwardInv, Msgs
  <2>3. PICK t \in Seq(Message) : Cat(got["peer0"], t) = sent["peer2"]
    BY DEF StreamInv, BackInv, Msgs
  <2> HIDE DEF Message
  <2>4. \E n \in 0 .. Len(sent["peer0"]) : got["peer2"] = SubSeq(sent["peer0"], 1, n)
    BY <2>1, <2>2, BeginningOf
  <2>5. \E n \in 0 .. Len(sent["peer2"]) : got["peer0"] = SubSeq(sent["peer2"], 1, n)
    BY <2>1, <2>3, BeginningOf
  <2> QED
    BY <2>4, <2>5 DEF ProxiedDataIntact
<1> QED
  BY <1>1, StreamInit, StreamStep, InvariantHolds, PTL DEF Spec
====
