-------------------------- MODULE UserStreamsProofs -------------------------
(***************************************************************************)
(* Theorems about the streams of UserStreams, for channels, buffers and    *)
(* amounts of data of any size: types, EndsAgree, ProtocolComesFirst,      *)
(* NothingLost, and that the streams implement ByteChannel. The invariant  *)
(* behind them says, for every stage of a stream, which messages of the    *)
(* protocol are still ahead of the data, and that what is under way on the *)
(* hops is those messages and the data that was not read yet, up to the    *)
(* point where a lost connection has cut it off.                           *)
(***************************************************************************)
EXTENDS UserStreamsStageProofs

\* As there, Zenon proves most of the steps.
USE Zenon

-----------------------------------------------------------------------------
(* Every step keeps what the far end expects *)

\* A new stream: the far end expects its hello.
LEMMA FlowStart ==
    ASSUME FlattenLaws, NEW x, NEW hello \in Items, NEW stream, NEW usable, StartStream(x, hello, stream, usable),
           hello = Hello'
    PROVE  FlowInv'
<1>1. /\ reader'[1] = "waiting" /\ reader'[2] = "none" /\ sent' = <<>> /\ received' = <<>>
  BY SMTT(20) DEF StartStream, Hops
<1>2. UnderWay(1)' = One(hello) /\ UnderWay(2)' = <<>>
  BY StartPipes
<1> DEFINE r == <<>>
<1>3. /\ One(hello) \in Seq(Items) /\ r \in Seq(Data) /\ r \in Seq(Items)
      /\ received' = r /\ sent' = r /\ UnderWay(2)' = r
  BY <1>1, <1>2, OneItem, SMTT(20)
<1>4. Cat(r, r) = r /\ Cat(One(hello), r) = One(hello) /\ Cat(r, One(hello)) = One(hello)
  BY <1>3, CatLaws
<1> HIDE DEF r
<1>5. Piped' = One(hello)
  BY <1>2, <1>3, <1>4 DEF Piped
<1>6. Ahead(One(hello))'
  BY <1>1 DEF Ahead
<1>7. Prefix(One(hello), One(hello))
  BY <1>3, PrefixLaws
<1>8. Flow(One(hello))'
  BY <1>1, <1>5, <1>7 DEF Flow
<1>9. Flow(Cat(One(hello), r))' /\ Cat(received', r) = sent'
  BY <1>3, <1>4, <1>8
<1> QED
  BY <1>3, <1>6, <1>9, FlowIntro

LEMMA FlowNew ==
    ASSUME FlattenLaws, TypeOK, StageInv, NEW x \in Ends, NewStream(x)
    PROVE  FlowInv'
<1>1. handle[x].peer \in Ends
  BY DEF NewStream
<1>2. handle[x] = [peer |-> OtherEnd(x), proxy |-> proxied]
  BY <1>1 DEF StageInv, HandleInv, PeerHandle
<1>3. handle[x].peer = OtherEnd(x) /\ (handle[x].proxy <=> proxied) /\ OtherEnd(x) \in Ends
  BY <1>1, <1>2, SMTT(20)
<1> DEFINE hello == IF proxied THEN Message("UserProxy", OtherEnd(x)) ELSE Message("User", x)
<1>4. PICK stream : StartStream(x, hello, stream, TRUE)
  <2>1. CASE proxied
    <3>1. StartStream(x, Message("UserProxy", OtherEnd(x)), [peer |-> OtherEnd(x), proxy |-> TRUE], TRUE)
      BY <1>3, <2>1 DEF NewStream
    <3> QED
      BY <2>1, <3>1
  <2>2. CASE ~proxied
    <3>1. StartStream(x, Message("User", x), [peer |-> OtherEnd(x), proxy |-> FALSE], TRUE)
      BY <1>3, <2>2 DEF NewStream
    <3> QED
      BY <2>2, <3>1
  <2> QED
    BY <2>1, <2>2
<1>5. opener' = x /\ ready' = TRUE /\ proxied' = proxied
  BY <1>4 DEF StartStream
<1>6. hello \in Items
  BY <1>3, Messages
<1>7. hello = Hello'
  BY <1>5 DEF Hello, Message, OtherEnd
<1> HIDE DEF hello
<1> QED
  BY <1>4, <1>6, <1>7, FlowStart

LEMMA FlowNewProxy ==
    ASSUME FlattenLaws, TypeOK, NewProxyStream
    PROVE  FlowInv'
<1> DEFINE hello == Message("ProxyBuildConnectionToPeer", "peer2")
<1>1. proxied /\ StartStream("peer0", hello, NoHandle, FALSE)
  BY DEF NewProxyStream
<1>2. ready' = FALSE /\ proxied' = proxied
  BY <1>1 DEF StartStream
<1>3. hello \in Items
  BY Messages DEF Ends
<1>4. hello = Hello'
  BY <1>1, <1>2 DEF Hello, Message
<1> HIDE DEF hello
<1> QED
  BY <1>1, <1>3, <1>4, FlowStart

LEMMA FlowWrite ==
    ASSUME FlattenLaws, TypeOK, FlowInv, Write
    PROVE  FlowInv'
<1> USE DEF dataVars
<1>1. PICK proto \in Seq(Items), rest \in Seq(Data) :
         /\ rest \in Seq(Items) /\ Cat(received, rest) = sent
         /\ Ahead(proto) /\ Flow(Cat(proto, rest))
  BY FlowPick
<1>2. PICK d \in Data : UnderWay(1)' = Cat(UnderWay(1), One(d)) /\ sent' = Cat(sent, One(d))
  BY WritePipes
<1>3. /\ UnderWay(2)' = UnderWay(2) /\ Link(1) \in up /\ ~finished[1]
      /\ UNCHANGED <<proxied, up, opener, reader, intact, finished, ready, request, received>>
  BY WritePipes DEF Write
<1>4. d \in Items /\ One(d) \in Seq(Data) /\ One(d) \in Seq(Items)
  BY ItemFacts, OneItem
<1>5. Cat(proto, rest) \in Seq(Items)
  BY <1>1, CatLaws
<1>6. Flow(Cat(Cat(proto, rest), One(d)))'
  BY <1>1, <1>2, <1>3, <1>4, <1>5, FlowAppend
<1>7. Cat(Cat(proto, rest), One(d)) = Cat(proto, Cat(rest, One(d)))
  BY <1>1, <1>4, CatLaws, SMTT(20)
<1>8. received \in Seq(Data)
  BY SMTT(20) DEF TypeOK
<1>9. Cat(rest, One(d)) \in Seq(Data) /\ Cat(Cat(received, rest), One(d)) = Cat(received, Cat(rest, One(d)))
  BY <1>4, <1>8, CatLaws, SMTT(20)
<1>10. reader \in [Hops -> Stages]
  BY SMTT(20) DEF TypeOK
<1>11. Ahead(proto)'
  BY <1>1, <1>3, <1>10, AheadSame
<1>12. Flow(Cat(proto, Cat(rest, One(d))))'
  BY <1>6, <1>7
<1>13. Cat(received', Cat(rest, One(d))) = sent'
  BY <1>1, <1>2, <1>3, <1>9
<1> QED
  BY <1>9, <1>11, <1>12, <1>13, FlowIntro

\* ProxyConnection comes behind all the other messages, and before all data.
LEMMA FlowSwitch ==
    ASSUME FlattenLaws, TypeOK, StageInv, FlowInv, SwitchToProxy
    PROVE  FlowInv'
<1> USE DEF dataVars
<1>1. PICK proto \in Seq(Items), rest \in Seq(Data) :
         /\ rest \in Seq(Items) /\ Cat(received, rest) = sent
         /\ Ahead(proto) /\ Flow(Cat(proto, rest))
  BY FlowPick
<1>2. /\ ~ready /\ ready' /\ Link(1) \in up /\ ~finished[1] /\ reader[1] = "relaying"
      /\ UNCHANGED <<proxied, up, opener, reader, intact, finished, request, sent, received>>
  BY DEF SwitchToProxy
<1>3. sent = <<>> /\ Len(out[1]) <= 1
  BY <1>2 DEF StageInv, PipeInv
<1>4. UnderWay(2)' = UnderWay(2) /\ UnderWay(1)' = Cat(UnderWay(1), One(Proxy))
  BY <1>3, SwitchPipes DEF Proxy
<1>5. received \in Seq(Data)
  BY SMTT(20) DEF TypeOK
<1>6. received = <<>> /\ rest = <<>>
  BY <1>1, <1>3, <1>5, CatLaws, SMTT(20)
<1>7. Proxy \in Items /\ One(Proxy) \in Seq(Items) /\ One(Address) \in Seq(Items) /\ One(Build) \in Seq(Items)
  BY ProtoItems
<1>8. Cat(proto, One(Proxy)) \in Seq(Items) /\ Cat(proto, <<>>) = proto
  BY <1>7, CatLaws
<1>9. Flow(Cat(proto, One(Proxy)))'
  <2>1. Flow(proto)
    BY <1>1, <1>6, <1>8
  <2> QED
    BY <1>2, <1>4, <1>7, <2>1, FlowAppend
<1>10. Cat(Cat(proto, One(Proxy)), rest) = Cat(proto, One(Proxy))
  BY <1>6, <1>8, CatLaws
<1>11. Switch = <<>> /\ Switch' = One(Proxy)
  BY <1>2 DEF Switch, Proxy
<1>12. reader[2] \in {"waiting", "building", "over"}
  BY <1>2, SMTT(20) DEF StageInv, HopsInv, TypeOK, Hops, Stages
<1>13. CASE reader[2] = "over"
  BY <1>2, <1>13, FlowOver
<1>14. CASE reader[2] # "over"
  <2>1. Build' = Build /\ Address' = Address
    BY <1>2 DEF Build, Address, Message, Relay
  <2>q. PICK q \in Seq(Items) : q = Cat(proto, One(Proxy))
    BY <1>8
  <2>f. Flow(Cat(q, rest))' /\ Cat(received', rest) = sent'
    BY <1>1, <1>2, <1>9, <1>10, <2>q
  <2>2. CASE reader[2] = "waiting"
    <3>1. request.kind # "UserProxy"
      BY <1>2, <2>2 DEF StageInv, HopsInv
    <3>2. proto = Cat(Cat(One(Build), One(Address)), Switch)
      BY <2>2, <3>1, <1>1 DEF Ahead, Build
    <3>3. Cat(One(Build), One(Address)) \in Seq(Items)
      BY <1>7, CatLaws
    <3>4. proto = Cat(One(Build), One(Address))
      BY <1>11, <3>2, <3>3, CatLaws
    <3>5. Cat(proto, One(Proxy)) = Cat(Cat(One(Build'), One(Address')), Switch')
      BY <1>11, <2>1, <3>4
    <3>6. Ahead(q)'
      BY <1>2, <2>2, <2>q, <3>1, <3>5 DEF Ahead, Build
    <3> QED
      BY <2>f, <3>6, FlowIntro
  <2>3. CASE reader[2] = "building"
    <3>1. proto = Cat(One(Address), Switch) \/ proto = Switch
      BY <1>1, <2>3 DEF Ahead
    <3>2. Cat(One(Address), Switch) = One(Address) /\ Cat(Switch, One(Proxy)) = One(Proxy)
      BY <1>7, <1>11, CatLaws
    <3>3. Cat(proto, One(Proxy)) = Cat(One(Address'), Switch') \/ Cat(proto, One(Proxy)) = Switch'
      BY <1>11, <2>1, <3>1, <3>2
    <3>4. Ahead(q)'
      BY <1>2, <2>3, <2>q, <3>3 DEF Ahead
    <3> QED
      BY <2>f, <3>4, FlowIntro
  <2> QED
    BY <1>12, <1>14, <2>2, <2>3
<1> QED
  BY <1>13, <1>14

LEMMA FlowRelayOpens ==
    ASSUME FlattenLaws, TypeOK, StageInv, FlowInv, RelayOpens
    PROVE  FlowInv'
<1> USE DEF dataVars
<1>1. PICK proto \in Seq(Items), rest \in Seq(Data) :
         /\ rest \in Seq(Items) /\ Cat(received, rest) = sent
         /\ Ahead(proto) /\ Flow(Cat(proto, rest))
  BY FlowPick
<1>2. /\ reader[1] = "opening" /\ reader[2] = "none"
      /\ UNCHANGED <<proxied, up, opener, ready, request, sent, received>>
  BY DEF RelayOpens, StageInv, HopsInv
<1>3. reader'[1] = "relaying" /\ reader'[2] = "waiting"
  BY SMTT(20) DEF RelayOpens, TypeOK, Hops
<1>4. out[2] = <<>> /\ net[2] = <<>> /\ overflow[2] = <<>>
  BY <1>2 DEF StageInv, PipeInv
<1>5. UnderWay(1)' = UnderWay(1) /\ UnderWay(2)' = Prelude /\ Piped = UnderWay(1)
  BY <1>2, <1>4, RelayOpensPipes, HopTwoEmpty
<1>6. Prelude \in Seq(Items) /\ UnderWay(1) \in Seq(Items)
  BY PreludeFacts, UnderWayType DEF Hops
<1>7. proto = <<>>
  BY <1>1, <1>2 DEF Ahead
<1>8. Cat(proto, rest) = rest
  BY <1>1, <1>7, CatLaws
<1>9. Prefix(UnderWay(1), rest) /\ (Link(1) \in up => UnderWay(1) = rest)
  BY <1>1, <1>2, <1>5, <1>8 DEF Flow
<1>10. Prefix(Cat(Prelude, UnderWay(1)), Cat(Prelude, rest)) /\ Prefix(Prelude, Cat(Prelude, rest))
  BY <1>1, <1>6, <1>9, PrefixLaws
<1>11. Piped' = Cat(Prelude, UnderWay(1))
  BY <1>5 DEF Piped
<1>12. Link(1)' = Link(1)
  BY <1>2, LinkFixed
<1> DEFINE f == Cat(Prelude, rest)
<1>13. /\ Prefix(Piped', f) /\ (Link(1)' \in up' => Piped' = f) /\ Prefix(UnderWay(2)', f)
  BY <1>2, <1>5, <1>9, <1>10, <1>11, <1>12
<1>p. PICK q \in Seq(Items) : q = Prelude
  BY <1>6
<1>14. Flow(Cat(q, rest))'
  <2>1. PICK g : g = f
    OBVIOUS
  <2>2. /\ Prefix(Piped', g) /\ (Link(1)' \in up' => Piped' = g) /\ Prefix(UnderWay(2)', g)
    BY <1>13, <2>1
  <2>3. Flow(g)'
    BY <1>3, <2>2 DEF Flow
  <2> QED
    BY <1>p, <2>1, <2>3
<1>15. Ahead(q)'
  <2>1. request.kind # "UserProxy" => Switch = <<>>
    BY <1>2 DEF StageInv, HopsInv, Switch
  <2>2. Switch' = Switch
    BY <1>2, MessagesFixed
  <2>3. Build' = Build /\ Address' = Address /\ Direct' = Direct
    BY <1>2 DEF Build, Address, Direct, Message, Relay
  <2>4. CASE request.kind = "UserProxy"
    <3>1. q = One(Direct')
      BY <1>p, <2>3, <2>4 DEF Prelude, Direct
    <3> QED
      BY <1>2, <1>3, <2>4, <3>1 DEF Ahead, Direct
  <2>5. CASE request.kind # "UserProxy"
    <3>1. q = Cat(One(Build), One(Address))
      BY <1>p, <2>5 DEF Prelude, Build, Address
    <3>2. q = Cat(Cat(One(Build'), One(Address')), Switch')
      BY <2>1, <2>2, <2>3, <2>5, <3>1, CatLaws
    <3> QED
      BY <1>2, <1>3, <2>5, <3>2 DEF Ahead, Build
  <2> QED
    BY <2>4, <2>5
<1>16. Cat(received', rest) = sent'
  BY <1>1, <1>2
<1> QED
  BY <1>14, <1>15, <1>16, FlowIntro

LEMMA FlowForward ==
    ASSUME FlattenLaws, TypeOK, StageInv, FlowInv, RelayForward
    PROVE  FlowInv'
<1> USE DEF dataVars
<1>1. PICK proto \in Seq(Items), rest \in Seq(Data) :
         /\ rest \in Seq(Items) /\ Cat(received, rest) = sent
         /\ Ahead(proto) /\ Flow(Cat(proto, rest))
  BY FlowPick
<1>2. /\ reader[1] = "relaying" /\ Link(2) \in up
      /\ UNCHANGED <<proxied, up, opener, ready, request, reader, finished, intact, sent, received>>
  BY DEF RelayForward
<1>3. reader \in [Hops -> Stages]
  BY SMTT(20) DEF TypeOK
<1>4. Ahead(proto)'
  BY <1>1, <1>2, <1>3, AheadSame
<1>5. PICK e \in Seq(Items) : e = Cat(proto, rest)
  BY <1>1, CatLaws
<1>6. Flow(e)
  BY <1>1, <1>5
<1>7. Link(1)' = Link(1) /\ Link(2)' = Link(2)
  BY <1>2, LinkFixed
<1>8. Piped' = Piped
  BY ForwardPiped
<1>9. UnderWay(1)' \in Seq(Items) /\ UnderWay(2)' \in Seq(Items)
  <2>1. PipesOK'
    BY RelayPipes
  <2> QED
    BY <2>1, PipesUnderWay DEF Hops
<1>10. Prefix(Piped, e) => Prefix(UnderWay(2)', e)
  <2>1. Prefix(Cat(UnderWay(2)', UnderWay(1)'), e) => Prefix(UnderWay(2)', e)
    BY <1>9, PrefixLaws, SMTT(20)
  <2>2. Piped' = Cat(UnderWay(2)', UnderWay(1)')
    BY DEF Piped
  <2> QED
    BY <1>8, <2>1, <2>2
<1>11. Flow(e)'
  BY <1>2, <1>6, <1>7, <1>8, <1>10 DEF Flow
<1>12. Flow(Cat(proto, rest))' /\ Cat(received', rest) = sent'
  BY <1>1, <1>2, <1>5, <1>11
<1> QED
  BY <1>4, <1>12, FlowIntro

LEMMA ExhaustedEmpty ==
    ASSUME FlattenLaws, NEW h, Exhausted(h) PROVE UnderWay(h) = <<>>
  BY UnderWayIs, WayEmpty DEF Exhausted

\* The relay goes. If nothing has cut the stream, all of it is on hop 2.
LEMMA FlowRelayEnds ==
    ASSUME FlattenLaws, TypeOK, StageInv, FlowInv, RelayEnds
    PROVE  FlowInv'
<1> USE DEF dataVars
<1>1. PICK proto \in Seq(Items), rest \in Seq(Data) :
         /\ rest \in Seq(Items) /\ Cat(received, rest) = sent
         /\ Ahead(proto) /\ Flow(Cat(proto, rest))
  BY FlowPick
<1>2. /\ reader[1] \in {"opening", "relaying"}
      /\ UNCHANGED <<proxied, up, opener, ready, request, sent, received>>
  BY DEF RelayEnds
<1>3. reader'[1] = "over" /\ reader'[2] = reader[2] /\ finished'[1] = finished[1]
  BY SMTT(20) DEF RelayEnds, TypeOK, Hops
<1>4. UnderWay(1)' = UnderWay(1) /\ UnderWay(2)' = UnderWay(2)
  BY SamePipes DEF RelayEnds
<1>5. CASE reader[2] \in {"none", "over"}
  BY <1>2, <1>3, <1>5, FlowOver
<1>6. CASE reader[2] \notin {"none", "over"}
  <2>1. reader[1] = "relaying"
    BY <1>2, <1>6 DEF StageInv, HopsInv
  <2>2. Ahead(proto)'
    <3>1. Switch' = Switch
      BY <1>2, MessagesFixed
    <3>2. Build' = Build /\ Address' = Address /\ Direct' = Direct
      BY <1>2 DEF Build, Address, Direct, Message, Relay
    <3> QED
      BY <1>1, <1>2, <1>3, <2>1, <3>1, <3>2 DEF Ahead, Build, Direct
  <2>3. PICK e \in Seq(Items) : e = Cat(proto, rest)
    BY <1>1, CatLaws
  <2>4. Flow(e)
    BY <1>1, <2>3
  <2>5. intact' => intact /\ Exhausted(1)
    BY DEF RelayEnds
  <2>6. intact' => finished[1] /\ UnderWay(2) = e
    <3>1. SUFFICES ASSUME intact' PROVE finished[1] /\ UnderWay(2) = e
      OBVIOUS
    <3>2. Link(1) \in up /\ Link(2) \in up
      BY <1>6, <2>5, <3>1 DEF StageInv, LinkInv
    <3>3. finished[1]
      BY <2>5, <3>1, <3>2 DEF Exhausted
    <3>4. Piped = e
      BY <1>6, <2>1, <2>4, <3>2 DEF Flow
    <3>5. UnderWay(1) = <<>>
      BY <2>5, <3>1, ExhaustedEmpty
    <3>6. UnderWay(2) \in Seq(Items)
      BY UnderWayType DEF Hops
    <3>7. Piped = UnderWay(2)
      BY <3>5, <3>6, CatLaws DEF Piped
    <3> QED
      BY <3>3, <3>4, <3>7
  <2>7. Prefix(UnderWay(2), e)
    BY <1>6, <2>4 DEF Flow
  <2>8. Flow(e)'
    BY <1>3, <1>4, <2>6, <2>7 DEF Flow
  <2>9. Flow(Cat(proto, rest))' /\ Cat(received', rest) = sent'
    BY <1>1, <1>2, <2>3, <2>8
  <2> QED
    BY <2>2, <2>9, FlowIntro
<1> QED
  BY <1>5, <1>6

\* A connection is lost: what is under way is the front of what was.
LEMMA FlowLost ==
    ASSUME FlattenLaws, TypeOK, StageInv, FlowInv, NEW c \in up, ConnectionLost(c)
    PROVE  FlowInv'
<1>0. 1 \in Hops /\ 2 \in Hops /\ reader \in [Hops -> Stages]
      /\ UnderWay(1) \in Seq(Items) /\ UnderWay(2) \in Seq(Items)
  BY UnderWayType, SMTT(20) DEF Hops, TypeOK
<1>1. PICK proto \in Seq(Items), rest \in Seq(Data) :
         /\ rest \in Seq(Items) /\ Cat(received, rest) = sent
         /\ Ahead(proto) /\ Flow(Cat(proto, rest))
  BY FlowPick
<1>2. /\ UNCHANGED <<proxied, opener, ready, request, reader, sent, received>>
      /\ intact' = FALSE /\ up' = up \ {c}
  BY DEF ConnectionLost
<1>3. Ahead(proto)'
  BY <1>0, <1>1, <1>2, AheadSame
<1>4. PICK e \in Seq(Items) : e = Cat(proto, rest)
  BY <1>1, CatLaws
<1>5. Flow(e)
  BY <1>1, <1>4
<1>6. Link(1)' = Link(1) /\ Link(2)' = Link(2)
  BY <1>2, LinkFixed
<1>7. UnderWay(1)' \in Seq(Items) /\ UnderWay(2)' \in Seq(Items)
      /\ (Link(1) # c => UnderWay(1)' = UnderWay(1)) /\ (Link(2) # c => UnderWay(2)' = UnderWay(2))
  BY <1>0, LostPipes
<1>8. PICK w \in Seq(Items) : UnderWay(1) = Cat(UnderWay(1)', w)
  BY <1>0, LostPipes
<1>9. PICK v \in Seq(Items) : UnderWay(2) = Cat(UnderWay(2)', v)
  BY <1>0, LostPipes
<1>10. Prefix(UnderWay(2), e) => Prefix(UnderWay(2)', e)
  BY <1>7, <1>9, PrefixLaws, SMTT(20)
<1>11. ASSUME reader[1] # "over", reader[2] # "over", reader[1] = "relaying" => Link(2) \in up'
       PROVE  Prefix(Piped', e) /\ (Link(1) \in up' => Piped' = e)
  <2>1. Prefix(Piped, e) /\ (Link(1) \in up => Piped = e)
    BY <1>2, <1>5, <1>11 DEF Flow
  <2>2. UnderWay(2)' = UnderWay(2)
    <3>1. CASE reader[1] = "relaying"
      BY <1>2, <1>7, <1>11, <3>1
    <3>2. CASE reader[1] # "relaying"
      <4>1. reader[2] = "none"
        BY <1>11, <3>2 DEF StageInv, HopsInv
      <4>2. UnderWay(2) = <<>>
        BY <4>1, HopTwoEmpty
      <4>3. UnderWay(2)' = <<>>
        BY <1>7, <1>9, <4>2, CatLaws, SMTT(20)
      <4> QED
        BY <4>2, <4>3
    <3> QED
      BY <3>1, <3>2
  <2>3. Piped' = Cat(UnderWay(2), UnderWay(1)')
    BY <2>2 DEF Piped
  <2>4. Cat(Cat(UnderWay(2), UnderWay(1)'), w) = Cat(UnderWay(2), Cat(UnderWay(1)', w))
        /\ Cat(UnderWay(2), UnderWay(1)') \in Seq(Items)
    BY <1>0, <1>7, CatLaws, SMTT(20)
  <2>5. Piped = Cat(Piped', w) /\ Piped' \in Seq(Items)
    BY <1>8, <2>3, <2>4 DEF Piped
  <2>6. Prefix(Piped', e)
    BY <2>1, <2>5, PrefixLaws
  <2>7. Link(1) \in up' => Piped' = e
    <3>1. SUFFICES ASSUME Link(1) \in up' PROVE Piped' = e
      OBVIOUS
    <3>2. Link(1) \in up /\ Link(1) # c
      BY <1>2, <3>1
    <3>3. Piped' = Piped
      BY <1>7, <2>3, <3>2 DEF Piped
    <3> QED
      BY <2>1, <3>2, <3>3
  <2> QED
    BY <2>6, <2>7
<1>12. Flow(e)'
  BY <1>2, <1>5, <1>6, <1>10, <1>11 DEF Flow
<1>13. Flow(Cat(proto, rest))' /\ Cat(received', rest) = sent'
  BY <1>1, <1>2, <1>4, <1>12
<1> QED
  BY <1>3, <1>13, FlowIntro

\* A frame that is read, by what comes behind it.
LEMMA FrameFlow ==
    ASSUME FlattenLaws, TypeOK, StageInv, NEW h \in Hops, reader[h] \in {"waiting", "building"},
           NEW x \in Items, UnderWay(h) = Cat(One(x), UnderWay(h)'), UnderWay(h)' \in Seq(Items),
           \A g \in Hops : g # h => UnderWay(g)' = UnderWay(g) /\ reader'[g] = reader[g],
           UNCHANGED <<proxied, up, opener, intact, finished, sent, received>>,
           reader'[h] \notin {"none", "over", "relaying"},
           NEW q \in Seq(Items), NEW rest \in Seq(Data), rest \in Seq(Items), Cat(received, rest) = sent,
           Flow(Cat(One(x), Cat(q, rest))), Ahead(q)'
    PROVE  FlowInv'
<1>1. One(x) \in Seq(Items) /\ Cat(q, rest) \in Seq(Items)
  BY OneItem, CatLaws
<1>2. Flow(Cat(q, rest))'
  BY <1>1, FlowRead
<1>3. Cat(received', rest) = sent'
  OBVIOUS
<1> QED
  BY <1>2, <1>3, FlowIntro

LEMMA FlowHello ==
    ASSUME FlattenLaws, TypeOK, StageInv, FlowInv, PollHello(1)
    PROVE  FlowInv'
<1> USE DEF dataVars
<1>1. PICK proto \in Seq(Items), rest \in Seq(Data) :
         /\ rest \in Seq(Items) /\ Cat(received, rest) = sent
         /\ Ahead(proto) /\ Flow(Cat(proto, rest))
  BY FlowPick
<1>2. /\ reader[1] = "waiting" /\ out' = out /\ 1 \in Hops
      /\ UNCHANGED <<proxied, up, opener, intact, finished, sent, received>>
  BY DEF PollHello, Hops
<1>3. /\ reader'[2] = reader[2] /\ reader[2] = "none"
      /\ reader'[1] \in {"opening", "passed", "over"}
  BY HelloOutcome
<1>4. PICK chunk \in Chunks(1) : ReadFrame(1, chunk)
  BY DEF PollHello
<1>5. PICK x \in Items : x = Head(chunk)
  BY <1>2, <1>4, ReadFrameFacts
<1>6. /\ UnderWay(1) = Cat(One(x), UnderWay(1)') /\ UnderWay(1)' \in Seq(Items)
      /\ \A g \in Hops : g # 1 => UnderWay(g)' = UnderWay(g)
  BY <1>2, <1>4, <1>5, ReadFrameFacts
<1>7. Cat(proto, rest) = Cat(One(x), rest)
  BY <1>1, <1>2, <1>6, ReadsHello
<1>8. CASE reader'[1] = "over"
  BY <1>2, <1>3, <1>8, FlowOver
<1>9. CASE reader'[1] # "over"
  <2> DEFINE p == <<>>
  <2>1. p \in Seq(Items) /\ Ahead(p)'
    BY <1>3, SMTT(20) DEF Ahead
  <2>2. Cat(p, rest) = rest
    BY <1>1, CatLaws
  <2> HIDE DEF p
  <2>3. Flow(Cat(One(x), Cat(p, rest)))
    BY <1>1, <1>7, <2>2
  <2>4. /\ \A g \in Hops : g # 1 => UnderWay(g)' = UnderWay(g) /\ reader'[g] = reader[g]
        /\ reader'[1] \notin {"none", "over", "relaying"}
        /\ reader[1] \in {"waiting", "building"}
    BY <1>2, <1>3, <1>6, <1>9 DEF Hops
  <2> QED
    BY <1>1, <1>2, <1>6, <2>1, <2>3, <2>4, FrameFlow
<1> QED
  BY <1>8, <1>9

LEMMA FlowRelayed ==
    ASSUME FlattenLaws, TypeOK, StageInv, FlowInv, PollHello(2)
    PROVE  FlowInv'
<1> USE DEF dataVars
<1>1. PICK proto \in Seq(Items), rest \in Seq(Data) :
         /\ rest \in Seq(Items) /\ Cat(received, rest) = sent
         /\ Ahead(proto) /\ Flow(Cat(proto, rest))
  BY FlowPick
<1>2. /\ reader[2] = "waiting" /\ out' = out /\ 2 \in Hops
      /\ UNCHANGED <<proxied, up, opener, intact, finished, sent, received, ready>>
  BY DEF PollHello, Hops
<1>3. /\ reader'[1] = reader[1] /\ reader[1] \in {"relaying", "over"}
      /\ IF request.kind = "UserProxy" THEN reader'[2] \in {"passed", "over"}
         ELSE reader'[2] = "building"
  BY <1>2, RelayedOutcome DEF StageInv, HopsInv
<1>4. PICK chunk \in Chunks(2) : ReadFrame(2, chunk)
  BY DEF PollHello
<1>5. PICK x \in Items : x = Head(chunk)
  BY <1>2, <1>4, ReadFrameFacts
<1>6. /\ UnderWay(2) = Cat(One(x), UnderWay(2)') /\ UnderWay(2)' \in Seq(Items)
      /\ \A g \in Hops : g # 2 => UnderWay(g)' = UnderWay(g)
  BY <1>2, <1>4, <1>5, ReadFrameFacts
<1>7. IF request.kind = "UserProxy" THEN Cat(proto, rest) = Cat(One(x), rest)
      ELSE Cat(proto, rest) = Cat(One(x), Cat(Cat(One(Address), Switch), rest))
  BY <1>1, <1>2, <1>6, ReadsRelayed
<1>8. CASE reader'[2] = "over"
  BY <1>2, <1>3, <1>8, FlowOver
<1>9. CASE reader'[2] # "over"
  <2>4. /\ \A g \in Hops : g # 2 => UnderWay(g)' = UnderWay(g) /\ reader'[g] = reader[g]
        /\ reader'[2] \notin {"none", "over", "relaying"}
        /\ reader[2] \in {"waiting", "building"}
    BY <1>2, <1>3, <1>6, <1>9 DEF Hops
  <2>5. CASE request.kind = "UserProxy"
    <3> DEFINE p == <<>>
    <3>1. p \in Seq(Items) /\ Ahead(p)'
      BY <1>3, <2>5, SMTT(20) DEF Ahead
    <3>2. Cat(p, rest) = rest
      BY <1>1, CatLaws
    <3> HIDE DEF p
    <3>3. Flow(Cat(One(x), Cat(p, rest)))
      BY <1>1, <1>7, <2>5, <3>2
    <3> QED
      BY <1>1, <1>2, <1>6, <2>4, <3>1, <3>3, FrameFlow
  <2>6. CASE request.kind # "UserProxy"
    <3>1. PICK q \in Seq(Items) : q = Cat(One(Address), Switch)
      BY ProtoItems
    <3>2. Switch' = Switch /\ Address' = Address
      BY <1>2, MessagesFixed DEF Address, Message, Relay
    <3>3. reader'[2] = "building" /\ reader'[1] # "waiting"
      BY <1>3, <2>6
    <3>4. q = Cat(One(Address'), Switch')
      BY <3>1, <3>2
    <3>5. Ahead(q)'
      BY <3>3, <3>4 DEF Ahead
    <3>6. Flow(Cat(One(x), Cat(q, rest)))
      BY <1>1, <1>7, <2>6, <3>1
    <3> QED
      BY <1>1, <1>2, <1>6, <2>4, <3>5, <3>6, FrameFlow
  <2> QED
    BY <2>5, <2>6
<1> QED
  BY <1>8, <1>9

LEMMA FlowBuild ==
    ASSUME FlattenLaws, TypeOK, StageInv, FlowInv, NEW h \in Hops, PollBuild(h)
    PROVE  FlowInv'
<1> USE DEF dataVars
<1>1. PICK proto \in Seq(Items), rest \in Seq(Data) :
         /\ rest \in Seq(Items) /\ Cat(received, rest) = sent
         /\ Ahead(proto) /\ Flow(Cat(proto, rest))
  BY FlowPick
<1>2. /\ h = 2 /\ out' = out /\ 2 \in Hops
      /\ UNCHANGED <<proxied, up, opener, intact, finished, sent, received, ready>>
  BY BuildOutcome DEF PollBuild
<1>3. /\ reader[2] = "building" /\ reader'[1] = reader[1] /\ reader[1] \in {"relaying", "over"}
      /\ reader'[2] \in {"building", "passed", "over"}
  BY BuildOutcome DEF StageInv, HopsInv
<1>4. PICK chunk \in Chunks(2) :
         /\ ReadFrame(2, chunk)
         /\ Head(chunk).kind = "InternetAddressInformation" => reader' = reader
         /\ Head(chunk).kind = "ProxyConnection" => PassStream(2, request.peer, TRUE)
  BY <1>2 DEF PollBuild
<1>5. PICK x \in Items : x = Head(chunk)
  BY <1>2, <1>4, ReadFrameFacts
<1>6. /\ UnderWay(2) = Cat(One(x), UnderWay(2)') /\ UnderWay(2)' \in Seq(Items)
      /\ \A g \in Hops : g # 2 => UnderWay(g)' = UnderWay(g)
  BY <1>2, <1>4, <1>5, ReadFrameFacts
<1>7. \/ x = Address /\ Cat(proto, rest) = Cat(One(x), Cat(Switch, rest))
      \/ x = Proxy /\ Cat(proto, rest) = Cat(One(x), rest)
  BY <1>1, <1>3, <1>6, ReadsBuild, SMTT(20)
<1>8. CASE reader'[2] = "over"
  BY <1>2, <1>3, <1>8, FlowOver
<1>9. CASE reader'[2] # "over"
  <2>4. /\ \A g \in Hops : g # 2 => UnderWay(g)' = UnderWay(g) /\ reader'[g] = reader[g]
        /\ reader'[2] \notin {"none", "over", "relaying"}
        /\ reader[2] \in {"waiting", "building"}
    BY <1>3, <1>6, <1>9 DEF Hops
  <2>5. CASE x = Proxy /\ Cat(proto, rest) = Cat(One(x), rest)
    <3> DEFINE p == <<>>
    <3>0. reader'[2] = "passed"
      <4>1. x.kind = "ProxyConnection"
        BY <2>5, Kind
      <4> QED
        BY <1>2, <1>4, <1>5, <1>9, <4>1, SMTT(20) DEF PassStream, TypeOK
    <3>1. p \in Seq(Items) /\ Ahead(p)'
      BY <1>3, <3>0, SMTT(20) DEF Ahead
    <3>2. Cat(p, rest) = rest
      BY <1>1, CatLaws
    <3> HIDE DEF p
    <3>3. Flow(Cat(One(x), Cat(p, rest)))
      BY <1>1, <2>5, <3>2
    <3> QED
      BY <1>1, <1>2, <1>6, <2>4, <3>1, <3>3, FrameFlow
  <2>6. CASE x = Address /\ Cat(proto, rest) = Cat(One(x), Cat(Switch, rest))
    <3>1. PICK q \in Seq(Items) : q = Switch
      BY ProtoItems
    <3>2. Switch' = Switch
      BY <1>2, MessagesFixed
    <3>3. reader'[2] = "building" /\ reader'[1] # "waiting"
      <4>1. x.kind = "InternetAddressInformation"
        BY <2>6, Kind
      <4> QED
        BY <1>3, <1>4, <1>5, <4>1
    <3>4. q = Switch'
      BY <3>1, <3>2
    <3>5. Ahead(q)'
      BY <3>3, <3>4 DEF Ahead
    <3>6. Flow(Cat(One(x), Cat(q, rest)))
      BY <1>1, <2>6, <3>1
    <3> QED
      BY <1>1, <1>2, <1>6, <2>4, <3>5, <3>6, FrameFlow
  <2> QED
    BY <1>7, <2>5, <2>6
<1> QED
  BY <1>8, <1>9

\* The user reads the front of the rest.
LEMMA FlowUser ==
    ASSUME FlattenLaws, TypeOK, StageInv, FlowInv, NEW h \in Hops,
           UserPoll(h) \/ \E size \in 1..BufSize : UserRead(h, size)
    PROVE  /\ FlowInv'
           /\ \E c, r \in Seq(Data) : /\ c # <<>> /\ received' = Cat(received, c)
                                      /\ Cat(received', r) = sent /\ received' \in Seq(Data)
<1> USE DEF dataVars
<1>1. PICK proto \in Seq(Items), rest \in Seq(Data) :
         /\ rest \in Seq(Items) /\ Cat(received, rest) = sent
         /\ Ahead(proto) /\ Flow(Cat(proto, rest))
  BY FlowPick
<1>2. /\ reader[h] = "delivered"
      /\ UNCHANGED <<proxied, up, opener, intact, finished, sent, reader>>
  BY DEF UserPoll, UserRead
<1>3. reader[1] # "waiting" /\ reader[2] \notin {"waiting", "building"}
  BY <1>2 DEF StageInv, HopsInv, Hops
<1>4. proto = <<>>
  BY <1>1, <1>3 DEF Ahead
<1>5. Flow(rest)
  <2>1. Cat(<<>>, rest) = rest
    BY <1>1, CatLaws
  <2> QED
    BY <1>1, <1>4, <2>1
<1>6. PipesOK' /\ \A g \in Hops : g # h => UnderWay(g)' = UnderWay(g)
  BY UserReads
<1>7. PICK c \in Seq(Items) : /\ c # <<>> /\ UnderWay(h) = Cat(c, UnderWay(h)')
                              /\ received' = Cat(received, c)
  BY UserReads
<1>8. UnderWay(h)' \in Seq(Items)
  BY <1>6, PipesUnderWay
<1>9. PICK r \in Seq(Items) : rest = Cat(c, r)
  BY <1>1, <1>2, <1>5, <1>7, <1>8, Expected, SMTT(20)
<1>10. c \in Seq(Data) /\ r \in Seq(Data)
  <2>1. Cat(c, r) \in Seq(Data) /\ Data \subseteq Items
    BY <1>9, ItemFacts
  <2> QED
    BY <2>1, Parts
<1>11. Flow(r)'
  <2>1. Flow(Cat(c, r))
    BY <1>5, <1>9
  <2>2. /\ \A g \in Hops : g # h => UnderWay(g)' = UnderWay(g) /\ reader'[g] = reader[g]
        /\ reader'[h] \notin {"none", "over", "relaying"}
        /\ reader[h] \in {"waiting", "building", "delivered"}
    BY <1>2, <1>6
  <2> QED
    BY <1>2, <1>7, <1>8, <2>1, <2>2, FlowRead
<1>12. received \in Seq(Data)
  BY SMTT(20) DEF TypeOK
<1>13. Cat(Cat(received, c), r) = Cat(received, Cat(c, r)) /\ Cat(received, c) \in Seq(Data)
  BY <1>10, <1>12, CatLaws, SMTT(20)
<1>14. Cat(received', r) = sent /\ received' \in Seq(Data)
  BY <1>1, <1>7, <1>9, <1>13
<1> DEFINE p == <<>>
<1>15. p \in Seq(Items) /\ Ahead(p)'
  BY <1>2, <1>3, SMTT(20) DEF Ahead
<1>16. Cat(p, r) = r
  BY CatLaws
<1> HIDE DEF p
<1>17. Flow(Cat(p, r))' /\ Cat(received', r) = sent'
  BY <1>2, <1>11, <1>14, <1>16
<1>18. FlowInv'
  BY <1>10, <1>15, <1>17, FlowIntro
<1> QED
  BY <1>7, <1>10, <1>14, <1>18

LEMMA FlowStep ==
    ASSUME FlattenLaws, TypeOK, StageInv, FlowInv, Next
    PROVE  FlowInv' /\ received' \in Seq(Data)
<1> USE DEF dataVars
<1>0. /\ 1 \in Hops /\ 2 \in Hops /\ 1 # 2 /\ reader \in [Hops -> Stages] /\ received \in Seq(Data)
      /\ HopsInv /\ finished \in [Hops -> BOOLEAN]
  BY SMTT(20) DEF TypeOK, Hops, StageInv
<1>o. ASSUME NEW h \in Hops, reader' = [reader EXCEPT ![h] = "over"], UNCHANGED <<sent, received>>,
             h = 1 => reader[2] = "none", h = 2 => reader[2] # "none"
      PROVE  FlowInv'
  <2>1. CASE h = 1
    <3>1. reader'[1] = "over" /\ reader'[2] = "none"
      BY <1>0, <1>o, <2>1
    <3> QED
      BY <1>o, <3>1, FlowOver
  <2>2. CASE h = 2
    <3>1. reader'[2] = "over" /\ reader'[1] = reader[1] /\ reader[1] # "waiting"
      BY <1>0, <1>o, <2>2 DEF HopsInv
    <3> QED
      BY <1>o, <3>1, FlowOver
  <2> QED
    BY <2>1, <2>2 DEF Hops
<1>1. ASSUME NEW x \in Ends, NewStream(x) PROVE FlowInv' /\ received' \in Seq(Data)
  <2>1. received' = <<>>
    BY <1>1 DEF NewStream, StartStream
  <2> QED
    BY <1>1, <2>1, FlowNew, SMTT(20)
<1>2. CASE NewProxyStream
  <2>1. received' = <<>>
    BY <1>2 DEF NewProxyStream, StartStream
  <2> QED
    BY <1>2, <2>1, FlowNewProxy, SMTT(20)
<1>3. ASSUME NEW h \in Hops, HopStep(h) PROVE FlowInv' /\ received' \in Seq(Data)
  <2>0. UNCHANGED <<proxied, up, opener, finished, ready, sent, intact>>
    BY <1>3, HopFrame
  <2>1. CASE UserPoll(h) \/ \E size \in 1..BufSize : UserRead(h, size)
    BY <2>1, FlowUser
  <2>2. CASE HelloTimeout(h) \/ UserEof(h) \/ StreamDropped(h)
    <3>1. /\ reader' = [reader EXCEPT ![h] = "over"] /\ UNCHANGED <<sent, received>>
          /\ reader[h] \in {"waiting", "building", "delivered"}
      BY <2>2 DEF HelloTimeout, UserEof, StreamDropped
    <3>2. (h = 1 => reader[2] = "none") /\ (h = 2 => reader[2] # "none")
      BY <1>0, <3>1 DEF HopsInv
    <3> QED
      BY <1>0, <1>o, <3>1, <3>2
  <2>3. CASE Transport(h) \/ ContextPoll(h)
    <3>1. UNCHANGED <<request, received>>
      BY <2>3 DEF Transport, ContextPoll
    <3>2. \A g \in Hops : \/ reader'[g] = reader[g]
                          \/ reader[g] = "passed" /\ reader'[g] = "delivered"
      BY <1>0, <2>3 DEF Transport, ContextPoll
    <3>3. UnderWay(1)' = UnderWay(1) /\ UnderWay(2)' = UnderWay(2)
      <4>1. CASE Transport(h)
        BY <1>0, <4>1, TransportPipes
      <4>2. CASE ContextPoll(h)
        <5>1. UNCHANGED pipes
          BY <4>2 DEF ContextPoll
        <5> QED
          BY <5>1, SamePipes
      <4> QED
        BY <2>3, <4>1, <4>2
    <3>4. FlowInv'
      BY <2>0, <3>1, <3>2, <3>3, FlowSame
    <3> QED
      BY <1>0, <3>1, <3>4
  <2>4. CASE PollHello(h)
    <3>1. received' = received
      BY <2>4 DEF PollHello
    <3> QED
      BY <1>0, <2>4, <3>1, FlowHello, FlowRelayed DEF Hops
  <2>5. CASE PollBuild(h)
    <3>1. received' = received
      BY <2>5 DEF PollBuild
    <3> QED
      BY <1>0, <2>5, <3>1, FlowBuild
  <2> QED
    BY <1>3, <2>1, <2>2, <2>3, <2>4, <2>5 DEF HopStep
<1>4. CASE Write
  <2>1. received' = received
    BY <1>4 DEF Write
  <2> QED
    BY <1>0, <1>4, <2>1, FlowWrite
<1>5. CASE SwitchToProxy
  <2>1. received' = received
    BY <1>5 DEF SwitchToProxy
  <2> QED
    BY <1>0, <1>5, <2>1, FlowSwitch
<1>6. CASE RelayOpens
  <2>1. received' = received
    BY <1>6 DEF RelayOpens
  <2> QED
    BY <1>0, <1>6, <2>1, FlowRelayOpens
<1>7. CASE RelayForward
  <2>1. received' = received
    BY <1>7 DEF RelayForward
  <2> QED
    BY <1>0, <1>7, <2>1, FlowForward
<1>8. CASE RelayEnds
  <2>1. received' = received
    BY <1>8 DEF RelayEnds
  <2> QED
    BY <1>0, <1>8, <2>1, FlowRelayEnds
<1>9. ASSUME NEW c \in up, ConnectionLost(c) PROVE FlowInv' /\ received' \in Seq(Data)
  <2>1. received' = received
    BY <1>9 DEF ConnectionLost
  <2> QED
    BY <1>0, <1>9, <2>1, FlowLost
<1>10. CASE OpenerDrops \/ \E p \in Ends : ContextEnds(p)
  <2>1. UNCHANGED <<proxied, up, opener, request, ready, sent, received, intact, reader>> /\ UNCHANGED pipes
    BY <1>10 DEF OpenerDrops, ContextEnds
  <2>2. finished[1] => finished'[1]
    BY <1>0, <1>10 DEF OpenerDrops, ContextEnds
  <2>3. UnderWay(1)' = UnderWay(1) /\ UnderWay(2)' = UnderWay(2)
    BY <2>1, SamePipes
  <2>4. FlowInv'
    BY <2>1, <2>2, <2>3, FlowSame
  <2> QED
    BY <1>0, <2>1, <2>4
<1>11. ASSUME NEW p \in Ends, ContextDropped(p) PROVE FlowInv' /\ received' \in Seq(Data)
  <2>1. UNCHANGED <<proxied, up, opener, request, ready, sent, received, intact, finished>> /\ UNCHANGED pipes
    BY <1>11 DEF ContextDropped
  <2>2. reader' = [h \in Hops |-> IF reader[h] = "passed" /\ Reader(h) = p THEN "over" ELSE reader[h]]
    BY <1>11 DEF ContextDropped
  <2>3. CASE \A h \in Hops : ~(reader[h] = "passed" /\ Reader(h) = p)
    <3>1. \A h \in Hops : reader'[h] = reader[h]
      BY <2>2, <2>3
    <3>2. UnderWay(1)' = UnderWay(1) /\ UnderWay(2)' = UnderWay(2)
      BY <2>1, SamePipes
    <3>3. FlowInv'
      BY <2>1, <3>1, <3>2, FlowSame
    <3> QED
      BY <1>0, <2>1, <3>3
  <2>4. ASSUME NEW h \in Hops, reader[h] = "passed" /\ Reader(h) = p
        PROVE  FlowInv' /\ received' \in Seq(Data)
    <3>1. \A g \in Hops : g # h => reader[g] # "passed"
      BY <1>0, <2>4 DEF HopsInv, Hops
    <3>2. reader' = [reader EXCEPT ![h] = "over"]
      BY <1>0, <2>2, <2>4, <3>1
    <3>3. (h = 1 => reader[2] = "none") /\ (h = 2 => reader[2] # "none")
      BY <1>0, <2>4 DEF HopsInv
    <3> QED
      BY <1>0, <1>o, <2>1, <3>2, <3>3
  <2> QED
    BY <2>3, <2>4
<1> QED
  BY <1>1, <1>2, <1>3, <1>4, <1>5, <1>6, <1>7, <1>8, <1>9, <1>10, <1>11 DEF Next

-----------------------------------------------------------------------------
(* Every step keeps the invariant *)

LEMMA InitHolds ==
    ASSUME FlattenLaws, Init PROVE IInv
<1> USE DEF Init
<1>0. 1 \in Hops /\ 2 \in Hops
  BY DEF Hops
<1>1. TypeOK
  <2>1. up \subseteq Connections
    BY SMTT(20) DEF Connections, Peers, Ends, Relay
  <2>2. handle \in [Ends -> Handles]
    BY DEF Handles, Peers, Ends, Relay, Neighbour, OtherEnd, NoHandle
  <2>3. PipesOK
    BY SizesAssumption, SMTT(20) DEF PipesOK
  <2>4. request \in Items /\ incoming \in Handles
    BY Messages DEF Handles, NoHandle
  <2>6. opened \in 0..MaxStreams /\ opener \in Ends
    BY SizesAssumption, SMTT(20) DEF Ends
  <2>7. /\ finished \in [Hops -> BOOLEAN] /\ reader \in [Hops -> Stages]
        /\ context \in [Peers -> {"running", "ended", "dropped"}]
    BY DEF Stages
  <2>8. /\ proxied \in BOOLEAN /\ ready \in BOOLEAN
        /\ intact \in BOOLEAN /\ eof \in BOOLEAN
    OBVIOUS
  <2>9. sent \in Seq(Data) /\ received \in Seq(Data)
    BY SMTT(20)
  <2> HIDE DEF Init
  <2>5. ControlOK
    BY <2>1, <2>2, <2>4, <2>6, <2>7, <2>8, <2>9 DEF ControlOK
  <2> QED
    BY <2>3, <2>5, <2>9, TypeSplit
<1>2. UnderWay(1) = <<>> /\ UnderWay(2) = <<>>
  BY <1>0, UnderWayIs, WayEmpty
<1> DEFINE p == <<>>
<1>3. p \in Seq(Items) /\ p \in Seq(Data) /\ UnderWay(1) = p /\ UnderWay(2) = p /\ received = p /\ sent = p
  BY <1>2, SMTT(20)
<1>4. Cat(p, p) = p /\ Prefix(p, p)
  BY <1>3, CatLaws, PrefixLaws
<1>5. ~HasData(p) /\ DataLast(p)
  BY SMTT(20) DEF HasData, DataLast
<1>6. Ahead(p)
  BY <1>0 DEF Ahead
<1> HIDE DEF p
<1>7. Piped = p
  BY <1>3, <1>4 DEF Piped
<1>8. DataInv
  BY <1>5, <1>7 DEF DataInv
<1>9. Flow(p)
  BY <1>0, <1>4, <1>7 DEF Flow
<1>10. FlowInv
  BY <1>3, <1>4, <1>6, <1>9 DEF FlowInv
<1>11. HandleInv
  BY <1>0 DEF HandleInv, PeerHandle, Ends, Relay, Neighbour, OtherEnd, NoHandle
<1>12. HopsInv
  BY <1>0 DEF HopsInv, LastHop
<1>13. PipeInv
  BY <1>0, SMTT(20) DEF PipeInv
<1>14. LinkInv
  BY <1>0 DEF LinkInv, Link, Neighbour, OtherEnd, Ends
<1> QED
  BY <1>1, <1>8, <1>10, <1>11, <1>12, <1>13, <1>14 DEF IInv, StageInv

LEMMA StutterHolds ==
    ASSUME IInv, UNCHANGED vars PROVE IInv'
<1>0. /\ UNCHANGED <<proxied, up, opened, opener, handle, out, net, overflow, finished, reader>>
      /\ UNCHANGED <<request, incoming, context, ready, sent, received, intact, eof>>
      /\ UNCHANGED pipes
  BY DEF vars, pipes, dataVars
<1>1. TypeOK /\ HandleInv /\ HopsInv /\ PipeInv /\ LinkInv /\ FlowInv /\ DataInv
  BY DEF IInv, StageInv
<1>2. TypeOK'
  BY <1>0, <1>1, SMTT(20) DEF TypeOK
<1>3. HandleInv'
  BY <1>0, <1>1, HandleSame
<1>4. HopsInv'
  BY <1>0, <1>1, HopsSame
<1>5. PipeInv'
  BY <1>0, <1>1 DEF PipeInv
<1>6. LinkInv'
  BY <1>0, <1>1, LinkSame
<1>7. UnderWay(1)' = UnderWay(1) /\ UnderWay(2)' = UnderWay(2)
  BY <1>0, <1>1, SamePipes
<1>8. FlowInv'
  BY <1>0, <1>1, <1>7, FlowSame
<1>9. DataInv'
  BY <1>0, <1>1, <1>7 DEF DataInv, Piped
<1> QED
  BY <1>2, <1>3, <1>4, <1>5, <1>6, <1>8, <1>9 DEF IInv, StageInv

LEMMA NextHolds ==
    ASSUME FlattenLaws, IInv, Next PROVE IInv'
<1>1. TypeOK /\ StageInv /\ FlowInv /\ DataInv
  BY DEF IInv
<1>2. StageInv'
  BY <1>1, StageStep
<1>3. FlowInv' /\ received' \in Seq(Data)
  BY <1>1, FlowStep
<1>4. DataInv'
  BY <1>1, DataStep
<1>5. ControlOK'
  BY <1>1, ControlStep
<1>6. PipesOK'
  BY <1>1, PipesStep
<1>7. TypeOK'
  BY <1>3, <1>5, <1>6, TypeSplit
<1> QED
  BY <1>2, <1>3, <1>4, <1>7 DEF IInv

-----------------------------------------------------------------------------
(* What follows from the invariant *)

\* Each of the two users has the handle that names the other one.
LEMMA EndsMatch ==
    ASSUME IInv PROVE EndsAgree
<1>1. SUFFICES ASSUME IInv, NEW h \in Hops, reader[h] = "delivered"
               PROVE  /\ h = LastHop
                      /\ handle[opener] = [peer |-> OtherEnd(opener), proxy |-> proxied]
                      /\ handle[OtherEnd(opener)] = [peer |-> opener, proxy |-> proxied]
  BY DEF EndsAgree
<1>2. HandleInv /\ HopsInv /\ opener \in Ends
  BY <1>1, SMTT(20) DEF IInv, StageInv, TypeOK
<1>3. h = LastHop /\ ready
  BY <1>1, <1>2 DEF HopsInv, LastHop, Hops
<1>4. handle[opener] = PeerHandle(opener) /\ handle[OtherEnd(opener)] = PeerHandle(OtherEnd(opener))
  BY <1>1, <1>2, <1>3 DEF HandleInv
<1> QED
  BY <1>2, <1>3, <1>4, EndFacts DEF PeerHandle

\* What is first on a hop whose reader waits for a message.
LEMMA FirstItem ==
    ASSUME FlattenLaws, IInv, NEW h \in Hops, UnderWay(h) # <<>>
    PROVE  /\ reader[h] = "waiting" =>
                UnderWay(h)[1].kind \in {"User", "UserProxy", "BuildConnectionToPeer",
                                         "ProxyBuildConnectionToPeer"}
           /\ reader[h] = "building" =>
                UnderWay(h)[1].kind \in {"InternetAddressInformation", "ProxyConnection"}
<1>1. TypeOK /\ StageInv /\ HopsInv /\ FlowInv
  BY DEF IInv, StageInv
<1>2. PICK proto \in Seq(Items), rest \in Seq(Data) :
         /\ rest \in Seq(Items) /\ Cat(received, rest) = sent
         /\ Ahead(proto) /\ Flow(Cat(proto, rest))
  BY <1>1, FlowPick
<1>3. UnderWay(h) \in Seq(Items)
  BY <1>1, UnderWayType
<1>4. PICK x \in Items, u \in Seq(Items) : UnderWay(h)[1] = x /\ UnderWay(h) = Cat(One(x), u)
  BY <1>3, Cons
<1>5. CASE reader[h] = "waiting"
  <2>1. CASE h = 1
    <3>1. x = Hello
      BY <1>1, <1>2, <1>4, <1>5, <2>1, ReadsHello
    <3>2. Hello.kind \in {"User", "UserProxy", "ProxyBuildConnectionToPeer"}
      BY Kind
    <3> QED
      BY <1>4, <1>5, <3>1, <3>2
  <2>2. CASE h = 2
    <3>1. x = Direct \/ x = Build
      BY <1>1, <1>2, <1>4, <1>5, <2>2, ReadsRelayed
    <3>2. Direct.kind = "User" /\ Build.kind = "BuildConnectionToPeer"
      BY Kind
    <3> QED
      BY <1>4, <1>5, <3>1, <3>2
  <2> QED
    BY <2>1, <2>2 DEF Hops
<1>6. CASE reader[h] = "building"
  <2>1. h = 2
    BY <1>1, <1>6 DEF HopsInv, Hops
  <2>2. x = Address \/ x = Proxy
    BY <1>1, <1>2, <1>4, <1>6, <2>1, ReadsBuild
  <2>3. Address.kind = "InternetAddressInformation" /\ Proxy.kind = "ProxyConnection"
    BY Kind
  <2> QED
    BY <1>4, <1>6, <2>2, <2>3
<1> QED
  BY <1>5, <1>6

\* A stream that the user gets carries nothing but data.
LEMMA OnlyData ==
    ASSUME FlattenLaws, IInv, NEW h \in Hops, reader[h] \in {"passed", "delivered"}
    PROVE  AllData(UnderWay(h))
<1>1. TypeOK /\ StageInv /\ HopsInv /\ FlowInv
  BY DEF IInv, StageInv
<1>2. PICK proto \in Seq(Items), rest \in Seq(Data) :
         /\ rest \in Seq(Items) /\ Cat(received, rest) = sent
         /\ Ahead(proto) /\ Flow(Cat(proto, rest))
  BY <1>1, FlowPick
<1>3. reader[1] # "waiting" /\ reader[2] \notin {"waiting", "building"}
  BY <1>1 DEF HopsInv, Hops
<1>4. proto = <<>>
  BY <1>2, <1>3 DEF Ahead
<1>5. Cat(<<>>, rest) = rest
  BY <1>2, CatLaws
<1>6. Flow(rest)
  BY <1>2, <1>4, <1>5
<1>7. UnderWay(h) \in Seq(Items)
  BY <1>1, UnderWayType
<1> DEFINE p == <<>>
<1>e. p \in Seq(Items)
  BY SMTT(20)
<1>f. \A s \in Seq(Items) : s = Cat(s, p)
  BY CatLaws
<1> HIDE DEF p
<1>8. UnderWay(h) = Cat(UnderWay(h), p)
  BY <1>7, <1>f
<1>9. PICK r \in Seq(Items) : rest = Cat(UnderWay(h), r)
  BY <1>1, <1>2, <1>6, <1>7, <1>8, <1>e, Expected, SMTT(20)
<1>10. AllData(rest)
  BY DataSeq
<1>11. AllData(Cat(UnderWay(h), r)) => AllData(UnderWay(h))
  BY <1>7, DataCat
<1> QED
  BY <1>9, <1>10, <1>11

\* Messages come before the data, on each hop.
LEMMA MessagesFirst ==
    ASSUME FlattenLaws, IInv PROVE ProtocolComesFirst
<1>1. SUFFICES ASSUME IInv, NEW h \in Hops
               PROVE  LET items == UnderWay(h) IN
                      /\ \A i, j \in DOMAIN items : i < j /\ IsData(items[i]) => IsData(items[j])
                      /\ reader[h] = "waiting" /\ items # <<>> =>
                            items[1].kind \in {"User", "UserProxy", "BuildConnectionToPeer",
                                               "ProxyBuildConnectionToPeer"}
                      /\ reader[h] = "building" /\ items # <<>> =>
                            request.kind # items[1].kind /\ ~IsData(items[1])
                      /\ reader[h] \in {"passed", "delivered"} => \A i \in DOMAIN items : IsData(items[i])
  BY DEF ProtocolComesFirst
<1>2. /\ TypeOK /\ HopsInv /\ DataLast(Piped)
      /\ UnderWay(1) \in Seq(Items) /\ UnderWay(2) \in Seq(Items)
  BY <1>1, UnderWayType DEF IInv, StageInv, DataInv, Hops
<1>3. DataLast(UnderWay(1)) /\ DataLast(UnderWay(2))
  BY <1>2, DataCat DEF Piped
<1>4. DataLast(UnderWay(h)) /\ UnderWay(h) \in Seq(Items)
  BY <1>2, <1>3 DEF Hops
<1>5. UnderWay(h) # <<>> =>
        /\ reader[h] = "waiting" =>
             UnderWay(h)[1].kind \in {"User", "UserProxy", "BuildConnectionToPeer",
                                      "ProxyBuildConnectionToPeer"}
        /\ reader[h] = "building" =>
             UnderWay(h)[1].kind \in {"InternetAddressInformation", "ProxyConnection"}
  BY <1>1, FirstItem
<1>6. reader[h] \in {"passed", "delivered"} => AllData(UnderWay(h))
  BY <1>1, OnlyData
<1>7. reader[h] = "building" => request.kind = "BuildConnectionToPeer"
  BY <1>2, SMTT(20) DEF HopsInv, Message, Hops
<1> DEFINE s == UnderWay(h)
<1>8. DOMAIN s = 1..Len(s)
  BY <1>4, SMTT(20)
<1> HIDE DEF s
<1>9. \A i, j \in DOMAIN s : i < j /\ IsData(s[i]) => IsData(s[j])
  BY <1>4, <1>8 DEF DataLast, s
<1>10. reader[h] \in {"passed", "delivered"} => \A i \in DOMAIN s : IsData(s[i])
  BY <1>6, <1>8 DEF AllData, s
<1>11. reader[h] = "building" /\ s # <<>> => request.kind # s[1].kind /\ ~IsData(s[1])
  BY <1>5, <1>7 DEF IsData, s
<1> QED
  BY <1>5, <1>9, <1>10, <1>11 DEF s

\* The messages ahead of the rest are no data.
LEMMA AheadNoData ==
    ASSUME TypeOK, StageInv, NEW proto \in Seq(Items), Ahead(proto)
    PROVE  ~HasData(proto)
<1>1. /\ Hello \in Items /\ Direct \in Items /\ Build \in Items /\ Address \in Items /\ Proxy \in Items
      /\ One(Build) \in Seq(Items) /\ One(Address) \in Seq(Items) /\ Switch \in Seq(Items)
      /\ Cat(One(Build), One(Address)) \in Seq(Items)
  BY ProtoItems, CatLaws
<1>2. ~IsData(Hello) /\ ~IsData(Direct) /\ ~IsData(Build) /\ ~IsData(Address) /\ ~IsData(Proxy)
  BY DEF IsData, Hello, Direct, Build, Address, Proxy, Message
<1>3. /\ ~HasData(One(Hello)) /\ ~HasData(One(Direct)) /\ ~HasData(One(Build))
      /\ ~HasData(One(Address)) /\ ~HasData(One(Proxy)) /\ ~HasData(<<>>)
  BY <1>1, <1>2, DataOne
<1>4. ~HasData(Switch)
  BY <1>3 DEF Switch, Proxy
<1>5. ~HasData(Cat(One(Build), One(Address))) /\ ~HasData(Cat(One(Address), Switch))
  BY <1>1, <1>3, <1>4, DataCat
<1>6. ~HasData(Cat(Cat(One(Build), One(Address)), Switch))
  BY <1>1, <1>4, <1>5, DataCat
<1> QED
  BY <1>3, <1>4, <1>5, <1>6 DEF Ahead, Direct, Build

\* As long as nothing has cut the stream, all that is expected is under way.
LEMMA AllUnderWay ==
    ASSUME IInv, intact, reader[1] # "over", reader[LastHop] # "over",
           NEW e, Flow(e)
    PROVE  Piped = e
<1>1. HopsInv /\ LinkInv /\ proxied \in BOOLEAN
  BY SMTT(20) DEF IInv, StageInv, TypeOK
<1>2. reader[2] # "over"
  BY <1>1 DEF HopsInv, LastHop
<1>3. Link(1) \in up /\ (reader[1] = "relaying" => Link(2) \in up)
  BY <1>1 DEF HopsInv, LinkInv
<1> QED
  BY <1>2, <1>3 DEF Flow

\* Behind the messages on the two hops is what was not received yet.
LEMMA AllAccounted ==
    ASSUME IInv PROVE NothingLost
<1>1. SUFFICES ASSUME IInv, intact, reader[LastHop] # "over", reader[1] # "over"
               PROVE  LET items == UnderWay(2) \o UnderWay(1) IN
                      \E n \in 0..Len(items) :
                          /\ \A i \in 1..n : ~IsData(items[i])
                          /\ received \o SubSeq(items, n + 1, Len(items)) = sent
  BY DEF NothingLost
<1>2. TypeOK /\ StageInv /\ FlowInv
  BY <1>1 DEF IInv
<1>3. PICK proto \in Seq(Items), rest \in Seq(Data) :
         /\ rest \in Seq(Items) /\ Cat(received, rest) = sent
         /\ Ahead(proto) /\ Flow(Cat(proto, rest))
  BY <1>2, FlowPick
<1>4. Piped = Cat(proto, rest)
  BY <1>1, <1>3, AllUnderWay
<1>5. ~HasData(proto)
  BY <1>2, <1>3, AheadNoData
<1>6. Drop(Piped, Len(proto)) = rest /\ Len(proto) \in 0..Len(Piped)
  BY <1>3, <1>4, Front
<1>7. \A i \in 1..Len(proto) : Piped[i] = proto[i]
  BY <1>3, <1>4, CatItems
<1>8. \A i \in 1..Len(proto) : ~IsData(Piped[i])
  BY <1>5, <1>7 DEF HasData
<1>9. Cat(received, Drop(Piped, Len(proto))) = sent
  BY <1>3, <1>6
<1>10. \E n \in 0..Len(Piped) : /\ \A i \in 1..n : ~IsData(Piped[i])
                                /\ Cat(received, Drop(Piped, n)) = sent
  BY <1>6, <1>8, <1>9
<1> QED
  BY <1>10 DEF Piped, Cat, Drop

\* At the end of a stream that nothing has cut, all that was written was read.
LEMMA EofComplete ==
    ASSUME FlattenLaws, IInv, NEW h \in Hops, UserEof(h), intact
    PROVE  received = sent
<1>1. TypeOK /\ StageInv /\ HopsInv /\ LinkInv /\ FlowInv
  BY DEF IInv, StageInv
<1>2. reader[h] = "delivered" /\ Exhausted(h)
  BY DEF UserEof
<1>3. PICK proto \in Seq(Items), rest \in Seq(Data) :
         /\ rest \in Seq(Items) /\ Cat(received, rest) = sent
         /\ Ahead(proto) /\ Flow(Cat(proto, rest))
  BY <1>1, FlowPick
<1>4. reader[1] # "waiting" /\ reader[2] \notin {"waiting", "building"}
  BY <1>1, <1>2 DEF HopsInv, Hops
<1>5. proto = <<>>
  BY <1>3, <1>4 DEF Ahead
<1>6. Cat(<<>>, rest) = rest
  BY <1>3, CatLaws
<1>7. Flow(rest)
  BY <1>3, <1>5, <1>6
<1>8. UnderWay(h) = <<>>
  BY <1>2, ExhaustedEmpty
<1>9. UnderWay(h) = rest
  <2>1. CASE h = 1
    <3>1. reader[2] = "none" /\ Link(1) \in up
      BY <1>1, <1>2, <2>1 DEF HopsInv, LinkInv
    <3>2. Piped = rest
      BY <1>2, <1>7, <2>1, <3>1 DEF Flow
    <3> QED
      BY <1>1, <2>1, <3>1, <3>2, HopTwoEmpty
  <2>2. CASE h = 2
    <3>1. Link(2) \in up
      BY <1>1, <1>2, <2>2 DEF LinkInv
    <3>2. finished[2]
      BY <1>2, <2>2, <3>1 DEF Exhausted
    <3>3. reader[1] = "over"
      BY <1>1, <3>2 DEF HopsInv
    <3> QED
      BY <1>2, <1>7, <2>2, <3>3 DEF Flow
  <2> QED
    BY <2>1, <2>2 DEF Hops
<1>10. received \in Seq(Data)
  BY <1>1, SMTT(20) DEF TypeOK
<1> QED
  BY <1>3, <1>8, <1>9, <1>10, CatLaws

LEMMA ReadIsRead ==
    ASSUME FlattenLaws, IInv, NEW h \in Hops,
           UserPoll(h) \/ \E size \in 1..BufSize : UserRead(h, size)
    PROVE  Channel!Read
<1>1. TypeOK /\ StageInv /\ HopsInv /\ FlowInv
  BY DEF IInv, StageInv
<1>2. PICK c, r \in Seq(Data) : /\ c # <<>> /\ received' = Cat(received, c)
                                /\ Cat(received', r) = sent /\ received' \in Seq(Data)
  BY <1>1, FlowUser
<1>3. reader[h] = "delivered" /\ UNCHANGED <<sent, intact, eof>>
  BY DEF UserPoll, UserRead
<1>4. ~eof
  BY <1>1, <1>3 DEF HopsInv, LastHop, Hops
<1>5. received \in Seq(Data)
  BY <1>1, SMTT(20) DEF TypeOK
<1>6. Len(received') = Len(received) + Len(c) /\ Len(c) \in Nat /\ Len(received) \in Nat
  BY <1>2, <1>5, CatItems
<1>7. Len(c) # 0
  BY <1>2, SMTT(20)
<1>8. Take(sent, Len(received')) = received' /\ Len(received') \in 0..Len(sent)
  BY <1>2, Front
<1>9. Len(sent) \in Nat
  BY <1>1, SMTT(20) DEF TypeOK
<1>10. Len(received') \in (Len(received) + 1)..Len(sent)
  BY <1>6, <1>7, <1>8, <1>9, SMTT(20)
<1>11. \E n \in (Len(received) + 1)..Len(sent) : received' = SubSeq(sent, 1, n)
  BY <1>8, <1>10 DEF Take
<1> QED
  BY <1>3, <1>4, <1>11 DEF Channel!Read

\* Every step is one of the channel or leaves it alone.
LEMMA ChannelStep ==
    ASSUME FlattenLaws, IInv, [Next]_vars PROVE Channel!Next \/ UNCHANGED Channel!cvars
<1> USE DEF Channel!cvars, dataVars
<1>1. ASSUME NEW x, NEW hello, NEW stream, NEW usable, StartStream(x, hello, stream, usable)
      PROVE  Channel!Next
  BY <1>1 DEF StartStream, Channel!Open, Channel!Next
<1>2. ASSUME NEW x \in Ends, NewStream(x) PROVE Channel!Next
  BY <1>1, <1>2 DEF NewStream
<1>3. CASE NewProxyStream
  BY <1>1, <1>3 DEF NewProxyStream
<1>4. CASE Write
  <2>1. sent' = Append(sent, Datum(Len(sent) + 1)) /\ UNCHANGED <<received, intact, eof>>
        /\ Len(sent) < MaxData
    BY <1>4 DEF Write
  <2>2. Len(sent) + 1 \in 1..MaxData
    <3>1. Len(sent) \in Nat /\ MaxData \in Nat
      BY SizesAssumption, SMTT(20) DEF IInv, TypeOK
    <3> QED
      BY <2>1, <3>1, SMTT(20)
  <2>3. Datum(Len(sent) + 1) \in Data
    BY <2>2, ItemFacts
  <2> QED
    BY <2>1, <2>3 DEF Channel!Write, Channel!Next
<1>5. ASSUME NEW h \in Hops, HopStep(h) PROVE Channel!Next \/ UNCHANGED Channel!cvars
  <2>1. CASE UserPoll(h) \/ \E size \in 1..BufSize : UserRead(h, size)
    BY <2>1, ReadIsRead DEF Channel!Next
  <2>2. CASE UserEof(h)
    <3>1. eof' = TRUE /\ UNCHANGED <<sent, received, intact>>
      BY <2>2 DEF UserEof
    <3>2. intact => received = sent
      BY <2>2, EofComplete
    <3> QED
      BY <3>1, <3>2 DEF Channel!Eof, Channel!Next
  <2>3. CASE \/ Transport(h) \/ PollHello(h) \/ HelloTimeout(h) \/ PollBuild(h)
             \/ ContextPoll(h) \/ StreamDropped(h)
    BY <2>3 DEF Transport, PollHello, HelloTimeout, PollBuild, ContextPoll, StreamDropped
  <2> QED
    BY <1>5, <2>1, <2>2, <2>3 DEF HopStep
<1>6. CASE RelayEnds
  <2>1. UNCHANGED <<sent, received, eof>> /\ intact' = (intact /\ Exhausted(1))
    BY <1>6 DEF RelayEnds
  <2>2. CASE intact /\ ~Exhausted(1)
    BY <2>1, <2>2 DEF Channel!Break, Channel!Next
  <2>3. CASE ~(intact /\ ~Exhausted(1))
    <3>1. intact \in BOOLEAN
      BY SMTT(20) DEF IInv, TypeOK
    <3>2. intact' = intact
      BY <2>1, <2>3, <3>1
    <3> QED
      BY <2>1, <3>2
  <2> QED
    BY <2>2, <2>3
<1>7. ASSUME NEW c \in up, ConnectionLost(c) PROVE Channel!Next
  BY <1>7 DEF ConnectionLost, Channel!Break, Channel!Next
<1>8. CASE \/ OpenerDrops \/ SwitchToProxy \/ RelayOpens \/ RelayForward
           \/ \E p \in Ends : ContextEnds(p) \/ ContextDropped(p)
  BY <1>8 DEF OpenerDrops, SwitchToProxy, RelayOpens, RelayForward, ContextEnds, ContextDropped
<1>9. CASE UNCHANGED vars
  BY <1>9 DEF vars
<1> QED
  BY <1>2, <1>3, <1>4, <1>5, <1>6, <1>7, <1>8, <1>9 DEF Next

-----------------------------------------------------------------------------
(* Induction, by way of least elements *)

W == INSTANCE WellFoundedInduction

\* A set of naturals that is not empty has a least element.
LEMMA LeastNat ==
    ASSUME NEW T \in SUBSET Nat, T # {}
    PROVE  \E x \in T : \A y \in T : x <= y
<1> DEFINE R == W!OpToRel(<, Nat)
<1>1. W!IsWellFoundedOn(R, Nat)
  BY W!NatLessThanWellFounded
<1>2. \A i, j \in Nat : <<i, j>> \in R <=> i < j
  BY DEF W!OpToRel
<1> HIDE DEF R
<1>3. PICK x \in T : \A y \in T : ~(<<y, x>> \in R)
  BY <1>1, W!WFMin
<1>4. \A y \in T : y \in Nat /\ x \in Nat /\ ~(y < x)
  BY <1>2, <1>3
<1> QED
  BY <1>4, SMTT(20)

\* A set with 0 in it and with every successor has all naturals in it.
LEMMA Induction ==
    ASSUME NEW T, 0 \in T, \A i \in Nat : i \in T => i + 1 \in T
    PROVE  \A i \in Nat : i \in T
<1> DEFINE N == {i \in Nat : i \notin T}
<1> SUFFICES ASSUME N # {} PROVE FALSE
  OBVIOUS
<1>1. PICK m \in N : \A k \in N : m <= k
  BY LeastNat
<1>2. m # 0 /\ m - 1 \in Nat /\ ~(m <= m - 1) /\ (m - 1) + 1 = m
  BY <1>1, SMTT(20)
<1>3. m - 1 \in T
  BY <1>1, <1>2
<1> QED
  BY <1>1, <1>2, <1>3

-----------------------------------------------------------------------------
(* Flatten *)

\* g gives for every i up to n what the first i chunks hold.
IsFlat(g, chunks, n) ==
    g = [i \in 0..n |-> IF i = 0 THEN <<>> ELSE Cat(g[i - 1], chunks[i])]

\* There is such a function: a least n without one would be 0, or one more than
\* an n that has one.
LEMMA FlatExists ==
    ASSUME NEW chunks, NEW n \in Nat
    PROVE  \E g : IsFlat(g, chunks, n)
<1> DEFINE T == {m \in Nat : ~ \E g : IsFlat(g, chunks, m)}
<1> SUFFICES ASSUME T # {} PROVE FALSE
  OBVIOUS
<1>1. PICK m \in T : \A k \in T : m <= k
  BY LeastNat
<1>2. CASE m = 0
  <2> DEFINE g == [i \in 0..0 |-> <<>>]
  <2>1. IsFlat(g, chunks, 0)
    BY SMTT(20) DEF IsFlat
  <2> QED
    BY <1>1, <1>2, <2>1
<1>3. CASE m # 0
  <2>1. m - 1 \in Nat /\ m - 1 \notin T
    BY <1>1, <1>3, SMTT(20)
  <2>2. PICK f : IsFlat(f, chunks, m - 1)
    BY <2>1
  <2> DEFINE g == [i \in 0..m |-> IF i = m THEN Cat(f[m - 1], chunks[m]) ELSE f[i]]
  <2>3. \A i \in 0..(m - 1) : f[i] = IF i = 0 THEN <<>> ELSE Cat(f[i - 1], chunks[i])
    BY <2>2 DEF IsFlat
  <2>4. \A i \in 0..m : g[i] = IF i = 0 THEN <<>> ELSE Cat(g[i - 1], chunks[i])
    BY <1>3, <2>3, SMTT(20)
  <2>5. IsFlat(g, chunks, m)
    BY <2>4 DEF IsFlat
  <2> QED
    BY <1>1, <2>5
<1> QED
  BY <1>2, <1>3

\* Flatten is the last value of such a function.
LEMMA FlattenDef ==
    ASSUME NEW chunks, Len(chunks) \in Nat
    PROVE  \E g : IsFlat(g, chunks, Len(chunks)) /\ Flatten(chunks) = g[Len(chunks)]
<1> DEFINE g == CHOOSE g : IsFlat(g, chunks, Len(chunks))
<1>1. IsFlat(g, chunks, Len(chunks))
  BY FlatExists
<1>2. Flatten(chunks) = g[Len(chunks)]
  BY DEF Flatten, IsFlat, Cat
<1> QED
  BY <1>1, <1>2

\* The values of such a function, the first one and the next one.
LEMMA FlatFirst ==
    ASSUME NEW g, NEW chunks, NEW n \in Nat, IsFlat(g, chunks, n)
    PROVE  g[0] = <<>>
<1>1. \A i \in 0..n : g[i] = IF i = 0 THEN <<>> ELSE Cat(g[i - 1], chunks[i])
  BY DEF IsFlat
<1>2. 0 \in 0..n
  BY SMTT(20)
<1> QED
  BY <1>1, <1>2

LEMMA FlatNext ==
    ASSUME NEW g, NEW chunks, NEW n \in Nat, IsFlat(g, chunks, n), NEW i \in Nat, i < n
    PROVE  g[i + 1] = Cat(g[i], chunks[i + 1])
<1>1. \A j \in 0..n : g[j] = IF j = 0 THEN <<>> ELSE Cat(g[j - 1], chunks[j])
  BY DEF IsFlat
<1>2. i + 1 \in 0..n /\ i + 1 # 0 /\ (i + 1) - 1 = i
  BY SMTT(20)
<1>3. g[i + 1] = IF i + 1 = 0 THEN <<>> ELSE Cat(g[(i + 1) - 1], chunks[i + 1])
  BY <1>1, <1>2
<1> HIDE <1>1
<1> QED
  BY <1>2, <1>3

\* Chunks of items, by their positions.
AreChunks(chunks, n, S) == \A i \in Nat : i < n => chunks[i + 1] \in Seq(S)

\* What the first chunks hold is a sequence of items.
LEMMA FlatType ==
    ASSUME NEW S, NEW g, NEW chunks, NEW n \in Nat, IsFlat(g, chunks, n), AreChunks(chunks, n, S)
    PROVE  g[n] \in Seq(S)
<1> DEFINE T == {i \in Nat : i <= n => g[i] \in Seq(S)}
<1>1. 0 \in T
  <2>1. g[0] = <<>>
    BY FlatFirst
  <2> QED
    BY <2>1, EmptySeq
<1>2. ASSUME NEW i \in Nat, i \in T PROVE i + 1 \in T
  <2> SUFFICES ASSUME i + 1 <= n PROVE g[i + 1] \in Seq(S)
    BY SMTT(20)
  <2>1. i < n
    BY SMTT(20)
  <2>2. g[i + 1] = Cat(g[i], chunks[i + 1])
    BY <2>1, FlatNext, SMTT(20)
  <2>3. chunks[i + 1] \in Seq(S)
    BY <2>1 DEF AreChunks
  <2>4. g[i] \in Seq(S)
    BY <1>2, <2>1, SMTT(20)
  <2> QED
    BY <2>2, <2>3, <2>4, CatLaws, SMTT(20)
<1> HIDE DEF T
<1>3. n \in T
  BY <1>1, <1>2, Induction
<1> QED
  BY <1>3, SMTT(20) DEF T

\* Chunks that agree hold the same items.
SameChunks(a, b, n) == \A i \in Nat : i < n => a[i + 1] = b[i + 1]

LEMMA FlatSame ==
    ASSUME NEW f, NEW g, NEW a, NEW b, NEW n \in Nat, NEW m \in Nat, n <= m,
           IsFlat(f, a, m), IsFlat(g, b, n), SameChunks(a, b, n)
    PROVE  f[n] = g[n]
<1> DEFINE T == {i \in Nat : i <= n => f[i] = g[i]}
<1>1. 0 \in T
  <2>1. f[0] = <<>>
    BY FlatFirst
  <2>2. g[0] = <<>>
    BY FlatFirst
  <2> QED
    BY <2>1, <2>2
<1>2. ASSUME NEW i \in Nat, i \in T PROVE i + 1 \in T
  <2> SUFFICES ASSUME i + 1 <= n PROVE f[i + 1] = g[i + 1]
    BY SMTT(20)
  <2>1. i < n /\ i < m /\ f[i] = g[i]
    BY <1>2, SMTT(20)
  <2>2. f[i + 1] = Cat(f[i], a[i + 1])
    BY <2>1, FlatNext, SMTT(20)
  <2>3. g[i + 1] = Cat(g[i], b[i + 1])
    BY <2>1, FlatNext, SMTT(20)
  <2>4. a[i + 1] = b[i + 1]
    BY <2>1 DEF SameChunks
  <2> QED
    BY <2>1, <2>2, <2>3, <2>4
<1> HIDE DEF T
<1>3. n \in T
  BY <1>1, <1>2, Induction
<1> QED
  BY <1>3, SMTT(20) DEF T

\* Chunks with another one in front of them hold its items first.
OneMore(a, b, n) == \A i \in Nat : i < n => a[i + 2] = b[i + 1]

LEMMA FlatBehind ==
    ASSUME NEW S, NEW f, NEW g, NEW a, NEW b, NEW n \in Nat,
           IsFlat(f, a, n + 1), IsFlat(g, b, n), AreChunks(a, n + 1, S), OneMore(a, b, n)
    PROVE  f[n + 1] = Cat(a[1], g[n])
<1> DEFINE T == {i \in Nat : i <= n => g[i] \in Seq(S) /\ f[i + 1] = Cat(a[1], g[i])}
<1>0. n + 1 \in Nat /\ 0 < n + 1 /\ 0 + 1 = 1
  BY SMTT(20)
<1>1. 0 \in T
  <2>1. g[0] = <<>>
    BY FlatFirst
  <2>2. f[0] = <<>>
    BY <1>0, FlatFirst
  <2>3. f[0 + 1] = Cat(f[0], a[0 + 1])
    BY <1>0, FlatNext, SMTT(20)
  <2>4. a[1] \in Seq(S)
    BY <1>0 DEF AreChunks
  <2>5. Cat(<<>>, a[1]) = a[1] /\ Cat(a[1], <<>>) = a[1] /\ <<>> \in Seq(S)
    BY <2>4, CatUnit
  <2>6. g[0] \in Seq(S) /\ f[0 + 1] = Cat(a[1], g[0])
    BY <2>1, <2>2, <2>3, <2>5, SMTT(20)
  <2> QED
    BY <2>6
<1>2. ASSUME NEW i \in Nat, i \in T PROVE i + 1 \in T
  <2> SUFFICES ASSUME i + 1 <= n
               PROVE  g[i + 1] \in Seq(S) /\ f[(i + 1) + 1] = Cat(a[1], g[i + 1])
    BY SMTT(20)
  <2>1. i < n /\ i <= n /\ i + 1 \in Nat /\ i + 1 < n + 1 /\ n + 1 \in Nat /\ (i + 1) + 1 = i + 2
    BY SMTT(20)
  <2>2. g[i + 1] = Cat(g[i], b[i + 1])
    BY <2>1, FlatNext, SMTT(20)
  <2>3. f[(i + 1) + 1] = Cat(f[i + 1], a[(i + 1) + 1])
    BY <2>1, FlatNext, SMTT(20)
  <2>4. a[(i + 1) + 1] = b[i + 1]
    BY <2>1, SMTT(20) DEF OneMore
  <2>5. g[i] \in Seq(S) /\ f[i + 1] = Cat(a[1], g[i])
    BY <1>2, <2>1
  <2>6. a[1] \in Seq(S) /\ b[i + 1] \in Seq(S)
    BY <1>0, <2>1, <2>4 DEF AreChunks
  <2>7. /\ Cat(Cat(a[1], g[i]), b[i + 1]) = Cat(a[1], Cat(g[i], b[i + 1]))
        /\ Cat(g[i], b[i + 1]) \in Seq(S)
    <3> DEFINE t == a[1]
               u == g[i]
               v == b[i + 1]
    <3>1. t \in Seq(S) /\ u \in Seq(S) /\ v \in Seq(S)
      BY <2>5, <2>6
    <3> HIDE DEF t, u, v, T
    <3>2. Cat(Cat(t, u), v) = Cat(t, Cat(u, v))
      BY <3>1, CatLaws, SMTT(20)
    <3>3. Cat(u, v) \in Seq(S)
      BY <3>1, CatLaws
    <3> QED
      BY <3>2, <3>3 DEF t, u, v
  <2> QED
    BY <2>2, <2>3, <2>4, <2>5, <2>7
<1> HIDE DEF T
<1>3. n \in T
  BY <1>1, <1>2, Induction
<1> QED
  BY <1>3, SMTT(20) DEF T

\* Chunks of items make a sequence of items.
LEMMA FlattenType ==
    ASSUME NEW S, NEW chunks \in Seq(Seq(S)) PROVE Flatten(chunks) \in Seq(S)
<1> DEFINE n == Len(chunks)
<1>1. n \in Nat /\ \A i \in 1..n : chunks[i] \in Seq(S)
  BY SMTT(20)
<1>2. PICK g : IsFlat(g, chunks, n) /\ Flatten(chunks) = g[n]
  BY <1>1, FlattenDef
<1> HIDE DEF n
<1>3. AreChunks(chunks, n, S)
  BY <1>1, SMTT(20) DEF AreChunks
<1> QED
  BY <1>1, <1>2, <1>3, FlatType

\* Nothing is in no chunks.
LEMMA FlattenEmpty == Flatten(<<>>) = <<>>
<1>1. Len(<<>>) = 0
  OBVIOUS
<1>2. PICK g : IsFlat(g, <<>>, 0) /\ Flatten(<<>>) = g[0]
  BY <1>1, FlattenDef
<1> QED
  BY <1>2, FlatFirst

\* A chunk that is added comes last.
LEMMA FlattenAppend ==
    ASSUME NEW S, NEW chunks \in Seq(Seq(S)), NEW c \in Seq(S)
    PROVE  Flatten(Append(chunks, c)) = Cat(Flatten(chunks), c)
<1> DEFINE n == Len(chunks)
           more == Append(chunks, c)
<1>1. n \in Nat /\ Len(more) = n + 1 /\ more[n + 1] = c /\ \A i \in 1..n : more[i] = chunks[i]
  BY SMTT(20)
<1>2. PICK g : IsFlat(g, chunks, n) /\ Flatten(chunks) = g[n]
  BY <1>1, FlattenDef
<1> HIDE DEF n, more
<1>3. n + 1 \in Nat /\ n <= n + 1 /\ n < n + 1
  BY <1>1, SMTT(20)
<1>4. PICK f : IsFlat(f, more, n + 1) /\ Flatten(more) = f[n + 1]
  <2>1. \E f : IsFlat(f, more, Len(more)) /\ Flatten(more) = f[Len(more)]
    BY <1>1, <1>3, FlattenDef
  <2> QED
    BY <1>1, <2>1
<1>5. SameChunks(more, chunks, n)
  BY <1>1, SMTT(20) DEF SameChunks
<1>6. f[n] = g[n]
  BY <1>1, <1>2, <1>3, <1>4, <1>5, FlatSame, SMTT(20)
<1>7. f[n + 1] = Cat(f[n], more[n + 1])
  BY <1>1, <1>3, <1>4, FlatNext, SMTT(20)
<1> QED
  BY <1>1, <1>2, <1>4, <1>6, <1>7 DEF more

\* The first chunk comes first.
LEMMA FlattenFirst ==
    ASSUME NEW S, NEW chunks \in Seq(Seq(S)), chunks # <<>>
    PROVE  Flatten(chunks) = Cat(Head(chunks), Flatten(Tail(chunks)))
<1> DEFINE n == Len(chunks) - 1
           rest == Tail(chunks)
<1>1. Len(chunks) \in Nat /\ Len(chunks) # 0
  BY SMTT(20)
<1>2. Head(chunks) = chunks[1] /\ Len(rest) = n /\ \A i \in 1..n : rest[i] = chunks[i + 1]
  BY SMTT(20)
<1>3. \A i \in 1..Len(chunks) : chunks[i] \in Seq(S)
  BY SMTT(20)
<1>4. n \in Nat /\ Len(chunks) = n + 1 /\ \A i \in Nat : i < n => i + 1 \in 1..n /\ (i + 1) + 1 = i + 2
  BY <1>1, SMTT(20)
<1> HIDE DEF n, rest
<1>5. AreChunks(chunks, n + 1, S)
  <2>1. \A i \in Nat : i < n + 1 => i + 1 \in 1..Len(chunks)
    BY <1>1, <1>4, SMTT(20)
  <2> QED
    BY <1>3, <2>1 DEF AreChunks
<1>6. OneMore(chunks, rest, n)
  BY <1>2, <1>4 DEF OneMore
<1>7. n \in Nat /\ n + 1 \in Nat
  BY <1>4, SMTT(20)
<1>8. PICK g : IsFlat(g, rest, n) /\ Flatten(rest) = g[n]
  <2>1. Len(rest) \in Nat
    BY <1>2, <1>7
  <2>2. \E g : IsFlat(g, rest, Len(rest)) /\ Flatten(rest) = g[Len(rest)]
    BY <2>1, FlattenDef
  <2> QED
    BY <1>2, <2>2
<1>9. PICK f : IsFlat(f, chunks, n + 1) /\ Flatten(chunks) = f[n + 1]
  <2>1. \E f : IsFlat(f, chunks, Len(chunks)) /\ Flatten(chunks) = f[Len(chunks)]
    BY <1>1, FlattenDef
  <2> QED
    BY <1>4, <2>1
<1>10. f[n + 1] = Cat(chunks[1], g[n])
  BY <1>5, <1>6, <1>7, <1>8, <1>9, FlatBehind, SMTT(20)
<1> QED
  BY <1>2, <1>8, <1>9, <1>10 DEF rest

\* So what the lemmas take for granted of Flatten holds.
LEMMA FlattenIsLawful == FlattenLaws
<1>1. Flatten(<<>>) = <<>>
  BY FlattenEmpty
<1>2. ASSUME NEW f \in Seq(Seq(Items)) PROVE Flatten(f) \in Seq(Items)
  BY FlattenType
<1>3. ASSUME NEW f \in Seq(Seq(Items)), NEW c \in Seq(Items)
      PROVE  Flatten(Append(f, c)) = Cat(Flatten(f), c)
  BY FlattenAppend
<1>4. ASSUME NEW f \in Seq(Seq(Items)), f # <<>>
      PROVE  Flatten(f) = Cat(Head(f), Flatten(Tail(f)))
  BY <1>4, FlattenFirst
<1> QED
  BY <1>1, <1>2, <1>3, <1>4 DEF FlattenLaws

-----------------------------------------------------------------------------
(* The theorems *)

LEMMA InvariantHolds == Spec => []IInv
<1>1. Init => IInv
  BY FlattenIsLawful, InitHolds
<1>2. IInv /\ [Next]_vars => IInv'
  BY FlattenIsLawful, NextHolds, StutterHolds
<1> QED
  BY <1>1, <1>2, PTL DEF Spec

\* Every variable has its type in every reachable state, and no send channel
\* ever holds more than Capacity chunks: relays and writers wait for room
\* (Stream::start_send), however the hops are scheduled.
THEOREM StreamsTypeCorrect == Spec => []TypeOK
  BY InvariantHolds, PTL DEF IInv

\* A stream reaches only the user it was opened for, and both ends agree on who
\* the other one is and on whether the stream is relayed (NewStreamHandle,
\* pass_stream), over any number of streams opened in either direction.
THEOREM StreamsEndsAgree == Spec => []EndsAgree
<1>1. IInv => EndsAgree
  BY FlattenIsLawful, EndsMatch
<1> QED
  BY <1>1, InvariantHolds, PTL

\* The first message of a stream is its hello, no message comes behind data and
\* the user never reads a message (IncomingStream::poll, BuildConnectionToPeer-
\* Remote::poll), whatever Framed has read ahead and reinserted on the way.
THEOREM StreamsProtocolComesFirst == Spec => []ProtocolComesFirst
<1>1. IInv => ProtocolComesFirst
  BY FlattenIsLawful, MessagesFirst
<1> QED
  BY <1>1, InvariantHolds, PTL

\* Reading ahead, reinserting, small buffers and relaying lose nothing of what
\* was written and change nothing of its order (strategies::Stream, copy_data,
\* reinsert_data), for buffers and channels of any size.
THEOREM StreamsNothingLost == Spec => []NothingLost
<1>1. IInv => NothingLost
  BY FlattenIsLawful, AllAccounted
<1> QED
  BY <1>1, InvariantHolds, PTL

\* The stream is a ByteChannel to its users, direct or relayed, for channels and
\* buffers of any size: every step of it is one of the channel or none.
THEOREM StreamsImplementByteChannel == Spec => ImplementsByteChannel
<1>1. Init => Channel!Init
  BY DEF Init, Channel!Init
<1>2. IInv /\ [Next]_vars => [Channel!Next]_(Channel!cvars)
  BY FlattenIsLawful, ChannelStep
<1> QED
  BY <1>1, <1>2, InvariantHolds, PTL DEF Spec, ImplementsByteChannel, Channel!Spec
=============================================================================
