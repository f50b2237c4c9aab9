----------------------- MODULE UserStreamsStageProofs -----------------------
(***************************************************************************)
(* The first half of the proofs about UserStreams: sequences, what the     *)
(* operations do to what is under way on a hop, the inductive invariant,   *)
(* and that every step keeps the types, the stages of the two hops and the *)
(* order of messages and data. UserStreamsProofs shows that every step     *)
(* keeps what the far end expects, and has the theorems. FlattenLaws, what *)
(* the lemmas need to know of Flatten, is their hypothesis;                *)
(* UserStreamsProofs proves it.                                            *)
(***************************************************************************)
EXTENDS UserStreams, Integers, TLAPS

\* Zenon proves most of the steps; the others say which prover does.
USE Zenon

-----------------------------------------------------------------------------
(* Operators on sequences *)

\* Operators on sequences under names of their own, for the steps that need no
\* more than the laws below.
Cat(s, t) == s \o t
One(x) == <<x>>
Take(s, n) == SubSeq(s, 1, n)
Drop(s, n) == SubSeq(s, n + 1, Len(s))
Prefix(s, t) == Len(s) <= Len(t) /\ Take(t, Len(s)) = s

-----------------------------------------------------------------------------
(* The inductive invariant *)

\* The handle that an end has for the other one.
PeerHandle(x) == [peer |-> OtherEnd(x), proxy |-> proxied]

\* A handle is for the other end, and both ends of a stream have theirs.
HandleInv ==
    /\ \A x \in Ends : handle[x].peer \in Ends => handle[x] = PeerHandle(x)
    /\ ready => handle[opener] = PeerHandle(opener)
    /\ \A h \in Hops :
         /\ reader[h] = "passed" => incoming = PeerHandle(OtherEnd(opener))
         /\ reader[h] = "delivered" => handle[OtherEnd(opener)] = PeerHandle(OtherEnd(opener))

\* How the stages of the two hops go together.
HopsInv ==
    /\ ~ready => opener = "peer0"
    /\ ~ready /\ reader[1] # "none" => proxied
    /\ reader[1] \in {"none", "waiting", "over"} \cup
                     IF proxied THEN {"opening", "relaying"} ELSE {"passed", "delivered"}
    /\ ~proxied => reader[2] = "none"
    /\ reader[2] \notin {"opening", "relaying"}
    /\ reader[2] # "none" => reader[1] \in {"relaying", "over"}
    /\ reader[1] = "relaying" => reader[2] # "none"
    /\ reader[1] = "opening" \/ reader[2] = "waiting" =>
          request.kind \in {"UserProxy", "ProxyBuildConnectionToPeer"}
    /\ reader[1] = "opening" => (request.kind = "UserProxy" <=> ready)
    /\ reader[2] = "waiting" => (request.kind = "UserProxy" => ready)
    /\ reader[2] = "building" => request = Message("BuildConnectionToPeer", opener)
    /\ \A h \in Hops : reader[h] \in {"passed", "delivered"} => ready
    /\ finished[2] => reader[1] = "over"
    /\ eof => reader[LastHop] = "over"

\* Nothing is written before the stream is ready, and nothing to a hop that is
\* not there.
PipeInv ==
    /\ ~ready => sent = <<>> /\ Len(out[1]) <= 1
    /\ reader[2] = "none" => out[2] = <<>> /\ net[2] = <<>> /\ overflow[2] = <<>>

LinkInv ==
    /\ intact => Link(1) \in up
    /\ intact /\ reader[2] # "none" => Link(2) \in up

StageInv == HandleInv /\ HopsInv /\ PipeInv /\ LinkInv

\* The messages that a stream carries before its data.
Hello ==
    IF ~proxied THEN Message("User", opener)
    ELSE IF ready THEN Message("UserProxy", OtherEnd(opener))
    ELSE Message("ProxyBuildConnectionToPeer", "peer2")

Address == Message("InternetAddressInformation", Relay)
Switch == IF ready THEN One(Message("ProxyConnection", "nobody")) ELSE <<>>

\* Those of them that the far end has still to read, by the stage of the stream.
Ahead(proto) ==
    /\ reader[1] = "waiting" => proto = One(Hello)
    /\ reader[2] = "waiting" =>
          proto = IF request.kind = "UserProxy" THEN One(Message("User", opener))
                  ELSE Cat(Cat(One(Message("BuildConnectionToPeer", opener)), One(Address)), Switch)
    /\ reader[2] = "building" => proto = Cat(One(Address), Switch) \/ proto = Switch
    /\ reader[1] # "waiting" /\ reader[2] \notin {"waiting", "building"} => proto = <<>>

\* All that is under way, in the order in which the far end reads it.
Piped == Cat(UnderWay(2), UnderWay(1))

\* While the hops are joined, what is under way is what the far end expects, or
\* the front of it if a connection was lost. When the relay has gone, hop 2 has
\* all of it, unless the relay was cut off.
Flow(expected) ==
    /\ reader[1] # "over" /\ reader[2] # "over" /\ (reader[1] = "relaying" => Link(2) \in up)
         => Prefix(Piped, expected) /\ (Link(1) \in up => Piped = expected)
    /\ reader[2] \notin {"none", "over"} => Prefix(UnderWay(2), expected)
    /\ intact /\ reader[1] = "over" /\ reader[2] \notin {"none", "over"} =>
         finished[1] /\ UnderWay(2) = expected

\* What was sent is what was received and a rest, and the far end expects its
\* messages and that rest.
FlowInv ==
    \E proto \in Seq(Items), rest \in Seq(Data) :
        Cat(received, rest) = sent /\ Ahead(proto) /\ Flow(Cat(proto, rest))

\* Data comes last, and not before the stream is ready.
HasData(s) == \E i \in 1..Len(s) : IsData(s[i])
AllData(s) == \A i \in 1..Len(s) : IsData(s[i])
DataLast(s) == \A i, j \in 1..Len(s) : i < j /\ IsData(s[i]) => IsData(s[j])

DataInv == DataLast(Piped) /\ (~ready => ~HasData(Piped))

\* The inductive invariant.
IInv == TypeOK /\ StageInv /\ FlowInv /\ DataInv

\* The types of what is under way, and of the other variables.
PipesOK ==
    /\ out \in [Hops -> Seq(Seq(Items))]
    /\ \A h \in Hops : Len(out[h]) <= Capacity
    /\ net \in [Hops -> Seq(Items)]
    /\ overflow \in [Hops -> Seq(Items)]

Connections == {{p, q} : p, q \in Peers}

ControlOK ==
    /\ proxied \in BOOLEAN
    /\ up \subseteq Connections
    /\ opened \in 0..MaxStreams
    /\ opener \in Ends
    /\ handle \in [Ends -> Handles]
    /\ finished \in [Hops -> BOOLEAN]
    /\ reader \in [Hops -> Stages]
    /\ request \in Items
    /\ incoming \in Handles
    /\ context \in [Peers -> {"running", "ended", "dropped"}]
    /\ ready \in BOOLEAN
    /\ sent \in Seq(Data)
    /\ intact \in BOOLEAN
    /\ eof \in BOOLEAN

-----------------------------------------------------------------------------
(* Sequences *)

LEMMA EmptySeq == ASSUME NEW S PROVE <<>> \in Seq(S)
  BY SMT

\* Sequences with the same items are equal.
LEMMA SeqEqual ==
    ASSUME NEW S, NEW a \in Seq(S), NEW b \in Seq(S), Len(a) = Len(b), \A i \in 1..Len(a) : a[i] = b[i]
    PROVE  a = b
  BY SMT

LEMMA ConcatItems ==
    ASSUME NEW S, NEW a \in Seq(S), NEW b \in Seq(S)
    PROVE  /\ a \o b \in Seq(S) /\ Len(a \o b) = Len(a) + Len(b)
           /\ \A i \in 1..(Len(a) + Len(b)) : (a \o b)[i] = IF i <= Len(a) THEN a[i] ELSE b[i - Len(a)]
  BY SMT

\* Concatenation is associative, has a unit and can be cancelled.
LEMMA CatLaws ==
    ASSUME NEW S, NEW a \in Seq(S), NEW b \in Seq(S), NEW c \in Seq(S)
    PROVE  /\ Cat(a, b) \in Seq(S)
           /\ Cat(Cat(a, b), c) = Cat(a, Cat(b, c))
           /\ Cat(a, <<>>) = a /\ Cat(<<>>, a) = a
           /\ Cat(a, b) = Cat(a, c) => b = c
           /\ Cat(a, b) = <<>> => a = <<>> /\ b = <<>>
<1>1. a \o b \in Seq(S)
  BY SMT
<1>2. (a \o b) \o c = a \o (b \o c)
  BY SMT
<1>3. a \o <<>> = a /\ <<>> \o a = a
  BY SMT
<1>4. a \o b = a \o c => b = c
  <2> SUFFICES ASSUME a \o b = a \o c PROVE b = c
    OBVIOUS
  <2>1. Len(a \o b) = Len(a) + Len(b) /\ Len(a \o c) = Len(a) + Len(c)
    BY SMT
  <2>2. \A i \in 1..Len(b) : (a \o b)[Len(a) + i] = b[i]
    BY SMT
  <2>3. \A i \in 1..Len(c) : (a \o c)[Len(a) + i] = c[i]
    BY SMT
  <2>4. Len(b) = Len(c)
    BY <2>1, SMT
  <2>5. \A i \in 1..Len(b) : b[i] = c[i]
    BY <2>2, <2>3, <2>4
  <2> QED
    BY <2>4, <2>5, SeqEqual
<1>5. a \o b = <<>> => a = <<>> /\ b = <<>>
  BY SMT
<1>6. Cat(a, b) \in Seq(S) /\ (Cat(a, b) = <<>> => a = <<>> /\ b = <<>>)
  BY <1>1, <1>5 DEF Cat
<1>7. Cat(Cat(a, b), c) = Cat(a, Cat(b, c))
  BY <1>2 DEF Cat
<1>8. Cat(a, <<>>) = a /\ Cat(<<>>, a) = a
  BY <1>3 DEF Cat
<1>9. Cat(a, b) = Cat(a, c) => b = c
  BY <1>4 DEF Cat
<1> QED
  BY <1>6, <1>7, <1>8, <1>9

\* The empty sequence is the unit of concatenation.
LEMMA CatUnit ==
    ASSUME NEW S, NEW a \in Seq(S)
    PROVE  <<>> \in Seq(S) /\ Cat(a, <<>>) = a /\ Cat(<<>>, a) = a
<1>1. <<>> \in Seq(S)
  BY EmptySeq
<1> QED
  BY <1>1, CatLaws

\* One item makes a sequence.
LEMMA OneItem ==
    ASSUME NEW S, NEW x \in S
    PROVE  One(x) \in Seq(S) /\ One(x) # <<>> /\ Len(One(x)) = 1 /\ One(x)[1] = x
  BY SMT DEF One

\* A sequence is what comes before a position and what comes after it.
LEMMA SplitAt ==
    ASSUME NEW S, NEW s \in Seq(S), NEW n \in 0..Len(s)
    PROVE  /\ Take(s, n) \in Seq(S) /\ Len(Take(s, n)) = n /\ \A i \in 1..n : Take(s, n)[i] = s[i]
           /\ Drop(s, n) \in Seq(S) /\ Cat(Take(s, n), Drop(s, n)) = s
<1>1. Len(s) \in Nat /\ \A i \in 1..Len(s) : s[i] \in S
  BY SMT
<1>2. Take(s, n) \in Seq(S) /\ Len(Take(s, n)) = n /\ \A i \in 1..n : Take(s, n)[i] = s[i]
  <2>1. n \in Int /\ (1 <= n => n - 1 + 1 = n) /\ 1..(n - 1 + 1) = 1..n /\ \A i \in 1..n : s[i] \in S
    BY <1>1, SMT
  <2>2. /\ SubSeq(s, 1, n) \in Seq(S)
        /\ Len(SubSeq(s, 1, n)) = IF 1 <= n THEN n - 1 + 1 ELSE 0
        /\ \A i \in 1..(n - 1 + 1) : SubSeq(s, 1, n)[i] = s[1 + i - 1]
    BY <2>1, SMT
  <2> QED
    BY <2>1, <2>2, SMT DEF Take
<1>3. Drop(s, n) \in Seq(S)
  BY <1>1, SMT DEF Drop
<1>4. SubSeq(s, 1, n) \o SubSeq(s, n + 1, Len(s)) = s
  <2> DEFINE a == SubSeq(s, 1, n)
             b == SubSeq(s, n + 1, Len(s))
  <2>1. a \in Seq(S) /\ Len(a) = n /\ \A i \in 1..n : a[i] = s[i]
    BY SMT
  <2>2. b \in Seq(S) /\ Len(b) = Len(s) - n /\ \A i \in 1..(Len(s) - n) : b[i] = s[n + i]
    <3>1. Len(b) = Len(s) - n
      BY <1>1, SMTT(20)
    <3>2. \A i \in 1..(Len(s) - n) : b[i] = s[n + i]
      BY <1>1, SMTT(20)
    <3> QED
      BY <1>3, <3>1, <3>2 DEF Drop
  <2> HIDE DEF a, b
  <2>3. /\ a \o b \in Seq(S) /\ Len(a \o b) = Len(a) + Len(b)
        /\ \A i \in 1..(Len(a) + Len(b)) : (a \o b)[i] = IF i <= Len(a) THEN a[i] ELSE b[i - Len(a)]
    BY <2>1, <2>2, ConcatItems, SMT
  <2>4. Len(a \o b) = Len(s)
    BY <1>1, <2>1, <2>2, <2>3, SMT
  <2>5. ASSUME NEW i \in 1..Len(s) PROVE (a \o b)[i] = s[i]
    <3>1. CASE i <= n
      BY <1>1, <2>1, <2>2, <2>3, <3>1, SMT
    <3>2. CASE ~(i <= n)
      <4>1. i - n \in 1..(Len(s) - n) /\ n + (i - n) = i
        BY <1>1, <3>2, SMT
      <4> QED
        BY <1>1, <2>1, <2>2, <2>3, <3>2, <4>1, SMT
    <3> QED
      BY <3>1, <3>2
  <2> QED
    BY <2>3, <2>4, <2>5, SeqEqual DEF a, b
<1>5. Cat(Take(s, n), Drop(s, n)) = s
  BY <1>4 DEF Cat, Take, Drop
<1> QED
  BY <1>2, <1>3, <1>5

\* The items of a concatenation.
LEMMA CatItems ==
    ASSUME NEW S, NEW a \in Seq(S), NEW b \in Seq(S)
    PROVE  /\ Len(a) \in Nat /\ Len(b) \in Nat /\ Len(Cat(a, b)) = Len(a) + Len(b)
           /\ \A i \in 1..Len(a) : Cat(a, b)[i] = a[i]
           /\ \A i \in 1..Len(b) : Cat(a, b)[Len(a) + i] = b[i]
<1>1. Len(a) \in Nat /\ Len(b) \in Nat
  BY SMT
<1>2. /\ Len(Cat(a, b)) = Len(a) + Len(b)
      /\ \A i \in 1..(Len(a) + Len(b)) : Cat(a, b)[i] = IF i <= Len(a) THEN a[i] ELSE b[i - Len(a)]
  BY SMT DEF Cat
<1>3. \A i \in 1..Len(a) : Cat(a, b)[i] = a[i]
  BY <1>1, <1>2, SMT
<1>4. ASSUME NEW i \in 1..Len(b) PROVE Cat(a, b)[Len(a) + i] = b[i]
  <2>1. Len(a) + i \in 1..(Len(a) + Len(b)) /\ ~(Len(a) + i <= Len(a)) /\ (Len(a) + i) - Len(a) = i
    BY <1>1, SMT
  <2> QED
    BY <1>2, <2>1
<1> QED
  BY <1>1, <1>2, <1>3, <1>4

\* What is in front of a concatenation, and what is left without it.
LEMMA Front ==
    ASSUME NEW S, NEW a \in Seq(S), NEW b \in Seq(S)
    PROVE  /\ Take(Cat(a, b), Len(a)) = a /\ Drop(Cat(a, b), Len(a)) = b
           /\ Len(a) \in 0..Len(Cat(a, b))
<1> DEFINE s == Cat(a, b)
<1>1. s \in Seq(S)
  BY CatLaws
<1>2. Len(a) \in Nat /\ Len(b) \in Nat /\ Len(s) = Len(a) + Len(b) /\ \A i \in 1..Len(a) : s[i] = a[i]
  BY CatItems
<1> HIDE DEF s
<1>3. Len(a) \in 0..Len(s)
  BY <1>2, SMT
<1>4. /\ Take(s, Len(a)) \in Seq(S) /\ Len(Take(s, Len(a))) = Len(a)
      /\ \A i \in 1..Len(a) : Take(s, Len(a))[i] = s[i]
      /\ Drop(s, Len(a)) \in Seq(S) /\ Cat(Take(s, Len(a)), Drop(s, Len(a))) = s
  BY <1>1, <1>3, SplitAt
<1>5. Take(s, Len(a)) = a
  BY <1>2, <1>4, SeqEqual
<1>6. Cat(a, Drop(s, Len(a))) = Cat(a, b)
  BY <1>4, <1>5 DEF s
<1>7. Drop(s, Len(a)) = b
  BY <1>4, <1>6, CatLaws, SMT
<1> QED
  BY <1>3, <1>5, <1>7 DEF s

\* A prefix is what can be completed.
LEMMA PrefixIff ==
    ASSUME NEW S, NEW s \in Seq(S), NEW t \in Seq(S)
    PROVE  Prefix(s, t) <=> \E r \in Seq(S) : Cat(s, r) = t
<1>1. ASSUME Prefix(s, t) PROVE \E r \in Seq(S) : Cat(s, r) = t
  <2>1. Len(s) \in 0..Len(t)
    BY <1>1, SMT DEF Prefix
  <2> QED
    BY <1>1, <2>1, SplitAt DEF Prefix
<1>2. ASSUME NEW r \in Seq(S), Cat(s, r) = t PROVE Prefix(s, t)
  <2>1. Take(t, Len(s)) = s /\ Len(s) \in 0..Len(t)
    BY <1>2, Front
  <2>2. Len(s) \in Nat /\ Len(t) \in Nat
    BY SMT
  <2> QED
    BY <2>1, <2>2, SMT DEF Prefix
<1> QED
  BY <1>1, <1>2

\* A non-empty sequence is its first item and the others.
LEMMA Cons ==
    ASSUME NEW S, NEW s \in Seq(S), s # <<>>
    PROVE  /\ Head(s) \in S /\ Head(s) = s[1] /\ Tail(s) \in Seq(S)
           /\ s = Cat(One(Head(s)), Tail(s))
<1>1. Head(s) \in S /\ Head(s) = s[1] /\ Tail(s) \in Seq(S)
  BY SMT
<1>2. Len(s) \in Nat /\ Len(s) >= 1
  BY SMT
<1>3. SubSeq(s, 1, Len(s)) = <<s[1]>> \o SubSeq(s, 2, Len(s))
  BY <1>2, SMT
<1>4. s = <<s[1]>> \o Tail(s)
  BY <1>3, SMT
<1>5. s = Cat(One(Head(s)), Tail(s))
  BY <1>1, <1>4 DEF Cat, One
<1> QED
  BY <1>1, <1>5

\* Sequences that begin with an item are equal only if the items are.
LEMMA ConsCancel ==
    ASSUME NEW S, NEW x \in S, NEW y \in S, NEW a \in Seq(S), NEW b \in Seq(S),
           Cat(One(x), a) = Cat(One(y), b)
    PROVE  x = y /\ a = b
<1>1. One(x) \in Seq(S) /\ One(y) \in Seq(S) /\ Len(One(x)) = 1 /\ Len(One(y)) = 1
      /\ One(x)[1] = x /\ One(y)[1] = y
  BY OneItem
<1>2. Take(Cat(One(x), a), Len(One(x))) = One(x)
  BY <1>1, Front
<1>3. Take(Cat(One(y), b), Len(One(y))) = One(y)
  BY <1>1, Front
<1>4. One(x) = One(y)
  BY <1>1, <1>2, <1>3
<1>5. a = b
  BY <1>1, <1>4, CatLaws, SMT
<1> QED
  BY <1>1, <1>4, <1>5

\* Prefixes, by what follows them.
LEMMA PrefixLaws ==
    ASSUME NEW S, NEW a \in Seq(S), NEW b \in Seq(S), NEW c \in Seq(S)
    PROVE  /\ Prefix(a, Cat(a, b)) /\ Prefix(a, a)
           /\ Prefix(a, b) => Prefix(a, Cat(b, c))
           /\ Prefix(a, b) => Prefix(Cat(c, a), Cat(c, b))
           /\ Prefix(Cat(a, b), c) => Prefix(a, c)
           /\ Prefix(a, b) /\ Prefix(b, c) => Prefix(a, c)
<1>1. Prefix(a, Cat(a, b))
  <2>1. Cat(a, b) \in Seq(S)
    BY CatLaws
  <2> QED
    BY <2>1, PrefixIff
<1>2. Prefix(a, a)
  <2>1. Cat(a, <<>>) = a /\ <<>> \in Seq(S)
    BY CatLaws, EmptySeq
  <2> QED
    BY <2>1, PrefixIff
<1>3. ASSUME Prefix(a, b) PROVE Prefix(a, Cat(b, c))
  <2>1. PICK r \in Seq(S) : Cat(a, r) = b
    BY <1>3, PrefixIff
  <2>2. Cat(Cat(a, r), c) = Cat(a, Cat(r, c))
    BY CatLaws, SMT
  <2>3. Cat(r, c) \in Seq(S)
    BY CatLaws
  <2>4. Cat(b, c) \in Seq(S)
    BY CatLaws
  <2>5. Cat(a, Cat(r, c)) = Cat(b, c)
    BY <2>1, <2>2
  <2> QED
    BY <2>3, <2>4, <2>5, PrefixIff
<1>4. ASSUME Prefix(a, b) PROVE Prefix(Cat(c, a), Cat(c, b))
  <2>1. PICK r \in Seq(S) : Cat(a, r) = b
    BY <1>4, PrefixIff
  <2>2. Cat(Cat(c, a), r) = Cat(c, Cat(a, r))
    BY CatLaws, SMT
  <2>3. Cat(c, a) \in Seq(S)
    BY CatLaws
  <2>4. Cat(c, b) \in Seq(S)
    BY CatLaws
  <2>5. Cat(Cat(c, a), r) = Cat(c, b)
    BY <2>1, <2>2
  <2> QED
    BY <2>3, <2>4, <2>5, PrefixIff
<1>5. ASSUME Prefix(Cat(a, b), c) PROVE Prefix(a, c)
  <2>0. Cat(a, b) \in Seq(S)
    BY CatLaws
  <2>1. PICK r \in Seq(S) : Cat(Cat(a, b), r) = c
    BY <1>5, <2>0, PrefixIff, SMT
  <2>2. Cat(Cat(a, b), r) = Cat(a, Cat(b, r))
    BY CatLaws, SMT
  <2>3. Cat(b, r) \in Seq(S)
    BY CatLaws
  <2>4. Cat(a, Cat(b, r)) = c
    BY <2>1, <2>2
  <2> QED
    BY <2>3, <2>4, PrefixIff
<1>6. ASSUME Prefix(a, b), Prefix(b, c) PROVE Prefix(a, c)
  <2>1. PICK r \in Seq(S) : Cat(a, r) = b
    BY <1>6, PrefixIff
  <2>2. PICK q \in Seq(S) : Cat(b, q) = c
    BY <1>6, PrefixIff
  <2>3. Cat(Cat(a, r), q) = Cat(a, Cat(r, q))
    BY CatLaws, SMT
  <2>4. Cat(r, q) \in Seq(S)
    BY CatLaws
  <2>5. Cat(a, Cat(r, q)) = c
    BY <2>1, <2>2, <2>3
  <2> QED
    BY <2>4, <2>5, PrefixIff
<1> QED
  BY <1>1, <1>2, <1>3, <1>4, <1>5, <1>6

\* What starts like a prefix goes on like the rest of it.
LEMMA PrefixCut ==
    ASSUME NEW S, NEW a \in Seq(S), NEW c \in Seq(S), NEW e \in Seq(S), Prefix(Cat(c, a), e)
    PROVE  \E r \in Seq(S) : e = Cat(c, r) /\ Prefix(a, r)
<1>0. Cat(c, a) \in Seq(S)
  BY CatLaws
<1>1. PICK q \in Seq(S) : Cat(Cat(c, a), q) = e
  BY <1>0, PrefixIff, SMT
<1>2. Cat(Cat(c, a), q) = Cat(c, Cat(a, q)) /\ Cat(a, q) \in Seq(S)
  BY CatLaws, SMT
<1>3. Prefix(a, Cat(a, q))
  BY PrefixLaws
<1> QED
  BY <1>1, <1>2, <1>3

LEMMA PrefixCancel ==
    ASSUME NEW S, NEW a \in Seq(S), NEW c \in Seq(S), NEW e \in Seq(S), Prefix(Cat(c, a), Cat(c, e))
    PROVE  Prefix(a, e)
<1>1. Cat(c, e) \in Seq(S)
  BY CatLaws
<1>2. PICK r \in Seq(S) : Cat(c, e) = Cat(c, r) /\ Prefix(a, r)
  BY <1>1, PrefixCut
<1>3. e = r
  BY <1>2, CatLaws, SMT
<1> QED
  BY <1>2, <1>3

\* A sequence of S has all its parts in S.
LEMMA Parts ==
    ASSUME NEW S, NEW T, S \subseteq T, NEW a \in Seq(T), NEW b \in Seq(T), Cat(a, b) \in Seq(S)
    PROVE  a \in Seq(S) /\ b \in Seq(S)
<1> DEFINE s == Cat(a, b)
<1>1. Take(s, Len(a)) = a /\ Drop(s, Len(a)) = b /\ Len(a) \in 0..Len(s)
  BY Front
<1> HIDE DEF s
<1>2. s \in Seq(S)
  BY DEF s
<1>3. Take(s, Len(a)) \in Seq(S) /\ Drop(s, Len(a)) \in Seq(S)
  BY <1>1, <1>2, SplitAt
<1> QED
  BY <1>1, <1>3

LEMMA Wider ==
    ASSUME NEW S, NEW T, S \subseteq T, NEW s \in Seq(S) PROVE s \in Seq(T)
  BY SMT

-----------------------------------------------------------------------------
(* What is under way *)

\* What the proofs use of Flatten. As it is defined by recursion this takes an
\* induction, which is the last part of this module (FlattenIsLawful). Until then
\* it is a hypothesis of the lemmas.
FlattenLaws ==
    /\ Flatten(<<>>) = <<>>
    /\ \A f \in Seq(Seq(Items)) :
          /\ Flatten(f) \in Seq(Items)
          /\ \A c \in Seq(Items) : Flatten(Append(f, c)) = Cat(Flatten(f), c)
          /\ f # <<>> => Flatten(f) = Cat(Head(f), Flatten(Tail(f)))

\* What is under way on a hop, by its three parts.
Way(rest, carried, chunks) == Cat(Cat(rest, carried), Flatten(chunks))

LEMMA WayType ==
    ASSUME FlattenLaws, NEW r \in Seq(Items), NEW n \in Seq(Items), NEW f \in Seq(Seq(Items))
    PROVE  Way(r, n, f) \in Seq(Items)
<1>1. Flatten(f) \in Seq(Items)
  BY DEF FlattenLaws
<1>2. Cat(r, n) \in Seq(Items)
  BY CatLaws
<1> QED
  BY <1>1, <1>2, CatLaws DEF Way

\* Nothing is under way on a new hop.
LEMMA WayEmpty ==
    ASSUME FlattenLaws PROVE Way(<<>>, <<>>, <<>>) = <<>>
<1>1. <<>> \in Seq({}) /\ Cat(<<>>, <<>>) = <<>>
  BY CatLaws, EmptySeq
<1> QED
  BY <1>1 DEF Way, FlattenLaws

\* The transport moves a chunk on, and all stays in order.
LEMMA WayTransport ==
    ASSUME FlattenLaws, NEW r \in Seq(Items), NEW n \in Seq(Items), NEW f \in Seq(Seq(Items)), f # <<>>
    PROVE  Way(r, Cat(n, Head(f)), Tail(f)) = Way(r, n, f)
<1> DEFINE c == Head(f)
           g == Flatten(Tail(f))
<1>1. c \in Seq(Items) /\ Tail(f) \in Seq(Seq(Items))
  BY Cons
<1>2. g \in Seq(Items) /\ Flatten(f) = Cat(c, g)
  BY <1>1 DEF FlattenLaws
<1> HIDE DEF c, g
<1>3. Cat(r, n) \in Seq(Items) /\ Cat(r, Cat(n, c)) = Cat(Cat(r, n), c)
  BY <1>1, CatLaws, SMT
<1>4. Cat(Cat(Cat(r, n), c), g) = Cat(Cat(r, n), Cat(c, g))
  BY <1>1, <1>2, <1>3, CatLaws, SMT
<1> QED
  BY <1>2, <1>3, <1>4 DEF Way, c, g

\* What is written comes last.
LEMMA WayWrite ==
    ASSUME FlattenLaws, NEW r \in Seq(Items), NEW n \in Seq(Items), NEW f \in Seq(Seq(Items)), NEW c \in Seq(Items)
    PROVE  Way(r, n, Append(f, c)) = Cat(Way(r, n, f), c)
<1>1. Flatten(f) \in Seq(Items) /\ Flatten(Append(f, c)) = Cat(Flatten(f), c)
  BY DEF FlattenLaws
<1>2. Cat(r, n) \in Seq(Items)
  BY CatLaws
<1>3. Cat(Cat(Cat(r, n), Flatten(f)), c) = Cat(Cat(r, n), Cat(Flatten(f), c))
  BY <1>1, <1>2, CatLaws, SMT
<1> QED
  BY <1>1, <1>3 DEF Way

\* What is read comes first.
LEMMA WayRead ==
    ASSUME FlattenLaws, NEW r \in Seq(Items), NEW n \in Seq(Items), NEW f \in Seq(Seq(Items)),
           NEW c \in Seq(Items), NEW r1 \in Seq(Items), NEW n1 \in Seq(Items),
           Cat(r, n) = Cat(Cat(c, r1), n1)
    PROVE  Way(r, n, f) = Cat(c, Way(r1, n1, f))
<1> DEFINE g == Flatten(f)
<1>1. g \in Seq(Items)
  BY DEF FlattenLaws
<1> HIDE DEF g
<1>2. Cat(r1, n1) \in Seq(Items) /\ Cat(Cat(c, r1), n1) = Cat(c, Cat(r1, n1))
  BY CatLaws, SMT
<1>3. Cat(Cat(c, Cat(r1, n1)), g) = Cat(c, Cat(Cat(r1, n1), g))
  BY <1>1, <1>2, CatLaws, SMT
<1> QED
  BY <1>2, <1>3 DEF Way, g

\* What was read ahead comes first, also when the rest is lost.
LEMMA WayCut ==
    ASSUME FlattenLaws, NEW r \in Seq(Items), NEW n \in Seq(Items), NEW f \in Seq(Seq(Items))
    PROVE  /\ Way(r, <<>>, <<>>) = r
           /\ Cat(n, Flatten(f)) \in Seq(Items)
           /\ Way(r, n, f) = Cat(r, Cat(n, Flatten(f)))
<1>1. Flatten(f) \in Seq(Items)
  BY DEF FlattenLaws
<1>2. Cat(n, Flatten(f)) \in Seq(Items) /\ Cat(Cat(r, n), Flatten(f)) = Cat(r, Cat(n, Flatten(f)))
  BY <1>1, CatLaws, SMT
<1>3. Cat(r, <<>>) = r
  BY CatLaws
<1> QED
  BY <1>2, <1>3 DEF Way, FlattenLaws

-----------------------------------------------------------------------------
(* Types *)

\* Messages and data are items, and their kind tells them apart.
LEMMA ItemFacts ==
    /\ \A k \in Kinds, p \in Peers \cup {"nobody"} :
          Message(k, p) \in Items /\ Message(k, p).kind = k /\ Message(k, p).peer = p
    /\ Data \subseteq Items
    /\ \A n \in 1..MaxData : Datum(n) \in Data
    /\ \A x \in Items : IsData(x) <=> x \in Data
    /\ \A x \in Items : ~IsData(x) => x.kind \in Kinds /\ x.peer \in Peers \cup {"nobody"}
<1>1. \A k \in Kinds, p \in Peers \cup {"nobody"} :
          Message(k, p) \in Items /\ Message(k, p).kind = k /\ Message(k, p).peer = p
  BY SMT DEF Items, Message
<1>2. Data \subseteq Items
  BY SMT DEF Items
<1>3. \A n \in 1..MaxData : Datum(n) \in Data
  BY DEF Data
<1>4. \A x \in Data : IsData(x)
  BY SMT DEF Data, Datum, IsData
<1>5. "data" \notin Kinds
  BY DEF Kinds
<1>6. \A x \in Items : x \in Data \/ \E k \in Kinds, p \in Peers \cup {"nobody"} : x = Message(k, p)
  BY SMT DEF Items
<1>7. \A x \in Items : x \notin Data => x.kind \in Kinds /\ x.peer \in Peers \cup {"nobody"}
  BY <1>1, <1>6, SMT
<1>8. \A x \in Items : x \notin Data => ~IsData(x)
  BY <1>5, <1>7 DEF IsData
<1> QED
  BY <1>1, <1>2, <1>3, <1>4, <1>7, <1>8

\* The messages that the peers write.
LEMMA Messages ==
    /\ \A x \in Ends : /\ Message("User", x) \in Items
                       /\ Message("UserProxy", x) \in Items
                       /\ Message("ProxyBuildConnectionToPeer", x) \in Items
                       /\ Message("BuildConnectionToPeer", x) \in Items
    /\ Message("InternetAddressInformation", Relay) \in Items
    /\ Message("ProxyConnection", "nobody") \in Items
    /\ Message("none", "nobody") \in Items
<1>1. /\ {"User", "UserProxy", "ProxyBuildConnectionToPeer", "BuildConnectionToPeer",
          "InternetAddressInformation", "ProxyConnection", "none"} \subseteq Kinds
      /\ Ends \subseteq Peers \cup {"nobody"} /\ Relay \in Peers \cup {"nobody"}
  BY DEF Kinds, Peers
<1> QED
  BY <1>1, ItemFacts

\* A chunk from the channel: it is not empty, and what was read ahead and what
\* the transport carries is this chunk and what is left of it.
LEMMA NextChunkFacts ==
    ASSUME TypeOK, NEW h \in Hops, NEW chunk \in Chunks(h), NextChunk(h, chunk)
    PROVE  /\ chunk \in Seq(Items) /\ chunk # <<>>
           /\ net' \in [Hops -> Seq(Items)] /\ \A g \in Hops : g # h => net'[g] = net[g]
           /\ Cat(overflow[h], net[h]) = Cat(chunk, net'[h])
<1>1. overflow[h] \in Seq(Items) /\ net[h] \in Seq(Items) /\ net \in [Hops -> Seq(Items)]
  BY SMT DEF TypeOK
<1>2. CASE overflow[h] # <<>>
  <2>1. chunk = overflow[h] /\ net' = net
    BY <1>2 DEF NextChunk
  <2> QED
    BY <1>1, <1>2, <2>1
<1>3. CASE overflow[h] = <<>>
  <2>1. PICK n \in 1..Len(net[h]) : chunk = SubSeq(net[h], 1, n)
    BY <1>3 DEF NextChunk
  <2>2. net' = [net EXCEPT ![h] = SubSeq(net[h], Len(chunk) + 1, Len(net[h]))]
    BY <1>3 DEF NextChunk
  <2> DEFINE s == net[h]
  <2>3. s \in Seq(Items) /\ chunk = Take(s, n) /\ n \in 1..Len(s) /\ Len(s) \in Nat
    BY <1>1, <2>1, SMT DEF Take
  <2>4. n \in 0..Len(s) /\ n # 0
    BY <2>3, SMT
  <2>5. /\ chunk \in Seq(Items) /\ Len(chunk) = n
        /\ Drop(s, n) \in Seq(Items) /\ Cat(chunk, Drop(s, n)) = s
    BY <2>3, <2>4, SplitAt
  <2>6. net' = [net EXCEPT ![h] = Drop(s, n)]
    BY <2>2, <2>5 DEF Drop
  <2> HIDE DEF s
  <2>7. net'[h] = Drop(s, n) /\ net' \in [Hops -> Seq(Items)] /\ \A g \in Hops : g # h => net'[g] = net[g]
    BY <1>1, <2>5, <2>6
  <2>8. chunk # <<>>
    BY <2>4, <2>5, SMT
  <2>9. Cat(overflow[h], net[h]) = s
    BY <1>1, <1>3, CatLaws DEF s
  <2> QED
    BY <2>5, <2>7, <2>8, <2>9
<1> QED
  BY <1>2, <1>3

\* copy_data splits the chunk, and takes something of it.
LEMMA CopyDataFacts ==
    ASSUME NEW S, NEW chunk \in Seq(S), chunk # <<>>, NEW size \in Nat, size >= 1
    PROVE  LET copied == CopyData(chunk, size) IN
           /\ copied[1] \in Seq(S) /\ copied[2] \in Seq(S) /\ copied[1] # <<>>
           /\ Cat(copied[1], copied[2]) = chunk
<1> DEFINE n == IF Len(chunk) < size THEN Len(chunk) ELSE size
<1>1. CopyData(chunk, size) = <<Take(chunk, n), Drop(chunk, n)>>
  BY DEF CopyData, Take, Drop
<1>2. Len(chunk) \in Nat /\ Len(chunk) # 0
  BY SMT
<1>3. n \in 0..Len(chunk) /\ n # 0
  BY <1>2, SMT
<1> HIDE DEF n
<1>4. /\ Take(chunk, n) \in Seq(S) /\ Len(Take(chunk, n)) = n /\ Drop(chunk, n) \in Seq(S)
      /\ Cat(Take(chunk, n), Drop(chunk, n)) = chunk
  BY <1>3, SplitAt
<1>5. Take(chunk, n) # <<>>
  BY <1>3, <1>4
<1> QED
  BY <1>1, <1>4, <1>5, SMT

\* UnderWay by its parts, before and after a step.
LEMMA UnderWayIs ==
    ASSUME NEW h
    PROVE  /\ UnderWay(h) = Way(overflow[h], net[h], out[h])
           /\ UnderWay(h)' = Way(overflow'[h], net'[h], out'[h])
  BY DEF UnderWay, Way, Cat

LEMMA UnderWayType ==
    ASSUME FlattenLaws, TypeOK, NEW h \in Hops PROVE UnderWay(h) \in Seq(Items)
<1>1. overflow[h] \in Seq(Items) /\ net[h] \in Seq(Items) /\ out[h] \in Seq(Seq(Items))
  BY SMT DEF TypeOK
<1> QED
  BY <1>1, UnderWayIs, WayType

\* What is under way changes with the three parts only.
LEMMA Steady ==
    ASSUME NEW h, out'[h] = out[h], net'[h] = net[h], overflow'[h] = overflow[h]
    PROVE  UnderWay(h)' = UnderWay(h)
  BY UnderWayIs

\* Reading takes what comes first on a hop, and leaves the other hop alone.
LEMMA Reads ==
    ASSUME FlattenLaws, TypeOK, NEW h \in Hops, NEW chunk \in Chunks(h), NextChunk(h, chunk),
           NEW c \in Seq(Items), NEW r \in Seq(Items), Cat(c, r) = chunk,
           overflow' = [overflow EXCEPT ![h] = r], out'[h] = out[h]
    PROVE  /\ UnderWay(h) = Cat(c, UnderWay(h)')
           /\ UnderWay(h)' \in Seq(Items)
           /\ \A g \in Hops : g # h => net'[g] = net[g] /\ overflow'[g] = overflow[g]
           /\ net' \in [Hops -> Seq(Items)] /\ overflow' \in [Hops -> Seq(Items)]
<1>1. /\ overflow \in [Hops -> Seq(Items)] /\ overflow[h] \in Seq(Items)
      /\ net[h] \in Seq(Items) /\ out[h] \in Seq(Seq(Items))
  BY SMT DEF TypeOK
<1>2. /\ net' \in [Hops -> Seq(Items)] /\ \A g \in Hops : g # h => net'[g] = net[g]
      /\ Cat(overflow[h], net[h]) = Cat(chunk, net'[h])
  BY NextChunkFacts
<1>3. /\ overflow' \in [Hops -> Seq(Items)] /\ overflow'[h] = r
      /\ \A g \in Hops : g # h => overflow'[g] = overflow[g]
  BY <1>1
<1>4. net'[h] \in Seq(Items) /\ Cat(overflow[h], net[h]) = Cat(Cat(c, r), net'[h])
  BY <1>2
<1>5. Way(overflow[h], net[h], out[h]) = Cat(c, Way(r, net'[h], out[h]))
  BY <1>1, <1>4, WayRead, SMT
<1>6. Way(r, net'[h], out[h]) \in Seq(Items)
  BY <1>1, <1>4, WayType
<1>7. UnderWay(h) = Way(overflow[h], net[h], out[h]) /\ UnderWay(h)' = Way(r, net'[h], out[h])
  BY <1>3, UnderWayIs
<1> QED
  BY <1>2, <1>3, <1>5, <1>6, <1>7

\* A frame is read: the first item, whatever was read ahead with it.
LEMMA ReadFrameFacts ==
    ASSUME FlattenLaws, TypeOK, NEW h \in Hops, NEW chunk \in Chunks(h), ReadFrame(h, chunk), out' = out
    PROVE  /\ Head(chunk) \in Items
           /\ UnderWay(h) = Cat(One(Head(chunk)), UnderWay(h)')
           /\ UnderWay(h)' \in Seq(Items)
           /\ \A g \in Hops : g # h => /\ UnderWay(g)' = UnderWay(g)
                                       /\ net'[g] = net[g] /\ overflow'[g] = overflow[g]
           /\ net' \in [Hops -> Seq(Items)] /\ overflow' \in [Hops -> Seq(Items)]
<1> DEFINE copied == CopyData(chunk, BufSize)
           c1 == copied[1]
           c2 == copied[2]
<1>1. NextChunk(h, chunk) /\ overflow' = [overflow EXCEPT ![h] = Cat(Tail(c1), c2)]
  BY DEF ReadFrame, ReinsertData, Cat
<1>2. chunk \in Seq(Items) /\ chunk # <<>>
  BY <1>1, NextChunkFacts
<1>3. BufSize \in Nat /\ BufSize >= 1
  BY SizesAssumption
<1>4. c1 \in Seq(Items) /\ c2 \in Seq(Items) /\ c1 # <<>> /\ Cat(c1, c2) = chunk
  BY <1>2, <1>3, CopyDataFacts
<1> HIDE DEF c1, c2
<1> DEFINE y == Head(c1)
           t == Tail(c1)
           x == Head(chunk)
           r == Tail(chunk)
<1>5. y \in Items /\ t \in Seq(Items) /\ c1 = Cat(One(y), t)
  BY <1>4, Cons
<1>6. x \in Items /\ r \in Seq(Items) /\ chunk = Cat(One(x), r)
  BY <1>2, Cons
<1>7. overflow' = [overflow EXCEPT ![h] = Cat(t, c2)]
  BY <1>1
<1> HIDE DEF y, t, x, r
<1>8. r = Cat(t, c2)
  <2>1. y \in Items /\ t \in Seq(Items) /\ c2 \in Seq(Items) /\ x \in Items /\ r \in Seq(Items)
    BY <1>4, <1>5, <1>6
  <2>2. One(y) \in Seq(Items)
    BY <2>1, OneItem
  <2>3. Cat(Cat(One(y), t), c2) = Cat(One(y), Cat(t, c2)) /\ Cat(t, c2) \in Seq(Items)
    BY <2>1, <2>2, CatLaws, SMT
  <2>4. Cat(One(x), r) = Cat(One(y), Cat(t, c2))
    BY <1>4, <1>5, <1>6, <2>3
  <2> QED
    BY <2>1, <2>3, <2>4, ConsCancel, SMT
<1>9. One(x) \in Seq(Items)
  BY <1>6, OneItem
<1>10. /\ NextChunk(h, chunk) /\ Cat(One(x), r) = chunk
       /\ overflow' = [overflow EXCEPT ![h] = r]
  BY <1>1, <1>6, <1>7, <1>8
<1>11. /\ UnderWay(h) = Cat(One(x), UnderWay(h)')
       /\ UnderWay(h)' \in Seq(Items)
       /\ \A g \in Hops : g # h => net'[g] = net[g] /\ overflow'[g] = overflow[g]
       /\ net' \in [Hops -> Seq(Items)] /\ overflow' \in [Hops -> Seq(Items)]
  BY <1>6, <1>9, <1>10, Reads
<1>12. \A g \in Hops : g # h => UnderWay(g)' = UnderWay(g)
  BY <1>11, Steady
<1> QED
  BY <1>6, <1>11, <1>12 DEF x

-----------------------------------------------------------------------------
(* What the actions do to the pipes *)

LEMMA AppendLaws ==
    ASSUME NEW S, NEW s \in Seq(S), NEW x \in S
    PROVE  Append(s, x) \in Seq(S) /\ Len(s) \in Nat /\ Len(Append(s, x)) = Len(s) + 1
  BY SMT

\* A chunk that is written comes last on its hop.
LEMMA Writes ==
    ASSUME FlattenLaws, TypeOK, NEW h \in Hops, NEW c \in Seq(Items), out'[h] = Append(out[h], c),
           net'[h] = net[h], overflow'[h] = overflow[h]
    PROVE  UnderWay(h)' = Cat(UnderWay(h), c)
<1>1. overflow[h] \in Seq(Items) /\ net[h] \in Seq(Items) /\ out[h] \in Seq(Seq(Items))
  BY SMT DEF TypeOK
<1>2. Way(overflow[h], net[h], Append(out[h], c)) = Cat(Way(overflow[h], net[h], out[h]), c)
  BY <1>1, WayWrite, SMT
<1> QED
  BY <1>2, UnderWayIs

LEMMA WriteChunk ==
    ASSUME FlattenLaws, TypeOK, NEW h \in Hops, NEW c \in Seq(Items), Len(out[h]) < Capacity,
           out' = [out EXCEPT ![h] = Append(@, c)], net' = net, overflow' = overflow
    PROVE  /\ PipesOK'
           /\ UnderWay(h)' = Cat(UnderWay(h), c)
           /\ \A g \in Hops : g # h => UnderWay(g)' = UnderWay(g) /\ out'[g] = out[g]
<1>1. /\ out \in [Hops -> Seq(Seq(Items))] /\ out[h] \in Seq(Seq(Items))
      /\ \A g \in Hops : Len(out[g]) <= Capacity
  BY SMT DEF TypeOK
<1>2. /\ Append(out[h], c) \in Seq(Seq(Items)) /\ Len(out[h]) \in Nat
      /\ Len(Append(out[h], c)) = Len(out[h]) + 1
  BY <1>1, AppendLaws
<1>3. /\ out' \in [Hops -> Seq(Seq(Items))] /\ out'[h] = Append(out[h], c)
      /\ \A g \in Hops : g # h => out'[g] = out[g]
  BY <1>1, <1>2
<1>4. Len(out'[h]) <= Capacity
  BY <1>2, <1>3, SizesAssumption, SMT
<1>5. PipesOK'
  BY <1>1, <1>3, <1>4, SMT DEF PipesOK, TypeOK
<1>6. UnderWay(h)' = Cat(UnderWay(h), c)
  BY <1>3, Writes
<1> QED
  BY <1>3, <1>5, <1>6, Steady

\* The transport changes nothing about what is under way.
LEMMA TransportPipes ==
    ASSUME FlattenLaws, TypeOK, NEW h \in Hops, Transport(h)
    PROVE  /\ PipesOK'
           /\ \A g \in Hops : /\ UnderWay(g)' = UnderWay(g)
                              /\ Len(out'[g]) <= Len(out[g])
                              /\ out[g] = <<>> => out'[g] = <<>> /\ net'[g] = net[g]
<1>1. /\ out \in [Hops -> Seq(Seq(Items))] /\ net \in [Hops -> Seq(Items)]
      /\ overflow[h] \in Seq(Items) /\ net[h] \in Seq(Items) /\ out[h] \in Seq(Seq(Items))
      /\ \A g \in Hops : Len(out[g]) <= Capacity
  BY SMT DEF TypeOK
<1>2. /\ out[h] # <<>> /\ overflow' = overflow
      /\ net' = [net EXCEPT ![h] = Cat(@, Head(out[h]))] /\ out' = [out EXCEPT ![h] = Tail(@)]
  BY DEF Transport, Cat
<1>3. /\ Head(out[h]) \in Seq(Items) /\ Tail(out[h]) \in Seq(Seq(Items))
      /\ Len(Tail(out[h])) <= Len(out[h]) /\ Len(Tail(out[h])) \in Nat /\ Len(out[h]) \in Nat
  BY <1>1, <1>2, SMT
<1>4. Cat(net[h], Head(out[h])) \in Seq(Items)
  BY <1>1, <1>3, CatLaws
<1>5. /\ out' \in [Hops -> Seq(Seq(Items))] /\ net' \in [Hops -> Seq(Items)]
      /\ out'[h] = Tail(out[h]) /\ net'[h] = Cat(net[h], Head(out[h]))
      /\ \A g \in Hops : g # h => out'[g] = out[g] /\ net'[g] = net[g]
  BY <1>1, <1>2, <1>3, <1>4
<1>6. \A g \in Hops : Len(out[g]) \in Nat
  BY <1>1, SMT
<1>7. \A g \in Hops : Len(out'[g]) <= Len(out[g])
  <2>1. Len(out'[h]) <= Len(out[h])
    BY <1>3, <1>5
  <2>2. ASSUME NEW g \in Hops, g # h PROVE Len(out'[g]) <= Len(out[g])
    <3>1. out'[g] = out[g]
      BY <1>5, <2>2
    <3>2. Len(out[g]) <= Len(out[g])
      BY <1>6, SMT
    <3> QED
      BY <3>1, <3>2
  <2> QED
    BY <2>1, <2>2
<1>8. \A g \in Hops : Len(out'[g]) <= Capacity
  <2>1. \A g \in Hops : Len(out'[g]) \in Nat
    BY <1>5, SMT
  <2> QED
    BY <1>1, <1>6, <1>7, <2>1, SizesAssumption, SMTT(20)
<1>9. PipesOK'
  BY <1>2, <1>5, <1>8, SMT DEF PipesOK, TypeOK
<1>10. UnderWay(h)' = UnderWay(h)
  <2>1. Way(overflow[h], Cat(net[h], Head(out[h])), Tail(out[h])) = Way(overflow[h], net[h], out[h])
    BY <1>1, <1>2, WayTransport
  <2> QED
    BY <1>2, <1>5, <2>1, UnderWayIs
<1>11. \A g \in Hops : UnderWay(g)' = UnderWay(g)
  BY <1>2, <1>5, <1>10, Steady
<1> QED
  BY <1>2, <1>5, <1>7, <1>9, <1>11

\* Reading leaves the send channels alone.
LEMMA ReadPipes ==
    ASSUME TypeOK, net' \in [Hops -> Seq(Items)], overflow' \in [Hops -> Seq(Items)], out' = out
    PROVE  PipesOK'
  BY SMT DEF PipesOK, TypeOK

\* A chunk is read as a whole.
LEMMA ReadsAll ==
    ASSUME FlattenLaws, TypeOK, NEW h \in Hops, NEW chunk \in Chunks(h), NextChunk(h, chunk),
           overflow' = [overflow EXCEPT ![h] = <<>>], out'[h] = out[h]
    PROVE  /\ UnderWay(h) = Cat(chunk, UnderWay(h)')
           /\ UnderWay(h)' \in Seq(Items)
           /\ \A g \in Hops : g # h => net'[g] = net[g] /\ overflow'[g] = overflow[g]
           /\ net' \in [Hops -> Seq(Items)] /\ overflow' \in [Hops -> Seq(Items)]
<1> DEFINE r == <<>>
<1>1. chunk \in Seq(Items)
  BY NextChunkFacts
<1>2. r \in Seq(Items) /\ Cat(chunk, r) = chunk
  BY <1>1, CatUnit
<1>3. overflow' = [overflow EXCEPT ![h] = r]
  OBVIOUS
<1> HIDE DEF r
<1> QED
  BY <1>1, <1>2, <1>3, Reads

\* The user reads some of what comes first.
LEMMA UserReads ==
    ASSUME FlattenLaws, TypeOK, NEW h \in Hops,
           UserPoll(h) \/ \E size \in 1..BufSize : UserRead(h, size)
    PROVE  /\ PipesOK' /\ out' = out
           /\ \A g \in Hops : g # h => UnderWay(g)' = UnderWay(g) /\ net'[g] = net[g] /\ overflow'[g] = overflow[g]
           /\ \E c \in Seq(Items) : /\ c # <<>> /\ UnderWay(h) = Cat(c, UnderWay(h)')
                                    /\ received' = Cat(received, c)
<1>0. out' = out
  BY DEF UserPoll, UserRead
<1>1. PICK chunk \in Chunks(h), c \in Seq(Items), r \in Seq(Items) :
         /\ NextChunk(h, chunk) /\ c # <<>> /\ Cat(c, r) = chunk
         /\ overflow' = [overflow EXCEPT ![h] = r] /\ received' = Cat(received, c)
  <2>1. CASE UserPoll(h)
    <3>1. PICK chunk \in Chunks(h) : /\ NextChunk(h, chunk)
                                     /\ overflow' = [overflow EXCEPT ![h] = <<>>]
                                     /\ received' = Cat(received, chunk)
      BY <2>1 DEF UserPoll, Cat
    <3>2. chunk \in Seq(Items) /\ chunk # <<>>
      BY <3>1, NextChunkFacts
    <3>3. <<>> \in Seq(Items) /\ Cat(chunk, <<>>) = chunk
      BY <3>2, CatLaws, SMT
    <3> QED
      BY <3>1, <3>2, <3>3
  <2>2. ASSUME NEW size \in 1..BufSize, UserRead(h, size)
        PROVE  \E chunk \in Chunks(h), c \in Seq(Items), r \in Seq(Items) :
                  /\ NextChunk(h, chunk) /\ c # <<>> /\ Cat(c, r) = chunk
                  /\ overflow' = [overflow EXCEPT ![h] = r] /\ received' = Cat(received, c)
    <3>1. PICK chunk \in Chunks(h) :
             /\ NextChunk(h, chunk)
             /\ overflow' = [overflow EXCEPT ![h] = CopyData(chunk, size)[2]]
             /\ received' = Cat(received, CopyData(chunk, size)[1])
      BY <2>2 DEF UserRead, Cat
    <3>2. chunk \in Seq(Items) /\ chunk # <<>>
      BY <3>1, NextChunkFacts
    <3>3. size \in Nat /\ size >= 1
      BY SizesAssumption, SMT
    <3> DEFINE c == CopyData(chunk, size)[1]
               r == CopyData(chunk, size)[2]
    <3>4. c \in Seq(Items) /\ r \in Seq(Items) /\ c # <<>> /\ Cat(c, r) = chunk
      BY <3>2, <3>3, CopyDataFacts
    <3>5. overflow' = [overflow EXCEPT ![h] = r] /\ received' = Cat(received, c)
      BY <3>1
    <3> HIDE DEF c, r
    <3> QED
      BY <3>1, <3>4, <3>5
  <2> QED
    BY <2>1, <2>2
<1>2. /\ UnderWay(h) = Cat(c, UnderWay(h)')
      /\ \A g \in Hops : g # h => net'[g] = net[g] /\ overflow'[g] = overflow[g]
      /\ net' \in [Hops -> Seq(Items)] /\ overflow' \in [Hops -> Seq(Items)]
  BY <1>0, <1>1, Reads
<1>3. \A g \in Hops : g # h => UnderWay(g)' = UnderWay(g)
  BY <1>0, <1>2, Steady
<1> QED
  BY <1>0, <1>1, <1>2, <1>3, ReadPipes

\* The relay moves what comes first on hop 1 behind what is on hop 2.
LEMMA RelayPipes ==
    ASSUME FlattenLaws, TypeOK, RelayForward
    PROVE  /\ PipesOK' /\ out'[1] = out[1]
           /\ \E c \in Seq(Items) : UnderWay(1) = Cat(c, UnderWay(1)') /\ UnderWay(2)' = Cat(UnderWay(2), c)
           /\ UnderWay(1)' \in Seq(Items)
<1>1. 1 \in Hops /\ 2 \in Hops /\ 1 # 2
  BY SMT DEF Hops
<1>2. PICK chunk \in Chunks(1) :
         NextChunk(1, chunk) /\ out' = [out EXCEPT ![2] = Append(@, chunk)]
  BY DEF RelayForward
<1>3. Len(out[2]) < Capacity /\ overflow' = [overflow EXCEPT ![1] = <<>>]
  BY DEF RelayForward
<1>4. chunk \in Seq(Items)
  BY <1>1, <1>2, NextChunkFacts
<1>6. /\ out \in [Hops -> Seq(Seq(Items))] /\ out[2] \in Seq(Seq(Items))
      /\ \A g \in Hops : Len(out[g]) <= Capacity
  BY <1>1, SMT DEF TypeOK
<1>7. /\ Append(out[2], chunk) \in Seq(Seq(Items)) /\ Len(out[2]) \in Nat
      /\ Len(Append(out[2], chunk)) = Len(out[2]) + 1
  BY <1>4, <1>6, AppendLaws
<1>8. /\ out' \in [Hops -> Seq(Seq(Items))] /\ out'[2] = Append(out[2], chunk) /\ out'[1] = out[1]
  BY <1>1, <1>2, <1>6, <1>7
<1>9. /\ UnderWay(1) = Cat(chunk, UnderWay(1)') /\ UnderWay(1)' \in Seq(Items)
      /\ net'[2] = net[2] /\ overflow'[2] = overflow[2]
      /\ net' \in [Hops -> Seq(Items)] /\ overflow' \in [Hops -> Seq(Items)]
  <2>1. NextChunk(1, chunk) /\ out'[1] = out[1] /\ overflow' = [overflow EXCEPT ![1] = <<>>]
    BY <1>2, <1>3, <1>8
  <2>2. /\ UnderWay(1) = Cat(chunk, UnderWay(1)') /\ UnderWay(1)' \in Seq(Items)
        /\ \A g \in Hops : g # 1 => net'[g] = net[g] /\ overflow'[g] = overflow[g]
        /\ net' \in [Hops -> Seq(Items)] /\ overflow' \in [Hops -> Seq(Items)]
    BY <1>1, <2>1, ReadsAll
  <2> QED
    BY <1>1, <2>2
<1>10. UnderWay(2)' = Cat(UnderWay(2), chunk)
  BY <1>1, <1>4, <1>8, <1>9, Writes
<1>11. Len(out'[2]) <= Capacity
  BY <1>3, <1>7, <1>8, SizesAssumption, SMTT(20)
<1>12. PipesOK'
  BY <1>6, <1>8, <1>9, <1>11 DEF PipesOK, Hops
<1> QED
  BY <1>4, <1>8, <1>9, <1>10, <1>12

LEMMA PipesUnderWay ==
    ASSUME FlattenLaws, PipesOK', NEW h \in Hops PROVE UnderWay(h)' \in Seq(Items)
<1>1. overflow'[h] \in Seq(Items) /\ net'[h] \in Seq(Items) /\ out'[h] \in Seq(Seq(Items))
  BY DEF PipesOK
<1> QED
  BY <1>1, UnderWayIs, WayType

\* A lost connection takes what is at the end of a hop with it.
LEMMA LostPipes ==
    ASSUME FlattenLaws, TypeOK, NEW c \in up, ConnectionLost(c)
    PROVE  /\ PipesOK'
           /\ \A h \in Hops : /\ Len(out'[h]) <= Len(out[h])
                              /\ out[h] = <<>> => out'[h] = <<>>
                              /\ net[h] = <<>> => net'[h] = <<>>
                              /\ UnderWay(h)' \in Seq(Items)
                              /\ \E w \in Seq(Items) : UnderWay(h) = Cat(UnderWay(h)', w)
                              /\ h \notin 1..LastHop \/ Link(h) # c => UnderWay(h)' = UnderWay(h)
<1> DEFINE cut == {h \in 1..LastHop : Link(h) = c}
<1>1. /\ out' = [h \in Hops |-> IF h \in cut THEN <<>> ELSE out[h]]
      /\ net' = [h \in Hops |-> IF h \in cut THEN <<>> ELSE net[h]]
      /\ overflow' = overflow
  BY DEF ConnectionLost
<1>2. /\ out \in [Hops -> Seq(Seq(Items))] /\ net \in [Hops -> Seq(Items)]
      /\ overflow \in [Hops -> Seq(Items)]
      /\ \A h \in Hops : Len(out[h]) <= Capacity
  BY SMT DEF TypeOK
<1>3. /\ <<>> \in Seq(Seq(Items)) /\ <<>> \in Seq(Items) /\ Len(<<>>) = 0
  BY SMT
<1>4. \A h \in Hops : (h \notin 1..LastHop \/ Link(h) # c) <=> h \notin cut
  OBVIOUS
<1> HIDE DEF cut
<1>5. /\ \A h \in Hops : h \in cut => out'[h] = <<>> /\ net'[h] = <<>>
      /\ \A h \in Hops : h \notin cut => out'[h] = out[h] /\ net'[h] = net[h]
  BY <1>1
<1>6. out' \in [Hops -> Seq(Seq(Items))]
  BY <1>1, <1>2, <1>3
<1>7. net' \in [Hops -> Seq(Items)]
  BY <1>1, <1>2, <1>3
<1>8. ASSUME NEW h \in Hops
      PROVE  /\ Len(out'[h]) <= Len(out[h]) /\ Len(out'[h]) <= Capacity
             /\ out[h] = <<>> => out'[h] = <<>>
             /\ net[h] = <<>> => net'[h] = <<>>
             /\ UnderWay(h)' \in Seq(Items)
             /\ \E w \in Seq(Items) : UnderWay(h) = Cat(UnderWay(h)', w)
             /\ h \notin cut => UnderWay(h)' = UnderWay(h)
  <2>1. overflow[h] \in Seq(Items) /\ net[h] \in Seq(Items) /\ out[h] \in Seq(Seq(Items))
    BY <1>2
  <2>2. Len(out[h]) \in Nat
    BY <2>1, SMT
  <2>3. Len(out'[h]) <= Len(out[h]) /\ Len(out'[h]) <= Capacity
    <3>1. CASE h \in cut
      <4>1. out'[h] = <<>>
        BY <1>5, <3>1
      <4> QED
        BY <1>3, <2>2, <4>1, SizesAssumption, SMT
    <3>2. CASE h \notin cut
      <4>1. out'[h] = out[h]
        BY <1>5, <3>2
      <4>2. Len(out[h]) <= Len(out[h]) /\ Len(out[h]) <= Capacity
        BY <1>2, <2>2, SMT
      <4> QED
        BY <4>1, <4>2
    <3> QED
      BY <3>1, <3>2
  <2>4. UnderWay(h) \in Seq(Items)
    BY UnderWayType
  <2>5. CASE h \in cut
    <3>1. UnderWay(h)' = Way(overflow[h], <<>>, <<>>) /\ UnderWay(h) = Way(overflow[h], net[h], out[h])
      BY <1>1, <1>5, <2>5, UnderWayIs
    <3> DEFINE w == Cat(net[h], Flatten(out[h]))
    <3>2. Way(overflow[h], <<>>, <<>>) = overflow[h] /\ w \in Seq(Items)
          /\ Way(overflow[h], net[h], out[h]) = Cat(overflow[h], w)
      BY <2>1, WayCut
    <3> HIDE DEF w
    <3>3. UnderWay(h)' = overflow[h] /\ UnderWay(h) = Cat(UnderWay(h)', w)
      BY <3>1, <3>2
    <3> QED
      BY <1>5, <2>1, <2>3, <2>5, <3>2, <3>3
  <2>6. CASE h \notin cut
    <3>1. UnderWay(h)' = UnderWay(h)
      BY <1>1, <1>5, <2>6, Steady
    <3>2. <<>> \in Seq(Items) /\ UnderWay(h) = Cat(UnderWay(h), <<>>)
      BY <2>4, CatUnit
    <3> QED
      BY <1>5, <2>3, <2>4, <2>6, <3>1, <3>2
  <2> QED
    BY <2>5, <2>6
<1>9. PipesOK'
  BY <1>1, <1>2, <1>6, <1>7, <1>8 DEF PipesOK
<1> QED
  BY <1>4, <1>8, <1>9

\* A send channel that is new, after one and after two frames.
AreChunkSeq(f) == f \in Seq(Seq(Items))
Add(f, c) == Append(f, c)
FirstFrame(a) == Add(<<>>, a)
TwoFrames(a, b) == Add(FirstFrame(a), b)

LEMMA AddFrame ==
    ASSUME FlattenLaws, NEW f, AreChunkSeq(f), NEW c \in Seq(Items)
    PROVE  /\ AreChunkSeq(Add(f, c))
           /\ Len(f) \in Nat /\ Len(Add(f, c)) = Len(f) + 1
           /\ Way(<<>>, <<>>, Add(f, c)) = Cat(Way(<<>>, <<>>, f), c)
<1> DEFINE e == <<>>
<1>1. f \in Seq(Seq(Items))
  BY DEF AreChunkSeq
<1>2. e \in Seq(Items)
  BY SMT
<1>3. Append(f, c) \in Seq(Seq(Items)) /\ Len(f) \in Nat /\ Len(Append(f, c)) = Len(f) + 1
  BY <1>1, AppendLaws
<1> HIDE DEF e
<1>4. Way(e, e, Append(f, c)) = Cat(Way(e, e, f), c)
  BY <1>1, <1>2, WayWrite
<1> QED
  BY <1>3, <1>4 DEF e, Add, AreChunkSeq

LEMMA NewFrames ==
    ASSUME FlattenLaws, NEW a \in Seq(Items), NEW b \in Seq(Items)
    PROVE  /\ FirstFrame(a) \in Seq(Seq(Items)) /\ Len(FirstFrame(a)) = 1
           /\ Way(<<>>, <<>>, FirstFrame(a)) = a
           /\ TwoFrames(a, b) \in Seq(Seq(Items)) /\ Len(TwoFrames(a, b)) = 2
           /\ Way(<<>>, <<>>, TwoFrames(a, b)) = Cat(a, b)
<1> DEFINE e == <<>>
           f == FirstFrame(a)
<1>1. AreChunkSeq(e) /\ Len(e) = 0
  BY SMT DEF AreChunkSeq
<1>2. Way(<<>>, <<>>, e) = <<>>
  BY WayEmpty
<1>3. Cat(<<>>, a) = a
  BY CatLaws
<1>4. f = Add(e, a)
  BY DEF FirstFrame
<1> HIDE DEF e, f
<1>5. /\ AreChunkSeq(Add(e, a)) /\ Len(Add(e, a)) = Len(e) + 1
      /\ Way(<<>>, <<>>, Add(e, a)) = Cat(Way(<<>>, <<>>, e), a)
  BY <1>1, AddFrame
<1>6. AreChunkSeq(f)
  BY <1>4, <1>5
<1>7. Len(f) = 1
  BY <1>1, <1>4, <1>5, SMT
<1>8. Way(<<>>, <<>>, f) = a
  BY <1>2, <1>3, <1>4, <1>5
<1>9. /\ AreChunkSeq(Add(f, b)) /\ Len(Add(f, b)) = Len(f) + 1
      /\ Way(<<>>, <<>>, Add(f, b)) = Cat(Way(<<>>, <<>>, f), b)
  BY <1>6, AddFrame
<1>10. Len(Add(f, b)) = 2
  BY <1>7, <1>9, SMT
<1>11. Way(<<>>, <<>>, Add(f, b)) = Cat(a, b)
  BY <1>8, <1>9
<1> QED
  BY <1>6, <1>7, <1>8, <1>9, <1>10, <1>11 DEF f, TwoFrames, AreChunkSeq

LEMMA SendFrames ==
    ASSUME FlattenLaws, NEW m \in Items, NEW a \in Items
    PROVE  /\ SendFrame(<<>>, m) = FirstFrame(One(m))
           /\ SendFrame(FirstFrame(One(m)), a) = TwoFrames(One(m), One(a))
<1>1. Capacity \in Nat /\ Capacity >= 2
  BY SizesAssumption
<1>2. SendFrame(<<>>, m) = FirstFrame(One(m))
  BY <1>1, SMT DEF SendFrame, One, FirstFrame, Add
<1>3. One(m) \in Seq(Items)
  BY OneItem
<1> DEFINE f == FirstFrame(One(m))
<1>4. Len(f) = 1
  BY <1>3, NewFrames
<1> HIDE DEF f
<1>5. Len(f) < Capacity
  BY <1>1, <1>4, SMT
<1>6. SendFrame(f, a) = Add(f, One(a))
  BY <1>5 DEF SendFrame, Add, One
<1> QED
  BY <1>2, <1>6 DEF f, TwoFrames

\* A stream starts with its hello on hop 1 and nothing else.
LEMMA StartPipes ==
    ASSUME FlattenLaws, NEW x, NEW hello \in Items, NEW stream, NEW usable, StartStream(x, hello, stream, usable)
    PROVE  /\ PipesOK'
           /\ UnderWay(1)' = One(hello) /\ UnderWay(2)' = <<>>
           /\ Len(out'[1]) <= 1 /\ out'[2] = <<>> /\ net'[2] = <<>> /\ overflow'[2] = <<>>
<1>1. Capacity \in Nat /\ Capacity >= 2
  BY SizesAssumption
<1>2. <<>> \in Seq(Seq(Items)) /\ <<>> \in Seq(Items) /\ Len(<<>>) = 0
  BY SMT
<1>4. One(hello) \in Seq(Items)
  BY OneItem
<1> DEFINE f == FirstFrame(One(hello))
<1>5. f \in Seq(Seq(Items)) /\ Len(f) = 1
  BY <1>4, NewFrames
<1>6. Way(<<>>, <<>>, f) = One(hello)
  BY <1>4, NewFrames
<1>7. /\ out' = [h \in Hops |-> IF h = 1 THEN f ELSE <<>>]
      /\ net' = [h \in Hops |-> <<>>] /\ overflow' = [h \in Hops |-> <<>>]
  BY SendFrames DEF StartStream
<1> HIDE DEF f
<1>8. 1 \in Hops /\ 2 \in Hops /\ 1 # 2 /\ \A h \in Hops : h = 1 \/ h = 2
  BY SMT DEF Hops
<1>9. /\ out'[1] = f /\ out'[2] = <<>>
      /\ net'[1] = <<>> /\ net'[2] = <<>> /\ overflow'[1] = <<>> /\ overflow'[2] = <<>>
  BY <1>7, <1>8
<1>10. out' \in [Hops -> Seq(Seq(Items))] /\ net' \in [Hops -> Seq(Items)] /\ overflow' \in [Hops -> Seq(Items)]
  BY <1>2, <1>5, <1>7
<1>11. \A h \in Hops : Len(out'[h]) <= Capacity
  <2>1. Len(out'[1]) <= Capacity
    <3>1. out'[1] = f
      BY <1>9
    <3>2. Len(f) <= Capacity
      BY <1>1, <1>5, SMT
    <3> QED
      BY <3>1, <3>2
  <2>2. Len(out'[2]) <= Capacity
    BY <1>1, <1>2, <1>9, SMT
  <2> QED
    BY <1>8, <2>1, <2>2
<1>12. UnderWay(1)' = One(hello)
  BY <1>6, <1>9, UnderWayIs
<1>13. UnderWay(2)' = <<>>
  BY <1>9, UnderWayIs, WayEmpty
<1>14. PipesOK'
  BY <1>10, <1>11 DEF PipesOK
<1>15. Len(out'[1]) <= 1
  <2>1. out'[1] = f
    BY <1>9
  <2>2. Len(f) <= 1
    BY <1>5, SMT
  <2> QED
    BY <2>1, <2>2
<1> QED
  BY <1>9, <1>12, <1>13, <1>14, <1>15

\* The relay starts the second stream with its prelude.
Prelude ==
    IF request.kind = "UserProxy" THEN One(Message("User", opener))
    ELSE Cat(One(Message("BuildConnectionToPeer", opener)),
             One(Message("InternetAddressInformation", Relay)))

LEMMA RelayOpensPipes ==
    ASSUME FlattenLaws, TypeOK, RelayOpens, out[2] = <<>>, net[2] = <<>>, overflow[2] = <<>>
    PROVE  PipesOK' /\ UnderWay(1)' = UnderWay(1) /\ UnderWay(2)' = Prelude /\ out'[1] = out[1]
<1>0. opener \in Ends
  BY SMT DEF TypeOK
<1> DEFINE m == IF request.kind = "UserProxy" THEN Message("User", opener)
                ELSE Message("BuildConnectionToPeer", opener)
           a == Message("InternetAddressInformation", Relay)
<1>1. m \in Items /\ a \in Items
  BY <1>0, Messages
<1>2. Capacity \in Nat /\ Capacity >= 2
  BY SizesAssumption
<1> DEFINE p == RelayPrelude(m)
           f == FirstFrame(One(m))
           g == TwoFrames(One(m), One(a))
<1>4. out' = [out EXCEPT ![2] = p] /\ net' = net /\ overflow' = overflow
  BY DEF RelayOpens, RelayHello, Writer
<1> HIDE DEF m, a
<1>5. One(m) \in Seq(Items) /\ One(a) \in Seq(Items)
  BY <1>1, OneItem
<1>6. f \in Seq(Seq(Items)) /\ Len(f) = 1 /\ Way(<<>>, <<>>, f) = One(m)
  BY <1>5, NewFrames
<1>7. g \in Seq(Seq(Items)) /\ Len(g) = 2 /\ Way(<<>>, <<>>, g) = Cat(One(m), One(a))
  BY <1>5, NewFrames
<1>8. SendFrame(<<>>, m) = f /\ SendFrame(f, a) = g
  BY <1>1, SendFrames
<1>10. p = IF request.kind = "UserProxy" THEN f ELSE g
  BY <1>8 DEF RelayPrelude, a
<1> HIDE DEF f, g, p
<1>11. p \in Seq(Seq(Items)) /\ Len(p) \in {1, 2}
  BY <1>6, <1>7, <1>10
<1>12. Way(<<>>, <<>>, p) = Prelude
  <2>1. CASE request.kind = "UserProxy"
    <3>1. m = Message("User", opener) /\ p = f
      BY <1>10, <2>1 DEF m
    <3> QED
      BY <1>6, <2>1, <3>1 DEF Prelude
  <2>2. CASE request.kind # "UserProxy"
    <3>1. m = Message("BuildConnectionToPeer", opener) /\ p = g
      BY <1>10, <2>2 DEF m
    <3> QED
      BY <1>7, <2>2, <3>1 DEF Prelude, a
  <2> QED
    BY <2>1, <2>2
<1>13. Len(p) <= Capacity
  <2>1. \A k \in {1, 2} : k <= Capacity
    BY <1>2, SMT
  <2> QED
    BY <1>11, <2>1
<1>14. 1 \in Hops /\ 2 \in Hops /\ 1 # 2 /\ \A h \in Hops : h = 1 \/ h = 2
  BY SMT DEF Hops
<1>15. out \in [Hops -> Seq(Seq(Items))] /\ \A h \in Hops : Len(out[h]) <= Capacity
  BY SMT DEF TypeOK
<1>16. out' \in [Hops -> Seq(Seq(Items))] /\ out'[1] = out[1] /\ out'[2] = p
  BY <1>4, <1>11, <1>14, <1>15
<1>17. \A h \in Hops : Len(out'[h]) <= Capacity
  BY <1>13, <1>14, <1>15, <1>16
<1>18. PipesOK'
  BY <1>4, <1>16, <1>17, SMT DEF PipesOK, TypeOK
<1>19. UnderWay(1)' = UnderWay(1)
  BY <1>4, <1>16, Steady
<1>20. UnderWay(2)' = Prelude
  BY <1>4, <1>12, <1>16, UnderWayIs
<1> QED
  BY <1>16, <1>18, <1>19, <1>20

\* The opener writes a datum, or the message that ends its protocol.
LEMMA WritePipes ==
    ASSUME FlattenLaws, TypeOK, Write
    PROVE  /\ PipesOK' /\ UnderWay(2)' = UnderWay(2)
           /\ sent' \in Seq(Data)
           /\ \E d \in Data : UnderWay(1)' = Cat(UnderWay(1), One(d)) /\ sent' = Cat(sent, One(d))
<1> DEFINE d == Datum(Len(sent) + 1)
<1>1. sent \in Seq(Data) /\ Len(sent) < MaxData
  BY SMT DEF TypeOK, Write
<1>2. Len(sent) + 1 \in 1..MaxData
  BY <1>1, SizesAssumption, SMT
<1>3. d \in Data /\ d \in Items
  BY <1>2, ItemFacts
<1>4. sent' = Append(sent, d) /\ out' = [out EXCEPT ![1] = Append(@, One(d))]
  BY DEF Write, One
<1> HIDE DEF d
<1>5. sent' \in Seq(Data) /\ sent' = Cat(sent, One(d))
  BY <1>1, <1>3, <1>4, SMT DEF Cat, One
<1>6. One(d) \in Seq(Items)
  BY <1>3, OneItem
<1>7. Len(out[1]) < Capacity /\ net' = net /\ overflow' = overflow
  BY DEF Write
<1>8. 1 \in Hops /\ 2 \in Hops /\ 1 # 2
  BY SMT DEF Hops
<1>9. /\ PipesOK' /\ UnderWay(1)' = Cat(UnderWay(1), One(d))
      /\ \A g \in Hops : g # 1 => UnderWay(g)' = UnderWay(g)
  BY <1>4, <1>6, <1>7, <1>8, WriteChunk
<1> QED
  BY <1>3, <1>5, <1>8, <1>9

LEMMA SwitchPipes ==
    ASSUME FlattenLaws, TypeOK, SwitchToProxy, Len(out[1]) <= 1
    PROVE  /\ PipesOK' /\ UnderWay(2)' = UnderWay(2) /\ out'[2] = out[2]
           /\ UnderWay(1)' = Cat(UnderWay(1), One(Message("ProxyConnection", "nobody")))
<1> DEFINE m == Message("ProxyConnection", "nobody")
<1>1. m \in Items
  BY Messages
<1>2. out' = [out EXCEPT ![1] = SendFrame(@, m)] /\ net' = net /\ overflow' = overflow
  BY DEF SwitchToProxy
<1> HIDE DEF m
<1>3. 1 \in Hops /\ 2 \in Hops /\ 1 # 2
  BY SMT DEF Hops
<1>4. out[1] \in Seq(Seq(Items))
  BY <1>3, SMT DEF TypeOK
<1>5. Len(out[1]) \in Nat
  BY <1>4, SMT
<1>6. Len(out[1]) < Capacity
  BY <1>5, SizesAssumption, SMT
<1>7. SendFrame(out[1], m) = Append(out[1], One(m))
  BY <1>6 DEF SendFrame, One
<1>8. out' = [out EXCEPT ![1] = Append(@, One(m))]
  BY <1>2, <1>7
<1>9. One(m) \in Seq(Items)
  BY <1>1, OneItem
<1>10. /\ PipesOK' /\ UnderWay(1)' = Cat(UnderWay(1), One(m))
       /\ \A g \in Hops : g # 1 => UnderWay(g)' = UnderWay(g) /\ out'[g] = out[g]
  BY <1>2, <1>3, <1>6, <1>8, <1>9, WriteChunk
<1> QED
  BY <1>3, <1>10 DEF m

LEMMA SamePipes ==
    ASSUME TypeOK, UNCHANGED pipes
    PROVE  PipesOK' /\ UnderWay(1)' = UnderWay(1) /\ UnderWay(2)' = UnderWay(2)
<1>1. out' = out /\ net' = net /\ overflow' = overflow
  BY DEF pipes
<1> QED
  BY <1>1, Steady, SMT DEF PipesOK, TypeOK

-----------------------------------------------------------------------------
(* The types of the other variables *)

LEMMA TypeSplit ==
    /\ TypeOK <=> ControlOK /\ PipesOK /\ received \in Seq(Data)
    /\ TypeOK' <=> ControlOK' /\ PipesOK' /\ received' \in Seq(Data)
  BY SMT DEF TypeOK, ControlOK, PipesOK, Connections

LEMMA HandleFacts ==
    /\ NoHandle \in Handles
    /\ \A p \in Peers \cup {"nobody"}, b \in BOOLEAN :
          [peer |-> p, proxy |-> b] \in Handles
    /\ \A f \in Handles : f.peer \in Peers \cup {"nobody"} /\ f.proxy \in BOOLEAN
    /\ Ends \subseteq Peers /\ Relay \in Peers
  BY DEF NoHandle, Handles, Ends, Peers, Relay

LEMMA StartControl ==
    ASSUME TypeOK, NEW x \in Ends, NEW hello \in Items, NEW stream \in Handles,
           NEW usable \in BOOLEAN, StartStream(x, hello, stream, usable)
    PROVE  ControlOK'
<1>1. opened' \in 0..MaxStreams
  BY SizesAssumption, SMT DEF StartStream, TypeOK
<1>2. handle' \in [Ends -> Handles]
  BY SMT DEF StartStream, TypeOK
<1>3. finished' \in [Hops -> BOOLEAN] /\ reader' \in [Hops -> Stages]
  BY DEF StartStream, Stages
<1>4. request' \in Items /\ incoming' \in Handles
  BY Messages, HandleFacts DEF StartStream
<1>5. sent' \in Seq(Data)
  BY SMT DEF StartStream
<1>6. /\ opener' \in Ends /\ ready' \in BOOLEAN
      /\ intact' \in BOOLEAN /\ eof' \in BOOLEAN
  BY DEF StartStream
<1>7. /\ proxied' \in BOOLEAN /\ up' \subseteq Connections
      /\ context' \in [Peers -> {"running", "ended", "dropped"}]
  BY SMT DEF StartStream, TypeOK, Connections
<1> QED
  BY <1>1, <1>2, <1>3, <1>4, <1>5, <1>6, <1>7 DEF ControlOK

LEMMA PollControl ==
    ASSUME FlattenLaws, TypeOK, StageInv, NEW h \in Hops, PollHello(h) \/ PollBuild(h)
    PROVE  ControlOK'
<1>1. /\ UNCHANGED <<proxied, up, opened, opener, handle, out, finished, context, ready,
                     sent, intact, eof>>
  BY DEF PollHello, PollBuild, dataVars
<1>2. reader' \in [Hops -> Stages] /\ request' \in Items /\ incoming' \in Handles
  <2>0. reader \in [Hops -> Stages] /\ request \in Items /\ incoming \in Handles
    BY SMT DEF TypeOK
  <2>1. CASE PollHello(h)
    <3>1. PICK chunk \in Chunks(h) :
            /\ ReadFrame(h, chunk)
            /\ \/ HelloUser(h, Head(chunk))
               \/ HelloProxy(h, Head(chunk))
               \/ HelloBuild(h, Head(chunk))
               \/ reader' = [reader EXCEPT ![h] = "over"] /\ UNCHANGED <<request, incoming>>
      BY <2>1 DEF PollHello
    <3> DEFINE x == Head(chunk)
    <3>2. x \in Items
      BY <1>1, <3>1, ReadFrameFacts
    <3>3. \/ HelloUser(h, x) \/ HelloProxy(h, x) \/ HelloBuild(h, x)
          \/ reader' = [reader EXCEPT ![h] = "over"] /\ UNCHANGED <<request, incoming>>
      BY <3>1
    <3> HIDE DEF x
    <3>4. CASE HelloUser(h, x)
      <4>1. x.peer \in Peers \cup {"nobody"}
        BY <3>2, <3>4, ItemFacts DEF HelloUser, IsData
      <4>2. [peer |-> x.peer, proxy |-> x.peer # Writer(h)] \in Handles
        BY <4>1, HandleFacts
      <4> QED
        BY <2>0, <3>4, <4>2 DEF HelloUser, PassStream, Stages
    <3>5. CASE HelloProxy(h, x)
      BY <2>0, <3>2, <3>5 DEF HelloProxy, Stages
    <3>6. CASE HelloBuild(h, x)
      BY <2>0, <3>2, <3>6 DEF HelloBuild, Stages
    <3>7. CASE reader' = [reader EXCEPT ![h] = "over"] /\ UNCHANGED <<request, incoming>>
      BY <2>0, <3>7 DEF Stages
    <3> QED
      BY <3>3, <3>4, <3>5, <3>6, <3>7
  <2>2. CASE PollBuild(h)
    <3>1. reader[h] = "building" /\ request' = request
      BY <2>2 DEF PollBuild
    <3>2. \/ UNCHANGED <<reader, incoming>>
          \/ PassStream(h, request.peer, TRUE)
          \/ reader' = [reader EXCEPT ![h] = "over"] /\ UNCHANGED incoming
      BY <2>2 DEF PollBuild
    <3>3. h = 2
      BY <3>1 DEF StageInv, HopsInv, Hops
    <3>4. request.peer \in Peers
      BY <3>1, <3>3, HandleFacts, SMT DEF StageInv, HopsInv, TypeOK, Message
    <3>5. [peer |-> request.peer, proxy |-> TRUE] \in Handles
      BY <3>4, HandleFacts
    <3> QED
      BY <2>0, <3>1, <3>2, <3>5 DEF PassStream, Stages
  <2> QED
    BY <2>1, <2>2
<1> QED
  BY <1>1, <1>2, TypeSplit DEF ControlOK

LEMMA ControlStep ==
    ASSUME FlattenLaws, TypeOK, StageInv, Next
    PROVE  ControlOK'
<1> USE DEF dataVars
<1>0. ControlOK
  BY TypeSplit
<1>r. ASSUME NEW h \in Hops, NEW stage \in Stages PROVE [reader EXCEPT ![h] = stage] \in [Hops -> Stages]
  BY <1>0 DEF ControlOK
<1>f. ASSUME NEW h \in Hops PROVE [finished EXCEPT ![h] = TRUE] \in [Hops -> BOOLEAN]
  BY <1>0 DEF ControlOK
<1>s. "over" \in Stages /\ "delivered" \in Stages /\ 1 \in Hops /\ 2 \in Hops
  BY DEF Stages, Hops
<1>1. ASSUME NEW x \in Ends, NewStream(x) PROVE ControlOK'
  <2> DEFINE p == handle[x].peer
  <2>1. p \in Ends
    BY <1>1 DEF NewStream
  <2>2. \/ StartStream(x, Message("UserProxy", p), [peer |-> p, proxy |-> TRUE], TRUE)
        \/ StartStream(x, Message("User", x), [peer |-> p, proxy |-> FALSE], TRUE)
    BY <1>1 DEF NewStream
  <2>3. /\ Message("UserProxy", p) \in Items /\ Message("User", x) \in Items
        /\ [peer |-> p, proxy |-> TRUE] \in Handles /\ [peer |-> p, proxy |-> FALSE] \in Handles
    BY <2>1, Messages, HandleFacts
  <2> HIDE DEF p
  <2> QED
    BY <2>2, <2>3, StartControl
<1>2. CASE NewProxyStream
  <2>1. "peer0" \in Ends /\ "peer2" \in Ends
    BY DEF Ends
  <2>2. Message("ProxyBuildConnectionToPeer", "peer2") \in Items /\ NoHandle \in Handles
    BY <2>1, Messages, HandleFacts
  <2>3. StartStream("peer0", Message("ProxyBuildConnectionToPeer", "peer2"), NoHandle, FALSE)
    BY <1>2 DEF NewProxyStream
  <2> QED
    BY <2>1, <2>2, <2>3, StartControl
<1>3. CASE Write
  <2>1. sent' \in Seq(Data)
    BY <1>3, WritePipes
  <2> QED
    BY <1>0, <1>3, <2>1 DEF Write, ControlOK
<1>4. CASE OpenerDrops
  <2>1. finished' \in [Hops -> BOOLEAN]
    BY <1>f, <1>s, <1>4 DEF OpenerDrops
  <2> QED
    BY <1>0, <1>4, <2>1 DEF OpenerDrops, ControlOK
<1>5. CASE SwitchToProxy
  <2>1. [peer |-> "peer2", proxy |-> TRUE] \in Handles
    BY DEF Handles, Peers, Ends
  <2> QED
    BY <1>0, <1>5, <2>1 DEF SwitchToProxy, ControlOK
<1>6. ASSUME NEW h \in Hops, HopStep(h) PROVE ControlOK'
  <2>1. CASE Transport(h)
    BY <1>0, <2>1 DEF Transport, ControlOK
  <2>2. CASE PollHello(h) \/ PollBuild(h)
    BY <2>2, PollControl
  <2>3. CASE HelloTimeout(h) \/ StreamDropped(h)
    <3>1. reader' \in [Hops -> Stages]
      BY <1>r, <1>s, <2>3 DEF HelloTimeout, StreamDropped
    <3> QED
      BY <1>0, <2>3, <3>1 DEF HelloTimeout, StreamDropped, ControlOK
  <2>4. CASE ContextPoll(h)
    BY <1>0, <2>4 DEF ContextPoll, ControlOK, Stages
  <2>5. CASE UserPoll(h) \/ \E size \in 1..BufSize : UserRead(h, size)
    BY <1>0, <2>5 DEF UserPoll, UserRead, ControlOK
  <2>6. CASE UserEof(h)
    BY <1>0, <2>6 DEF UserEof, ControlOK, Stages
  <2> QED
    BY <1>6, <2>1, <2>2, <2>3, <2>4, <2>5, <2>6 DEF HopStep
<1>7. CASE RelayOpens
  <2>1. reader \in [Hops -> Stages] /\ "relaying" \in Stages /\ "waiting" \in Stages
    BY <1>0 DEF ControlOK, Stages
  <2>2. [reader EXCEPT ![1] = "relaying", ![2] = "waiting"] \in [Hops -> Stages]
    BY <2>1
  <2> QED
    BY <1>0, <1>7, <2>2 DEF RelayOpens, ControlOK
<1>8. CASE RelayForward
  BY <1>0, <1>8 DEF RelayForward, ControlOK
<1>9. CASE RelayEnds
  <2>1. reader' \in [Hops -> Stages]
    BY <1>r, <1>s, <1>9 DEF RelayEnds
  <2>2. finished' \in [Hops -> BOOLEAN]
    BY <1>f, <1>s, <1>9 DEF RelayEnds
  <2>3. intact' \in BOOLEAN
    BY <1>9 DEF RelayEnds
  <2> QED
    BY <1>0, <1>9, <2>1, <2>2, <2>3 DEF RelayEnds, ControlOK
<1>10. ASSUME NEW c \in up, ConnectionLost(c) PROVE ControlOK'
  <2>1. up' \subseteq Connections
    BY <1>0, <1>10 DEF ConnectionLost, ControlOK
  <2>2. /\ UNCHANGED <<proxied, opened, opener, handle, finished, reader, request, incoming,
                       context, ready, sent, eof>>
        /\ intact' = FALSE
    BY <1>10 DEF ConnectionLost
  <2> QED
    BY <1>0, <2>1, <2>2 DEF ControlOK
<1>11. ASSUME NEW p \in Ends, ContextEnds(p) \/ ContextDropped(p) PROVE ControlOK'
  <2>1. context' \in [Peers -> {"running", "ended", "dropped"}]
    BY <1>0, <1>11, HandleFacts DEF ContextEnds, ContextDropped, ControlOK
  <2>2. reader' \in [Hops -> Stages]
    BY <1>0, <1>s, <1>11 DEF ContextEnds, ContextDropped, ControlOK
  <2>3. UNCHANGED <<proxied, up, opened, opener, handle, finished, request, incoming, ready,
                    sent, intact, eof>>
    BY <1>11 DEF ContextEnds, ContextDropped
  <2> QED
    BY <1>0, <2>1, <2>2, <2>3 DEF ControlOK
<1> QED
  BY <1>1, <1>2, <1>3, <1>4, <1>5, <1>6, <1>7, <1>8, <1>9, <1>10, <1>11 DEF Next

\* What the relay forwards stays in its place.
LEMMA ForwardPiped ==
    ASSUME FlattenLaws, TypeOK, RelayForward PROVE Piped' = Piped
<1>1. PICK c \in Seq(Items) : UnderWay(1) = Cat(c, UnderWay(1)') /\ UnderWay(2)' = Cat(UnderWay(2), c)
  BY RelayPipes
<1>2. UnderWay(1)' \in Seq(Items)
  BY RelayPipes
<1>3. UnderWay(2) \in Seq(Items)
  BY UnderWayType DEF Hops
<1>4. Cat(Cat(UnderWay(2), c), UnderWay(1)') = Cat(UnderWay(2), Cat(c, UnderWay(1)'))
  BY <1>2, <1>3, CatLaws, SMTT(20)
<1> QED
  BY <1>1, <1>4 DEF Piped

-----------------------------------------------------------------------------
(* Where data is *)

LEMMA DataCat ==
    ASSUME NEW S, NEW a \in Seq(S), NEW b \in Seq(S)
    PROVE  /\ HasData(Cat(a, b)) <=> HasData(a) \/ HasData(b)
           /\ AllData(Cat(a, b)) <=> AllData(a) /\ AllData(b)
           /\ DataLast(Cat(a, b)) <=> DataLast(a) /\ DataLast(b) /\ (HasData(a) => AllData(b))
<1> DEFINE s == Cat(a, b)
           m == Len(a)
           n == Len(b)
<1>1. /\ m \in Nat /\ n \in Nat /\ Len(s) = m + n
      /\ \A i \in 1..m : s[i] = a[i]
      /\ \A i \in 1..n : s[m + i] = b[i]
  BY CatItems, SMTT(20)
<1>2. /\ \A i \in 1..m : i \in 1..Len(s)
      /\ \A i \in 1..n : m + i \in 1..Len(s)
      /\ \A i \in 1..Len(s) : i \in 1..m \/ \E k \in 1..n : i = m + k
  <2>1. \A i \in 1..m : i \in 1..(m + n)
    BY <1>1, SMTT(20)
  <2>2. \A i \in 1..n : m + i \in 1..(m + n)
    BY <1>1, SMTT(20)
  <2>3. \A i \in 1..(m + n) : i \in 1..m \/ (i - m \in 1..n /\ i = m + (i - m))
    BY <1>1, SMTT(20)
  <2> QED
    BY <1>1, <2>1, <2>2, <2>3
<1> HIDE DEF s
<1>3. HasData(s) <=> HasData(a) \/ HasData(b)
  BY <1>1, <1>2 DEF HasData
<1>4. AllData(s) <=> AllData(a) /\ AllData(b)
  BY <1>1, <1>2 DEF AllData
<1>5. ASSUME DataLast(s) PROVE DataLast(a) /\ DataLast(b) /\ (HasData(a) => AllData(b))
  <2>1. DataLast(a)
    BY <1>1, <1>2, <1>5 DEF DataLast
  <2>2. DataLast(b)
    <3> SUFFICES ASSUME NEW i \in 1..n, NEW j \in 1..n, i < j, IsData(b[i]) PROVE IsData(b[j])
      BY DEF DataLast
    <3>1. m + i \in 1..Len(s) /\ m + j \in 1..Len(s) /\ m + i < m + j
      BY <1>1, <1>2, SMTT(20)
    <3> QED
      BY <1>1, <1>5, <3>1 DEF DataLast
  <2>3. ASSUME NEW i \in 1..m, IsData(a[i]), NEW j \in 1..n PROVE IsData(b[j])
    <3>1. i \in 1..Len(s) /\ m + j \in 1..Len(s) /\ i < m + j
      BY <1>1, <1>2, SMTT(20)
    <3> QED
      BY <1>1, <1>5, <2>3, <3>1 DEF DataLast
  <2> QED
    BY <2>1, <2>2, <2>3 DEF HasData, AllData
<1>6. ASSUME DataLast(a), DataLast(b), HasData(a) => AllData(b) PROVE DataLast(s)
  <2> SUFFICES ASSUME NEW i \in 1..Len(s), NEW j \in 1..Len(s), i < j, IsData(s[i]) PROVE IsData(s[j])
    BY DEF DataLast
  <2>1. CASE j \in 1..m
    <3>1. i \in 1..m
      BY <1>1, <2>1, SMTT(20)
    <3> QED
      BY <1>1, <1>6, <2>1, <3>1 DEF DataLast
  <2>2. ASSUME NEW k \in 1..n, j = m + k PROVE IsData(s[j])
    <3>1. s[j] = b[k]
      BY <1>1, <2>2
    <3>2. CASE i \in 1..m
      BY <1>1, <1>6, <3>1, <3>2 DEF HasData, AllData
    <3>3. ASSUME NEW l \in 1..n, i = m + l PROVE IsData(s[j])
      <4>1. s[i] = b[l]
        BY <1>1, <3>3
      <4>2. l < k
        BY <1>1, <2>2, <3>3, SMTT(20)
      <4> QED
        BY <1>6, <3>1, <4>1, <4>2 DEF DataLast
    <3> QED
      BY <1>2, <3>2, <3>3
  <2> QED
    BY <1>2, <2>1, <2>2
<1> QED
  BY <1>3, <1>4, <1>5, <1>6 DEF s

LEMMA DataOne ==
    ASSUME NEW S, NEW x \in S
    PROVE  /\ HasData(One(x)) <=> IsData(x)
           /\ AllData(One(x)) <=> IsData(x)
           /\ DataLast(One(x))
           /\ ~HasData(<<>>) /\ AllData(<<>>) /\ DataLast(<<>>)
<1>1. Len(One(x)) = 1 /\ One(x)[1] = x /\ Len(<<>>) = 0
  BY OneItem
<1>2. 1..Len(One(x)) = {1} /\ 1..Len(<<>>) = {}
  BY <1>1, SMTT(20)
<1> QED
  BY <1>1, <1>2 DEF HasData, AllData, DataLast

LEMMA DataSeq ==
    ASSUME NEW s \in Seq(Data) PROVE AllData(s) /\ DataLast(s) /\ s \in Seq(Items)
<1>1. \A i \in 1..Len(s) : s[i] \in Data
  BY SMTT(20)
<1>2. \A i \in 1..Len(s) : IsData(s[i])
  BY <1>1, ItemFacts
<1>3. s \in Seq(Items)
  BY Wider, ItemFacts
<1> QED
  BY <1>2, <1>3 DEF AllData, DataLast

\* What is left of a sequence has its data where the sequence has it.
LeftOf(s, t) ==
    /\ HasData(s) => HasData(t)
    /\ AllData(t) => AllData(s)
    /\ DataLast(t) => DataLast(s)

LEMMA LeftOfCat ==
    ASSUME NEW a \in Seq(Items), NEW b \in Seq(Items)
    PROVE  LeftOf(a, Cat(a, b)) /\ LeftOf(b, Cat(a, b)) /\ LeftOf(a, a)
  BY DataCat DEF LeftOf

LEMMA LeftOfBoth ==
    ASSUME NEW a \in Seq(Items), NEW b \in Seq(Items), NEW c \in Seq(Items), NEW d \in Seq(Items),
           LeftOf(a, c), LeftOf(b, d)
    PROVE  LeftOf(Cat(a, b), Cat(c, d))
<1>1. /\ HasData(Cat(a, b)) <=> HasData(a) \/ HasData(b)
      /\ AllData(Cat(a, b)) <=> AllData(a) /\ AllData(b)
      /\ DataLast(Cat(a, b)) <=> DataLast(a) /\ DataLast(b) /\ (HasData(a) => AllData(b))
  BY DataCat
<1>2. /\ HasData(Cat(c, d)) <=> HasData(c) \/ HasData(d)
      /\ AllData(Cat(c, d)) <=> AllData(c) /\ AllData(d)
      /\ DataLast(Cat(c, d)) <=> DataLast(c) /\ DataLast(d) /\ (HasData(c) => AllData(d))
  BY DataCat
<1> QED
  BY <1>1, <1>2 DEF LeftOf

\* Reading and losing leave data where it is.
LEMMA DataLeft ==
    ASSUME DataInv, UnderWay(1) \in Seq(Items), UnderWay(2) \in Seq(Items),
           UnderWay(1)' \in Seq(Items), UnderWay(2)' \in Seq(Items),
           LeftOf(UnderWay(1)', UnderWay(1)), LeftOf(UnderWay(2)', UnderWay(2)),
           ready' = ready
    PROVE  DataInv'
<1>1. Piped = Cat(UnderWay(2), UnderWay(1)) /\ Piped' = Cat(UnderWay(2)', UnderWay(1)')
  BY DEF Piped
<1>2. LeftOf(Piped', Piped)
  BY <1>1, LeftOfBoth
<1> QED
  BY <1>2 DEF DataInv, LeftOf

\* A read from a hop.
LEMMA DataRead ==
    ASSUME FlattenLaws, TypeOK, DataInv, NEW h \in Hops, NEW c \in Seq(Items), UnderWay(h) = Cat(c, UnderWay(h)'),
           UnderWay(h)' \in Seq(Items), \A g \in Hops : g # h => UnderWay(g)' = UnderWay(g),
           ready' = ready
    PROVE  DataInv'
<1>1. /\ UnderWay(1) \in Seq(Items) /\ UnderWay(2) \in Seq(Items)
  BY UnderWayType DEF Hops
<1>2. LeftOf(UnderWay(h)', UnderWay(h))
  BY LeftOfCat
<1>3. \A g \in Hops : g # h => LeftOf(UnderWay(g)', UnderWay(g)) /\ UnderWay(g)' \in Seq(Items)
  BY LeftOfCat, UnderWayType
<1>4. /\ UnderWay(1)' \in Seq(Items) /\ UnderWay(2)' \in Seq(Items)
      /\ LeftOf(UnderWay(1)', UnderWay(1)) /\ LeftOf(UnderWay(2)', UnderWay(2))
  BY <1>2, <1>3 DEF Hops
<1> QED
  BY <1>1, <1>4, DataLeft

LEMMA DataSame ==
    ASSUME DataInv, UnderWay(1)' = UnderWay(1), UnderWay(2)' = UnderWay(2), ready' = ready
    PROVE  DataInv'
<1>1. Piped' = Piped
  BY DEF Piped
<1> QED
  BY <1>1 DEF DataInv

LEMMA DataStart ==
    ASSUME UnderWay(2)' = <<>>, NEW hello \in Items, ~IsData(hello), UnderWay(1)' = One(hello)
    PROVE  DataInv'
<1>1. One(hello) \in Seq(Items)
  BY OneItem
<1>2. Piped' = One(hello)
  BY <1>1, CatLaws DEF Piped
<1>3. ~HasData(One(hello)) /\ DataLast(One(hello))
  BY DataOne
<1> QED
  BY <1>2, <1>3 DEF DataInv

\* A message that is not data, written before any data.
LEMMA DataMore ==
    ASSUME FlattenLaws, TypeOK, DataInv, NEW m \in Items, UnderWay(1)' = Cat(UnderWay(1), One(m)),
           UnderWay(2)' = UnderWay(2),
           IF ready THEN IsData(m) ELSE ~IsData(m), ready => ready'
    PROVE  DataInv'
<1>1. UnderWay(1) \in Seq(Items) /\ UnderWay(2) \in Seq(Items) /\ One(m) \in Seq(Items)
  BY UnderWayType, OneItem DEF Hops
<1>2. Piped \in Seq(Items) /\ Piped' = Cat(Piped, One(m))
  BY <1>1, CatLaws, SMTT(20) DEF Piped
<1>3. /\ HasData(Piped') <=> HasData(Piped) \/ HasData(One(m))
      /\ DataLast(Piped') <=> DataLast(Piped) /\ DataLast(One(m)) /\ (HasData(Piped) => AllData(One(m)))
  BY <1>1, <1>2, DataCat
<1>4. DataLast(One(m)) /\ (HasData(One(m)) <=> IsData(m)) /\ (AllData(One(m)) <=> IsData(m))
  BY DataOne
<1> QED
  BY <1>3, <1>4 DEF DataInv

\* The prelude of the relay is messages of the protocol.
LEMMA PreludeFacts ==
    ASSUME TypeOK PROVE Prelude \in Seq(Items) /\ ~HasData(Prelude) /\ DataLast(Prelude)
<1> DEFINE u == Message("User", opener)
           b == Message("BuildConnectionToPeer", opener)
           a == Message("InternetAddressInformation", Relay)
<1>1. opener \in Ends
  BY SMTT(20) DEF TypeOK
<1>2. u \in Items /\ b \in Items /\ a \in Items
  BY <1>1, Messages
<1>3. ~IsData(u) /\ ~IsData(b) /\ ~IsData(a)
  BY DEF IsData, Message
<1>4. Prelude = IF request.kind = "UserProxy" THEN One(u) ELSE Cat(One(b), One(a))
  BY DEF Prelude
<1> HIDE DEF u, b, a
<1>5. One(u) \in Seq(Items) /\ One(b) \in Seq(Items) /\ One(a) \in Seq(Items)
  BY <1>2, OneItem
<1>6. /\ ~HasData(One(u)) /\ DataLast(One(u)) /\ ~HasData(One(b)) /\ DataLast(One(b))
      /\ ~HasData(One(a)) /\ DataLast(One(a))
  BY <1>2, <1>3, DataOne
<1>7. Cat(One(b), One(a)) \in Seq(Items)
  BY <1>5, CatLaws
<1>8. ~HasData(Cat(One(b), One(a))) /\ DataLast(Cat(One(b), One(a)))
  BY <1>5, <1>6, DataCat
<1> QED
  BY <1>4, <1>5, <1>6, <1>7, <1>8

\* Data is last after every step.
LEMMA DataStep ==
    ASSUME FlattenLaws, TypeOK, StageInv, DataInv, Next
    PROVE  DataInv'
<1> USE DEF dataVars
<1>0. 1 \in Hops /\ 2 \in Hops /\ 1 # 2 /\ UnderWay(1) \in Seq(Items) /\ UnderWay(2) \in Seq(Items)
  BY UnderWayType, SMTT(20) DEF Hops
<1>1. ASSUME NEW x \in Ends, NewStream(x) PROVE DataInv'
  <2> DEFINE p == handle[x].peer
  <2>1. p \in Ends
    BY <1>1 DEF NewStream
  <2>2. PICK hello \in {Message("UserProxy", p), Message("User", x)} :
           \E stream : StartStream(x, hello, stream, TRUE)
    BY <1>1 DEF NewStream
  <2>3. hello \in Items /\ ~IsData(hello)
    <3>1. /\ Message("UserProxy", p) \in Items /\ Message("User", x) \in Items
          /\ ~IsData(Message("UserProxy", p)) /\ ~IsData(Message("User", x))
      BY <2>1, Messages DEF IsData, Message
    <3> QED
      BY <2>2, <3>1
  <2>4. UnderWay(1)' = One(hello) /\ UnderWay(2)' = <<>>
    BY <2>2, <2>3, StartPipes
  <2> QED
    BY <2>3, <2>4, DataStart
<1>2. CASE NewProxyStream
  <2> DEFINE hello == Message("ProxyBuildConnectionToPeer", "peer2")
  <2>1. hello \in Items /\ ~IsData(hello)
    BY Messages DEF IsData, Message, Ends
  <2>2. StartStream("peer0", hello, NoHandle, FALSE)
    BY <1>2 DEF NewProxyStream
  <2> HIDE DEF hello
  <2>3. UnderWay(1)' = One(hello) /\ UnderWay(2)' = <<>>
    BY <2>1, <2>2, StartPipes
  <2> QED
    BY <2>1, <2>3, DataStart
<1>3. CASE Write
  <2>1. PICK d \in Data : UnderWay(1)' = Cat(UnderWay(1), One(d))
    BY <1>3, WritePipes
  <2>2. UnderWay(2)' = UnderWay(2) /\ ready /\ ready'
    BY <1>3, WritePipes DEF Write
  <2>3. d \in Items /\ IsData(d)
    BY ItemFacts
  <2> QED
    BY <2>1, <2>2, <2>3, DataMore
<1>4. CASE SwitchToProxy
  <2> DEFINE m == Message("ProxyConnection", "nobody")
  <2>1. m \in Items /\ ~IsData(m)
    BY Messages DEF IsData, Message
  <2>2. ~ready /\ Len(out[1]) <= 1
    BY <1>4 DEF SwitchToProxy, StageInv, PipeInv
  <2>3. UnderWay(1)' = Cat(UnderWay(1), One(m)) /\ UnderWay(2)' = UnderWay(2)
    BY <1>4, <2>2, SwitchPipes
  <2> HIDE DEF m
  <2> QED
    BY <2>1, <2>2, <2>3, DataMore
<1>5. ASSUME UNCHANGED pipes, UNCHANGED ready PROVE DataInv'
  BY <1>5, SamePipes, DataSame
<1>6. ASSUME NEW h \in Hops, HopStep(h) PROVE DataInv'
  <2>1. CASE Transport(h)
    <3>1. ready' = ready
      BY <2>1 DEF Transport
    <3>2. \A g \in Hops : UnderWay(g)' = UnderWay(g)
      BY <2>1, TransportPipes
    <3> QED
      BY <1>0, <3>1, <3>2, DataSame
  <2>2. CASE PollHello(h) \/ PollBuild(h)
    <3>1. PICK chunk \in Chunks(h) : ReadFrame(h, chunk)
      BY <2>2 DEF PollHello, PollBuild
    <3>2. out' = out /\ ready' = ready
      BY <2>2 DEF PollHello, PollBuild
    <3> DEFINE x == Head(chunk)
    <3>3. /\ x \in Items /\ UnderWay(h) = Cat(One(x), UnderWay(h)') /\ UnderWay(h)' \in Seq(Items)
          /\ \A g \in Hops : g # h => UnderWay(g)' = UnderWay(g)
      BY <3>1, <3>2, ReadFrameFacts
    <3> HIDE DEF x
    <3>4. One(x) \in Seq(Items)
      BY <3>3, OneItem
    <3> QED
      BY <3>2, <3>3, <3>4, DataRead
  <2>3. CASE UserPoll(h) \/ \E size \in 1..BufSize : UserRead(h, size)
    <3>1. PICK c \in Seq(Items) : UnderWay(h) = Cat(c, UnderWay(h)')
      BY <2>3, UserReads
    <3>2. PipesOK' /\ \A g \in Hops : g # h => UnderWay(g)' = UnderWay(g)
      BY <2>3, UserReads
    <3>3. UnderWay(h)' \in Seq(Items)
      BY <3>2, PipesUnderWay
    <3>4. ready' = ready
      BY <2>3 DEF UserPoll, UserRead
    <3> QED
      BY <3>1, <3>2, <3>3, <3>4, DataRead
  <2>4. CASE HelloTimeout(h) \/ ContextPoll(h) \/ UserEof(h) \/ StreamDropped(h)
    <3>1. UNCHANGED pipes /\ UNCHANGED ready
      BY <2>4 DEF HelloTimeout, ContextPoll, UserEof, StreamDropped
    <3> QED
      BY <1>5, <3>1
  <2> QED
    BY <1>6, <2>1, <2>2, <2>3, <2>4 DEF HopStep
<1>7. CASE RelayOpens
  <2>1. reader[1] = "opening" /\ ready' = ready
    BY <1>7 DEF RelayOpens
  <2>2. out[2] = <<>> /\ net[2] = <<>> /\ overflow[2] = <<>>
    BY <2>1 DEF StageInv, HopsInv, PipeInv
  <2>3. UnderWay(2) = <<>>
    BY <2>2, UnderWayIs, WayEmpty
  <2>4. UnderWay(1)' = UnderWay(1) /\ UnderWay(2)' = Prelude
    BY <1>7, <2>2, RelayOpensPipes
  <2>5. Piped = UnderWay(1) /\ Piped' = Cat(Prelude, UnderWay(1))
    BY <1>0, <2>3, <2>4, CatLaws DEF Piped
  <2>6. Prelude \in Seq(Items) /\ ~HasData(Prelude) /\ DataLast(Prelude)
    BY PreludeFacts
  <2>7. /\ HasData(Piped') <=> HasData(Prelude) \/ HasData(UnderWay(1))
        /\ DataLast(Piped') <=> DataLast(Prelude) /\ DataLast(UnderWay(1))
                                /\ (HasData(Prelude) => AllData(UnderWay(1)))
    BY <1>0, <2>5, <2>6, DataCat
  <2> QED
    BY <2>1, <2>5, <2>6, <2>7 DEF DataInv
<1>8. CASE RelayForward
  <2>1. Piped' = Piped
    BY <1>8, ForwardPiped
  <2>2. ready' = ready
    BY <1>8 DEF RelayForward
  <2> QED
    BY <2>1, <2>2 DEF DataInv
<1>9. ASSUME NEW c \in up, ConnectionLost(c) PROVE DataInv'
  <2>1. ready' = ready
    BY <1>9 DEF ConnectionLost
  <2>2. \A h \in Hops : UnderWay(h)' \in Seq(Items) /\ LeftOf(UnderWay(h)', UnderWay(h))
    <3> SUFFICES ASSUME NEW h \in Hops
                 PROVE  UnderWay(h)' \in Seq(Items) /\ LeftOf(UnderWay(h)', UnderWay(h))
      OBVIOUS
    <3>1. UnderWay(h)' \in Seq(Items)
      BY <1>9, LostPipes
    <3>2. PICK w \in Seq(Items) : UnderWay(h) = Cat(UnderWay(h)', w)
      BY <1>9, LostPipes
    <3> QED
      BY <3>1, <3>2, LeftOfCat
  <2> QED
    BY <1>0, <2>1, <2>2, DataLeft
<1>10. CASE OpenerDrops \/ RelayEnds \/ \E p \in Ends : ContextEnds(p) \/ ContextDropped(p)
  <2>1. UNCHANGED pipes /\ UNCHANGED ready
    BY <1>10 DEF OpenerDrops, RelayEnds, ContextEnds, ContextDropped
  <2> QED
    BY <1>5, <2>1
<1> QED
  BY <1>1, <1>2, <1>3, <1>4, <1>6, <1>7, <1>8, <1>9, <1>10 DEF Next

-----------------------------------------------------------------------------
(* What comes first on a hop *)

Direct == Message("User", opener)
Build == Message("BuildConnectionToPeer", opener)
Proxy == Message("ProxyConnection", "nobody")

LEMMA ProtoItems ==
    ASSUME TypeOK
    PROVE  /\ Direct \in Items /\ Build \in Items /\ Proxy \in Items /\ Address \in Items /\ Hello \in Items
           /\ One(Direct) \in Seq(Items) /\ One(Build) \in Seq(Items) /\ One(Proxy) \in Seq(Items)
           /\ One(Address) \in Seq(Items) /\ One(Hello) \in Seq(Items) /\ Switch \in Seq(Items)
           /\ Cat(One(Address), Switch) \in Seq(Items) /\ <<>> \in Seq(Items)
<1>1. opener \in Ends /\ OtherEnd(opener) \in Ends /\ "peer2" \in Ends
  BY SMTT(20) DEF TypeOK, Ends, OtherEnd
<1>2. Direct \in Items /\ Build \in Items /\ Proxy \in Items /\ Address \in Items
  BY <1>1, Messages DEF Direct, Build, Proxy, Address
<1>3. Hello \in Items
  BY <1>1, Messages DEF Hello
<1>4. /\ One(Direct) \in Seq(Items) /\ One(Build) \in Seq(Items) /\ One(Proxy) \in Seq(Items)
      /\ One(Address) \in Seq(Items) /\ One(Hello) \in Seq(Items) /\ <<>> \in Seq(Items)
  BY <1>2, <1>3, OneItem, SMTT(20)
<1>5. Switch \in Seq(Items)
  BY <1>4 DEF Switch, Proxy
<1>6. Cat(One(Address), Switch) \in Seq(Items)
  BY <1>4, <1>5, CatLaws
<1> QED
  BY <1>2, <1>3, <1>4, <1>5, <1>6

\* Nothing is on hop 2 before it is there.
LEMMA HopTwoEmpty ==
    ASSUME FlattenLaws, TypeOK, StageInv, reader[2] = "none"
    PROVE  UnderWay(2) = <<>> /\ Piped = UnderWay(1)
<1>1. out[2] = <<>> /\ net[2] = <<>> /\ overflow[2] = <<>>
  BY DEF StageInv, PipeInv
<1>2. UnderWay(2) = <<>>
  BY <1>1, UnderWayIs, WayEmpty
<1>3. UnderWay(1) \in Seq(Items)
  BY UnderWayType DEF Hops
<1> QED
  BY <1>2, <1>3, CatLaws DEF Piped

\* What the far end reads is what it expects.
LEMMA Expected ==
    ASSUME FlattenLaws, TypeOK, StageInv, NEW e \in Seq(Items), Flow(e), NEW h \in Hops,
           reader[h] \in {"waiting", "building", "passed", "delivered"},
           NEW c \in Seq(Items), NEW u \in Seq(Items), UnderWay(h) = Cat(c, u)
    PROVE  \E r \in Seq(Items) : e = Cat(c, r)
<1>1. Prefix(UnderWay(h), e)
  <2>1. CASE h = 1
    <3>1. reader[2] = "none" /\ reader[1] # "over" /\ reader[1] # "relaying"
      BY <2>1 DEF StageInv, HopsInv
    <3>2. Prefix(Piped, e)
      BY <3>1 DEF Flow
    <3> QED
      BY <2>1, <3>1, <3>2, HopTwoEmpty
  <2>2. CASE h = 2
    BY <2>2 DEF Flow
  <2> QED
    BY <2>1, <2>2 DEF Hops
<1>2. \E r \in Seq(Items) : e = Cat(c, r) /\ Prefix(u, r)
  BY <1>1, PrefixCut
<1> QED
  BY <1>2

LEMMA ProtoFirst ==
    ASSUME FlattenLaws, TypeOK, StageInv, NEW y \in Items, NEW p \in Seq(Items), NEW rest \in Seq(Items),
           Flow(Cat(Cat(One(y), p), rest)), NEW h \in Hops,
           reader[h] \in {"waiting", "building", "delivered"},
           NEW x \in Items, NEW u \in Seq(Items), UnderWay(h) = Cat(One(x), u)
    PROVE  x = y /\ Cat(Cat(One(y), p), rest) = Cat(One(x), Cat(p, rest))
<1> DEFINE e == Cat(Cat(One(y), p), rest)
<1>1. One(y) \in Seq(Items) /\ One(x) \in Seq(Items)
  BY OneItem
<1>2. e = Cat(One(y), Cat(p, rest)) /\ Cat(p, rest) \in Seq(Items)
  BY <1>1, CatLaws, SMTT(20)
<1>3. Cat(One(y), Cat(p, rest)) \in Seq(Items)
  BY <1>1, <1>2, CatLaws
<1>4. e \in Seq(Items) /\ Flow(e)
  BY <1>2, <1>3
<1> HIDE DEF e
<1>5. PICK r \in Seq(Items) : e = Cat(One(x), r)
  BY <1>1, <1>4, Expected, SMTT(20)
<1>6. Cat(One(y), Cat(p, rest)) = Cat(One(x), r)
  BY <1>2, <1>5
<1>7. y = x
  BY <1>2, <1>6, ConsCancel
<1> QED
  BY <1>2, <1>7 DEF e

\* The first message on hop 1.
LEMMA ReadsHello ==
    ASSUME FlattenLaws, TypeOK, StageInv, NEW proto \in Seq(Items), NEW rest \in Seq(Items), Ahead(proto),
           Flow(Cat(proto, rest)), reader[1] = "waiting",
           NEW x \in Items, NEW u \in Seq(Items), UnderWay(1) = Cat(One(x), u)
    PROVE  x = Hello /\ Cat(proto, rest) = Cat(One(x), rest)
<1>1. proto = One(Hello)
  BY DEF Ahead
<1>2. Hello \in Items /\ One(Hello) \in Seq(Items) /\ <<>> \in Seq(Items)
  BY ProtoItems
<1>3. Cat(One(Hello), <<>>) = One(Hello)
  BY <1>2, CatLaws
<1>4. Flow(Cat(Cat(One(Hello), <<>>), rest))
  BY <1>1, <1>3
<1>5. 1 \in Hops
  BY DEF Hops
<1> DEFINE p == <<>>
<1>6. p \in Seq(Items) /\ Flow(Cat(Cat(One(Hello), p), rest)) /\ reader[1] \in {"waiting", "building", "delivered"}
  BY <1>2, <1>4
<1> HIDE DEF p
<1>7. x = Hello
  BY <1>2, <1>5, <1>6, ProtoFirst, SMTT(20)
<1> QED
  BY <1>1, <1>7

\* The first message on hop 2.
LEMMA ReadsRelayed ==
    ASSUME FlattenLaws, TypeOK, StageInv, NEW proto \in Seq(Items), NEW rest \in Seq(Items), Ahead(proto),
           Flow(Cat(proto, rest)), reader[2] = "waiting",
           NEW x \in Items, NEW u \in Seq(Items), UnderWay(2) = Cat(One(x), u)
    PROVE  IF request.kind = "UserProxy"
           THEN x = Direct /\ Cat(proto, rest) = Cat(One(x), rest)
           ELSE x = Build /\ Cat(proto, rest) = Cat(One(x), Cat(Cat(One(Address), Switch), rest))
<1>1. 2 \in Hops /\ reader[2] \in {"waiting", "building", "delivered"}
  BY DEF Hops
<1>2. CASE request.kind = "UserProxy"
  <2>1. proto = One(Direct)
    BY <1>2 DEF Ahead, Direct
  <2> DEFINE p == <<>>
  <2>2. Direct \in Items /\ One(Direct) \in Seq(Items) /\ p \in Seq(Items)
    BY ProtoItems
  <2>3. Cat(One(Direct), p) = One(Direct)
    BY <2>2, CatLaws
  <2>4. Flow(Cat(Cat(One(Direct), p), rest))
    BY <2>1, <2>3
  <2> HIDE DEF p
  <2>5. x = Direct
    BY <1>1, <2>2, <2>4, ProtoFirst, SMTT(20)
  <2> QED
    BY <1>2, <2>1, <2>5
<1>3. CASE request.kind # "UserProxy"
  <2> DEFINE p == Cat(One(Address), Switch)
  <2>1. /\ Build \in Items /\ One(Build) \in Seq(Items) /\ One(Address) \in Seq(Items)
        /\ Switch \in Seq(Items) /\ p \in Seq(Items)
    BY ProtoItems
  <2>2. proto = Cat(Cat(One(Build), One(Address)), Switch)
    BY <1>3 DEF Ahead, Build
  <2>3. proto = Cat(One(Build), p)
    BY <2>1, <2>2, CatLaws, SMTT(20)
  <2> HIDE DEF p
  <2>4. Flow(Cat(Cat(One(Build), p), rest))
    BY <2>3
  <2>5. x = Build /\ Cat(Cat(One(Build), p), rest) = Cat(One(x), Cat(p, rest))
    BY <1>1, <2>1, <2>4, ProtoFirst, SMTT(20)
  <2> QED
    BY <1>3, <2>3, <2>5 DEF p
<1> QED
  BY <1>2, <1>3

\* The messages of BuildConnectionToPeerRemote.
LEMMA ReadsBuild ==
    ASSUME FlattenLaws, TypeOK, StageInv, NEW proto \in Seq(Items), NEW rest \in Seq(Data), Ahead(proto),
           Cat(received, rest) = sent, Flow(Cat(proto, rest)), reader[2] = "building",
           NEW x \in Items, NEW u \in Seq(Items), UnderWay(2) = Cat(One(x), u)
    PROVE  \/ x = Address /\ Cat(proto, rest) = Cat(One(x), Cat(Switch, rest))
           \/ x = Proxy /\ ready /\ Cat(proto, rest) = Cat(One(x), rest)
<1>1. 2 \in Hops /\ reader[2] \in {"waiting", "building", "delivered"}
  BY DEF Hops
<1>2. rest \in Seq(Items)
  BY DataSeq
<1>3. proto = Cat(One(Address), Switch) \/ proto = Switch
  BY DEF Ahead
<1>4. CASE proto = Cat(One(Address), Switch)
  <2>1. Address \in Items /\ Switch \in Seq(Items)
    BY ProtoItems
  <2>2. Flow(Cat(Cat(One(Address), Switch), rest))
    BY <1>4
  <2>3. x = Address /\ Cat(Cat(One(Address), Switch), rest) = Cat(One(x), Cat(Switch, rest))
    BY <1>1, <1>2, <2>1, <2>2, ProtoFirst, SMTT(20)
  <2> QED
    BY <1>4, <2>3
<1>5. CASE proto = Switch /\ ready
  <2>1. proto = One(Proxy)
    BY <1>5 DEF Switch, Proxy
  <2> DEFINE p == <<>>
  <2>2. Proxy \in Items /\ One(Proxy) \in Seq(Items) /\ p \in Seq(Items)
    BY ProtoItems
  <2>3. Cat(One(Proxy), p) = One(Proxy)
    BY <2>2, CatLaws
  <2>4. Flow(Cat(Cat(One(Proxy), p), rest))
    BY <2>1, <2>3
  <2> HIDE DEF p
  <2>5. x = Proxy
    BY <1>1, <1>2, <2>2, <2>4, ProtoFirst, SMTT(20)
  <2> QED
    BY <1>5, <2>1, <2>5
<1>6. CASE proto = Switch /\ ~ready
  <2>1. proto = <<>> /\ sent = <<>>
    BY <1>6 DEF Switch, StageInv, PipeInv
  <2>2. received \in Seq(Data)
    BY SMTT(20) DEF TypeOK
  <2>3. rest = <<>>
    BY <2>1, <2>2, CatLaws, SMTT(20)
  <2> DEFINE e == <<>>
  <2>4. e \in Seq(Items) /\ Cat(e, e) = e
    BY ProtoItems, CatLaws
  <2>5. Flow(e)
    BY <2>1, <2>3, <2>4
  <2> HIDE DEF e
  <2>6. One(x) \in Seq(Items)
    BY OneItem
  <2>7. PICK r \in Seq(Items) : e = Cat(One(x), r)
    BY <1>1, <2>4, <2>5, <2>6, Expected, SMTT(20)
  <2>8. One(x) = <<>>
    BY <2>6, <2>7, CatLaws, SMTT(20) DEF e
  <2> QED
    BY <2>8, OneItem
<1> QED
  BY <1>3, <1>4, <1>5, <1>6

-----------------------------------------------------------------------------
(* What becomes of a hop when a frame is read *)

LEMMA FrameRead ==
    ASSUME FlattenLaws, TypeOK, NEW h \in Hops, NEW chunk \in Chunks(h), ReadFrame(h, chunk), out' = out
    PROVE  \E u \in Seq(Items) : Head(chunk) \in Items /\ UnderWay(h) = Cat(One(Head(chunk)), u)
  BY ReadFrameFacts

LEMMA Kind ==
    /\ Direct.kind = "User" /\ Direct.peer = opener
    /\ Build.kind = "BuildConnectionToPeer"
    /\ Address.kind = "InternetAddressInformation" /\ Proxy.kind = "ProxyConnection"
    /\ ~proxied => Hello = Direct
    /\ proxied => Hello.kind = IF ready THEN "UserProxy" ELSE "ProxyBuildConnectionToPeer"
  BY DEF Direct, Build, Address, Proxy, Hello, Message

LEMMA FlowPick ==
    ASSUME FlowInv
    PROVE  \E proto \in Seq(Items), rest \in Seq(Data) :
              /\ rest \in Seq(Items) /\ Cat(received, rest) = sent
              /\ Ahead(proto) /\ Flow(Cat(proto, rest))
  BY DataSeq DEF FlowInv

LEMMA HelloOutcome ==
    ASSUME FlattenLaws, TypeOK, StageInv, FlowInv, PollHello(1)
    PROVE  /\ reader'[2] = reader[2] /\ reader[2] = "none"
           /\ IF proxied
              THEN reader'[1] \in {"opening", "over"} /\ request' = Hello /\ incoming' = incoming
              ELSE /\ reader'[1] \in {"passed", "over"} /\ request' = request
                   /\ incoming' = [peer |-> opener, proxy |-> FALSE] \/ reader'[1] = "over"
<1>0. 1 \in Hops /\ 2 \in Hops /\ 1 # 2 /\ reader \in [Hops -> Stages]
  BY SMTT(20) DEF TypeOK, Hops
<1>1. reader[1] = "waiting" /\ reader[2] = "none" /\ out' = out
  BY DEF PollHello, StageInv, HopsInv
<1>2. PICK chunk \in Chunks(1) :
         /\ ReadFrame(1, chunk)
         /\ \/ HelloUser(1, Head(chunk))
            \/ HelloProxy(1, Head(chunk))
            \/ HelloBuild(1, Head(chunk))
            \/ Head(chunk).kind \in {"data", "ProxyConnection", "InternetAddressInformation"}
  BY DEF PollHello
<1> DEFINE x == Head(chunk)
<1>3. PICK u \in Seq(Items) : x \in Items /\ UnderWay(1) = Cat(One(x), u)
  BY <1>0, <1>1, <1>2, FrameRead
<1>4. \/ HelloUser(1, x) \/ HelloProxy(1, x) \/ HelloBuild(1, x)
      \/ x.kind \in {"data", "ProxyConnection", "InternetAddressInformation"}
  BY <1>2
<1> HIDE DEF x
<1>5. x = Hello
  <2>1. PICK proto \in Seq(Items), rest \in Seq(Data) :
           rest \in Seq(Items) /\ Ahead(proto) /\ Flow(Cat(proto, rest))
    BY FlowPick
  <2> QED
    BY <1>1, <1>3, <2>1, ReadsHello
<1>6. CASE proxied
  <2>1. x.kind \in {"UserProxy", "ProxyBuildConnectionToPeer"}
    BY <1>5, <1>6, Kind
  <2>2. HelloProxy(1, x)
    BY <1>4, <2>1 DEF HelloUser, HelloBuild
  <2> QED
    BY <1>0, <1>1, <1>5, <1>6, <2>2 DEF HelloProxy
<1>7. CASE ~proxied
  <2>1. x.kind = "User" /\ x.peer = opener
    BY <1>5, <1>7, Kind
  <2>2. HelloUser(1, x)
    BY <1>4, <2>1 DEF HelloProxy, HelloBuild
  <2> QED
    BY <1>0, <1>1, <1>7, <2>1, <2>2 DEF HelloUser, PassStream, Writer
<1> QED
  BY <1>6, <1>7

LEMMA RelayedOutcome ==
    ASSUME FlattenLaws, TypeOK, StageInv, FlowInv, PollHello(2)
    PROVE  /\ reader'[1] = reader[1]
           /\ IF request.kind = "UserProxy"
              THEN /\ reader'[2] \in {"passed", "over"} /\ request' = request
                   /\ incoming' = [peer |-> opener, proxy |-> TRUE] \/ reader'[2] = "over"
              ELSE reader'[2] = "building" /\ request' = Build /\ incoming' = incoming
<1>0. 1 \in Hops /\ 2 \in Hops /\ 1 # 2 /\ reader \in [Hops -> Stages] /\ opener # Relay
  BY SMTT(20) DEF TypeOK, Hops, Ends, Relay
<1>1. reader[2] = "waiting" /\ out' = out
  BY DEF PollHello
<1>2. PICK chunk \in Chunks(2) :
         /\ ReadFrame(2, chunk)
         /\ \/ HelloUser(2, Head(chunk))
            \/ HelloProxy(2, Head(chunk))
            \/ HelloBuild(2, Head(chunk))
            \/ Head(chunk).kind \in {"data", "ProxyConnection", "InternetAddressInformation"}
  BY DEF PollHello
<1> DEFINE x == Head(chunk)
<1>3. PICK u \in Seq(Items) : x \in Items /\ UnderWay(2) = Cat(One(x), u)
  BY <1>0, <1>1, <1>2, FrameRead
<1>4. \/ HelloUser(2, x) \/ HelloProxy(2, x) \/ HelloBuild(2, x)
      \/ x.kind \in {"data", "ProxyConnection", "InternetAddressInformation"}
  BY <1>2
<1> HIDE DEF x
<1>5. x = IF request.kind = "UserProxy" THEN Direct ELSE Build
  <2>1. PICK proto \in Seq(Items), rest \in Seq(Data) :
           rest \in Seq(Items) /\ Ahead(proto) /\ Flow(Cat(proto, rest))
    BY FlowPick
  <2> QED
    BY <1>1, <1>3, <2>1, ReadsRelayed
<1>6. CASE request.kind = "UserProxy"
  <2>1. x.kind = "User" /\ x.peer = opener
    BY <1>5, <1>6, Kind
  <2>2. HelloUser(2, x)
    BY <1>4, <2>1 DEF HelloProxy, HelloBuild
  <2>3. x.peer # Writer(2)
    BY <1>0, <2>1 DEF Writer
  <2> QED
    BY <1>0, <1>6, <2>1, <2>2, <2>3 DEF HelloUser, PassStream
<1>7. CASE request.kind # "UserProxy"
  <2>1. x = Build /\ x.kind = "BuildConnectionToPeer"
    BY <1>5, <1>7, Kind
  <2>2. HelloBuild(2, x)
    BY <1>4, <2>1 DEF HelloProxy, HelloUser
  <2> QED
    BY <1>0, <1>7, <2>1, <2>2 DEF HelloBuild
<1> QED
  BY <1>6, <1>7

LEMMA BuildOutcome ==
    ASSUME FlattenLaws, TypeOK, StageInv, FlowInv, NEW h \in Hops, PollBuild(h)
    PROVE  /\ h = 2 /\ reader[2] = "building" /\ reader'[1] = reader[1] /\ request' = request
           /\ \/ reader'[2] = "building" /\ incoming' = incoming
              \/ reader'[2] = "over" /\ incoming' = incoming
              \/ /\ reader'[2] = "passed" /\ ready
                 /\ incoming' = [peer |-> opener, proxy |-> TRUE]
<1>0. 1 \in Hops /\ 2 \in Hops /\ 1 # 2 /\ reader \in [Hops -> Stages]
  BY SMTT(20) DEF TypeOK, Hops
<1>1. h = 2 /\ reader[2] = "building" /\ out' = out /\ request' = request /\ request.peer = opener
  BY SMTT(20) DEF PollBuild, StageInv, HopsInv, Hops, Message
<1>2. PICK chunk \in Chunks(2) :
         /\ ReadFrame(2, chunk)
         /\ \/ UNCHANGED <<reader, incoming>>
            \/ Head(chunk).kind = "ProxyConnection" /\ PassStream(2, opener, TRUE)
            \/ reader' = [reader EXCEPT ![2] = "over"] /\ UNCHANGED incoming
  BY <1>1 DEF PollBuild
<1> DEFINE x == Head(chunk)
<1>3. PICK u \in Seq(Items) : x \in Items /\ UnderWay(2) = Cat(One(x), u)
  BY <1>0, <1>1, <1>2, FrameRead
<1>4. \/ UNCHANGED <<reader, incoming>>
      \/ x.kind = "ProxyConnection" /\ PassStream(2, opener, TRUE)
      \/ reader' = [reader EXCEPT ![2] = "over"] /\ UNCHANGED incoming
  BY <1>2
<1> HIDE DEF x
<1>5. x = Address \/ (x = Proxy /\ ready)
  <2>1. PICK proto \in Seq(Items), rest \in Seq(Data) :
           Cat(received, rest) = sent /\ Ahead(proto) /\ Flow(Cat(proto, rest))
    BY FlowPick
  <2> QED
    BY <1>1, <1>3, <2>1, ReadsBuild
<1>6. x.kind = "ProxyConnection" => ready
  BY <1>5, Kind
<1> QED
  BY <1>0, <1>1, <1>4, <1>6 DEF PassStream

-----------------------------------------------------------------------------
(* The links, the pipes and the handles after a step *)

LEMMA LinkSame ==
    ASSUME LinkInv, UNCHANGED <<proxied, opener, up>>, intact' => intact,
           reader'[2] # "none" => reader[2] # "none"
    PROVE  LinkInv'
<1>1. Link(1)' = Link(1) /\ Link(2)' = Link(2)
  BY DEF Link, Neighbour
<1> QED
  BY <1>1 DEF LinkInv

\* What the steps of a hop never touch.
LEMMA HopFrame ==
    ASSUME NEW h \in Hops, HopStep(h)
    PROVE  UNCHANGED <<proxied, up, opened, opener, finished, context, ready, sent, intact>>
<1> USE DEF dataVars
<1>1. CASE Transport(h)
  BY <1>1 DEF Transport
<1>2. CASE PollHello(h)
  BY <1>2 DEF PollHello
<1>3. CASE PollBuild(h)
  BY <1>3 DEF PollBuild
<1>4. CASE HelloTimeout(h) \/ ContextPoll(h) \/ UserEof(h) \/ StreamDropped(h)
  BY <1>4 DEF HelloTimeout, ContextPoll, UserEof, StreamDropped
<1>5. CASE UserPoll(h) \/ \E size \in 1..BufSize : UserRead(h, size)
  BY <1>5 DEF UserPoll, UserRead
<1> QED
  BY <1>1, <1>2, <1>3, <1>4, <1>5 DEF HopStep

\* The steps that leave the stage of hop 2, once it is there, one of its stages.
LEMMA HopTwoStays ==
    ASSUME FlattenLaws, TypeOK, StageInv, FlowInv, Next,
           ~RelayOpens, \A x \in Ends : ~NewStream(x), ~NewProxyStream
    PROVE  (reader'[2] = "none" <=> reader[2] = "none") /\ UNCHANGED <<proxied, opener>>
<1> USE DEF dataVars
<1>0. 1 \in Hops /\ 2 \in Hops /\ 1 # 2 /\ reader \in [Hops -> Stages]
  BY SMTT(20) DEF TypeOK, Hops
<1>1. CASE Write \/ OpenerDrops \/ SwitchToProxy \/ RelayForward
  BY <1>1 DEF Write, OpenerDrops, SwitchToProxy, RelayForward
<1>2. CASE RelayEnds
  BY <1>0, <1>2 DEF RelayEnds
<1>3. ASSUME NEW c \in up, ConnectionLost(c) PROVE (reader'[2] = "none" <=> reader[2] = "none") /\ UNCHANGED <<proxied, opener>>
  BY <1>3 DEF ConnectionLost
<1>4. ASSUME NEW p \in Ends, ContextEnds(p) \/ ContextDropped(p)
      PROVE  (reader'[2] = "none" <=> reader[2] = "none") /\ UNCHANGED <<proxied, opener>>
  BY <1>0, <1>4 DEF ContextEnds, ContextDropped
<1>5. ASSUME NEW h \in Hops, HopStep(h)
      PROVE  (reader'[2] = "none" <=> reader[2] = "none") /\ UNCHANGED <<proxied, opener>>
  <2>1. CASE Transport(h) \/ UserPoll(h) \/ \E size \in 1..BufSize : UserRead(h, size)
    BY <2>1 DEF Transport, UserPoll, UserRead
  <2>2. CASE HelloTimeout(h) \/ ContextPoll(h) \/ UserEof(h) \/ StreamDropped(h)
    BY <1>0, <2>2 DEF HelloTimeout, ContextPoll, UserEof, StreamDropped
  <2>3. CASE PollBuild(h)
    BY <2>3, BuildOutcome DEF PollBuild
  <2>4. CASE PollHello(h)
    <3>1. UNCHANGED <<proxied, opener>> /\ reader[h] = "waiting"
      BY <2>4 DEF PollHello
    <3>2. CASE h = 1
      BY <2>4, <3>1, <3>2, HelloOutcome
    <3>3. CASE h = 2
      BY <2>4, <3>1, <3>3, RelayedOutcome
    <3> QED
      BY <3>2, <3>3 DEF Hops
  <2> QED
    BY <1>5, <2>1, <2>2, <2>3, <2>4 DEF HopStep
<1> QED
  BY <1>1, <1>2, <1>3, <1>4, <1>5 DEF Next

LEMMA LinkStep ==
    ASSUME FlattenLaws, TypeOK, StageInv, FlowInv, Next
    PROVE  LinkInv'
<1> USE DEF dataVars
<1>0. 1 \in Hops /\ 2 \in Hops /\ 1 # 2 /\ reader \in [Hops -> Stages] /\ LinkInv
  BY SMTT(20) DEF TypeOK, Hops, StageInv
<1>1. ASSUME NEW x \in Ends, NEW hello, NEW stream, NEW usable, StartStream(x, hello, stream, usable)
      PROVE  LinkInv'
  <2>1. {x, Neighbour(x)} \in up' /\ opener' = x /\ proxied' = proxied /\ reader'[2] = "none"
    BY <1>0, <1>1 DEF StartStream
  <2>2. Link(1)' = {x, Neighbour(x)}
    BY <2>1 DEF Link, Neighbour
  <2> QED
    BY <2>1, <2>2 DEF LinkInv
<1>2. ASSUME NEW x \in Ends, NewStream(x) PROVE LinkInv'
  BY <1>1, <1>2 DEF NewStream
<1>3. CASE NewProxyStream
  BY <1>1, <1>3 DEF NewProxyStream, Ends
<1>4. CASE RelayOpens
  <2>1. Link(2) \in up /\ UNCHANGED <<proxied, opener, up, intact>>
    BY <1>4 DEF RelayOpens
  <2>2. Link(1)' = Link(1) /\ Link(2)' = Link(2)
    BY <2>1 DEF Link, Neighbour
  <2> QED
    BY <1>0, <2>1, <2>2 DEF LinkInv
<1>5. ASSUME NEW c \in up, ConnectionLost(c) PROVE LinkInv'
  BY <1>5 DEF ConnectionLost, LinkInv
<1>6. CASE /\ ~RelayOpens /\ (\A x \in Ends : ~NewStream(x)) /\ ~NewProxyStream
           /\ \A c \in up : ~ConnectionLost(c)
  <2>1. (reader'[2] # "none" => reader[2] # "none") /\ UNCHANGED <<proxied, opener>>
    BY <1>6, HopTwoStays
  <2>2. up' = up /\ (intact' => intact)
    <3>1. CASE Write \/ OpenerDrops \/ SwitchToProxy \/ RelayForward
      <4>1. UNCHANGED <<up, intact>>
        BY <3>1 DEF Write, OpenerDrops, SwitchToProxy, RelayForward
      <4> QED
        BY <4>1
    <3>2. CASE RelayEnds
      BY <3>2 DEF RelayEnds
    <3>4. CASE \E h \in Hops : HopStep(h)
      BY <3>4, HopFrame
    <3>3. CASE \E p \in Ends : ContextEnds(p) \/ ContextDropped(p)
      BY <3>3, SMTT(20) DEF ContextEnds, ContextDropped
    <3> QED
      BY <1>6, <3>1, <3>2, <3>3, <3>4 DEF Next
  <2> QED
    BY <1>0, <2>1, <2>2, LinkSame
<1> QED
  BY <1>2, <1>3, <1>4, <1>5, <1>6

LEMMA PipeStep ==
    ASSUME FlattenLaws, TypeOK, StageInv, FlowInv, Next
    PROVE  PipeInv'
<1> USE DEF dataVars
<1>0. 1 \in Hops /\ 2 \in Hops /\ 1 # 2 /\ reader \in [Hops -> Stages] /\ PipeInv
  BY SMTT(20) DEF TypeOK, Hops, StageInv
<1>a. ASSUME Len(out'[1]) <= Len(out[1]), out'[1] \in Seq(Seq(Items)), ready' = ready, sent' = sent,
             reader'[2] = "none" => /\ reader[2] = "none" /\ out'[2] = out[2] /\ net'[2] = net[2]
                                    /\ overflow'[2] = overflow[2]
      PROVE  PipeInv'
  <2>1. out[1] \in Seq(Seq(Items))
    BY <1>0, SMTT(20) DEF TypeOK
  <2>2. Len(out[1]) \in Nat /\ Len(out'[1]) \in Nat
    BY <1>a, <2>1, SMTT(20)
  <2>3. Len(out[1]) <= 1 => Len(out'[1]) <= 1
    BY <1>a, <2>2, SMTT(20)
  <2> QED
    BY <1>0, <1>a, <2>3 DEF PipeInv
<1>b. out[1] \in Seq(Seq(Items)) /\ Len(out[1]) <= Len(out[1])
  <2>1. out[1] \in Seq(Seq(Items))
    BY <1>0, SMTT(20) DEF TypeOK
  <2>2. Len(out[1]) \in Nat
    BY <2>1, SMTT(20)
  <2> QED
    BY <2>1, <2>2, SMTT(20)
<1>1. ASSUME NEW x \in Ends, NEW hello \in Items, NEW stream, NEW usable, StartStream(x, hello, stream, usable)
      PROVE  PipeInv'
  <2>1. Len(out'[1]) <= 1 /\ out'[2] = <<>> /\ net'[2] = <<>> /\ overflow'[2] = <<>>
    BY <1>1, StartPipes
  <2>2. sent' = <<>>
    BY <1>1 DEF StartStream
  <2> QED
    BY <2>1, <2>2 DEF PipeInv
<1>2. ASSUME NEW x \in Ends, NewStream(x) PROVE PipeInv'
  <2>1. handle[x].peer \in Ends
    BY <1>2 DEF NewStream
  <2>2. Message("UserProxy", handle[x].peer) \in Items /\ Message("User", x) \in Items
    BY <2>1, Messages
  <2> QED
    BY <1>1, <1>2, <2>2 DEF NewStream
<1>3. CASE NewProxyStream
  <2>1. "peer0" \in Ends /\ "peer2" \in Ends
    BY DEF Ends
  <2>2. Message("ProxyBuildConnectionToPeer", "peer2") \in Items
    BY <2>1, Messages
  <2> QED
    BY <1>1, <1>3, <2>1, <2>2 DEF NewProxyStream
<1>4. CASE Write
  <2>1. ready' /\ net' = net /\ overflow' = overflow /\ reader' = reader
        /\ out' = [out EXCEPT ![1] = Append(@, <<Datum(Len(sent) + 1)>>)]
    BY <1>4 DEF Write
  <2>2. out'[2] = out[2]
    BY <1>0, <2>1, SMTT(20) DEF TypeOK
  <2> QED
    BY <1>0, <2>1, <2>2 DEF PipeInv
<1>5. CASE SwitchToProxy
  <2>1. ready' /\ net' = net /\ overflow' = overflow /\ reader' = reader /\ Len(out[1]) <= 1
    BY <1>0, <1>5 DEF SwitchToProxy, PipeInv
  <2>2. out'[2] = out[2]
    BY <1>5, <2>1, SwitchPipes
  <2> QED
    BY <1>0, <2>1, <2>2 DEF PipeInv
<1>6. CASE RelayOpens
  <2>1. /\ out' = [out EXCEPT ![2] = RelayPrelude(RelayHello(Writer(1)))]
        /\ reader' = [reader EXCEPT ![1] = "relaying", ![2] = "waiting"]
        /\ ready' = ready /\ sent' = sent
    BY <1>6 DEF RelayOpens
  <2>2. out'[1] = out[1] /\ reader'[2] = "waiting"
    BY <1>0, <2>1, SMTT(20) DEF TypeOK
  <2> QED
    BY <1>0, <2>1, <2>2 DEF PipeInv
<1>7. CASE RelayForward
  <2>1. reader' = reader /\ reader[1] = "relaying" /\ ready' = ready /\ sent' = sent
    BY <1>7 DEF RelayForward
  <2>2. reader'[2] # "none"
    BY <2>1 DEF StageInv, HopsInv
  <2>3. out'[1] = out[1]
    BY <1>7, RelayPipes
  <2> QED
    BY <1>a, <1>b, <2>1, <2>2, <2>3
<1>8. ASSUME NEW c \in up, ConnectionLost(c) PROVE PipeInv'
  <2>1. ready' = ready /\ sent' = sent /\ reader' = reader /\ overflow' = overflow
    BY <1>8 DEF ConnectionLost
  <2>2. /\ Len(out'[1]) <= Len(out[1]) /\ PipesOK'
        /\ out[2] = <<>> => out'[2] = <<>>
        /\ net[2] = <<>> => net'[2] = <<>>
    BY <1>0, <1>8, LostPipes
  <2>3. out'[1] \in Seq(Seq(Items))
    BY <1>0, <2>2 DEF PipesOK
  <2>4. reader[2] = "none" => out[2] = <<>> /\ net[2] = <<>>
    BY <1>0 DEF PipeInv
  <2> QED
    BY <1>a, <2>1, <2>2, <2>3, <2>4
<1>9. ASSUME NEW h \in Hops, HopStep(h) PROVE PipeInv'
  <2>1. ready' = ready /\ sent' = sent
    BY <1>9, HopFrame
  <2>2. CASE Transport(h)
    <3>1. reader' = reader /\ overflow' = overflow
      BY <2>2 DEF Transport
    <3>2. PipesOK' /\ \A g \in Hops : /\ Len(out'[g]) <= Len(out[g])
                                      /\ out[g] = <<>> => out'[g] = <<>> /\ net'[g] = net[g]
      BY <2>2, TransportPipes
    <3>3. Len(out'[1]) <= Len(out[1]) /\ (out[2] = <<>> => out'[2] = <<>> /\ net'[2] = net[2])
      BY <1>0, <3>2
    <3>4. out'[1] \in Seq(Seq(Items))
      BY <1>0, <3>2 DEF PipesOK
    <3>5. reader[2] = "none" => out[2] = <<>>
      BY <1>0 DEF PipeInv
    <3> QED
      BY <1>a, <2>1, <3>1, <3>3, <3>4, <3>5
  <2>3. CASE PollHello(h) \/ PollBuild(h)
    <3>1. PICK chunk \in Chunks(h) : ReadFrame(h, chunk)
      BY <2>3 DEF PollHello, PollBuild
    <3>2. out' = out
      BY <2>3 DEF PollHello, PollBuild
    <3>3. \A g \in Hops : g # h => net'[g] = net[g] /\ overflow'[g] = overflow[g]
      BY <3>1, <3>2, ReadFrameFacts
    <3>4. CASE h = 1
      <4>1. net'[2] = net[2] /\ overflow'[2] = overflow[2]
        BY <1>0, <3>3, <3>4
      <4>2. PollHello(1)
        BY <2>3, <3>4, BuildOutcome, SMTT(20)
      <4>3. reader'[2] = reader[2]
        BY <4>2, HelloOutcome
      <4> QED
        BY <1>a, <1>b, <2>1, <3>2, <4>1, <4>3
    <3>5. CASE h = 2
      <4>1. reader'[2] # "none"
        BY <2>3, <3>5, BuildOutcome, RelayedOutcome
      <4> QED
        BY <1>a, <1>b, <2>1, <3>2, <4>1
    <3> QED
      BY <3>4, <3>5 DEF Hops
  <2>4. CASE UserPoll(h) \/ \E size \in 1..BufSize : UserRead(h, size)
    <3>1. /\ out' = out
          /\ \A g \in Hops : g # h => net'[g] = net[g] /\ overflow'[g] = overflow[g]
      BY <2>4, UserReads
    <3>2. reader' = reader /\ reader[h] = "delivered"
      BY <2>4 DEF UserPoll, UserRead
    <3>3. reader'[2] = "none" => h # 2
      BY <3>2
    <3> QED
      BY <1>0, <1>a, <1>b, <2>1, <3>1, <3>2, <3>3
  <2>5. CASE HelloTimeout(h) \/ ContextPoll(h) \/ UserEof(h) \/ StreamDropped(h)
    <3>1. out' = out /\ net' = net /\ overflow' = overflow
      BY <2>5 DEF HelloTimeout, ContextPoll, UserEof, StreamDropped, pipes
    <3>2. reader'[2] = "none" => reader[2] = "none"
      BY <1>0, <2>5 DEF HelloTimeout, ContextPoll, UserEof, StreamDropped
    <3> QED
      BY <1>a, <1>b, <2>1, <3>1, <3>2
  <2> QED
    BY <1>9, <2>2, <2>3, <2>4, <2>5 DEF HopStep
<1>10. CASE OpenerDrops \/ RelayEnds \/ \E p \in Ends : ContextEnds(p) \/ ContextDropped(p)
  <2>1. out' = out /\ net' = net /\ overflow' = overflow /\ ready' = ready /\ sent' = sent
    BY <1>10 DEF OpenerDrops, RelayEnds, ContextEnds, ContextDropped, pipes
  <2>2. reader'[2] = "none" => reader[2] = "none"
    BY <1>0, <1>10 DEF OpenerDrops, RelayEnds, ContextEnds, ContextDropped
  <2> QED
    BY <1>a, <1>b, <2>1, <2>2
<1> QED
  BY <1>2, <1>3, <1>4, <1>5, <1>6, <1>7, <1>8, <1>9, <1>10 DEF Next

LEMMA HandleSame ==
    ASSUME HandleInv, UNCHANGED <<proxied, opener, handle, incoming, ready>>,
           \A h \in Hops : reader'[h] \in {"passed", "delivered"} => reader'[h] = reader[h]
    PROVE  HandleInv'
<1>1. \A x : PeerHandle(x)' = PeerHandle(x)
  BY DEF PeerHandle, OtherEnd
<1> QED
  BY <1>1 DEF HandleInv, OtherEnd

\* The two ends.
LEMMA EndFacts ==
    /\ \A x \in Ends : OtherEnd(x) \in Ends /\ OtherEnd(x) # x /\ OtherEnd(OtherEnd(x)) = x
    /\ OtherEnd("peer0") = "peer2"
    /\ Relay \notin Ends
  BY DEF Ends, OtherEnd, Relay

LEMMA HandleStep ==
    ASSUME FlattenLaws, TypeOK, StageInv, FlowInv, Next
    PROVE  HandleInv'
<1> USE DEF dataVars
<1>0. /\ 1 \in Hops /\ 2 \in Hops /\ 1 # 2 /\ reader \in [Hops -> Stages]
      /\ handle \in [Ends -> Handles] /\ opener \in Ends
      /\ HandleInv /\ HopsInv
  BY SMTT(20) DEF TypeOK, Hops, StageInv
<1>1. ASSUME NEW x \in Ends, NewStream(x) PROVE HandleInv'
  <2>1. handle[x].peer \in Ends
    BY <1>1 DEF NewStream
  <2>2. handle[x] = [peer |-> OtherEnd(x), proxy |-> proxied]
    BY <1>0, <2>1 DEF HandleInv, PeerHandle
  <2>3. handle[x].peer = OtherEnd(x) /\ handle[x].proxy = proxied
    BY <2>2, SMTT(20)
  <2> DEFINE stream == [peer |-> OtherEnd(x), proxy |-> proxied]
  <2>4. PICK hello : StartStream(x, hello, stream, TRUE)
    <3>1. CASE proxied
      BY <1>1, <2>3, <3>1 DEF NewStream, TypeOK
    <3>2. CASE ~proxied
      <4>1. proxied = FALSE
        BY <3>2, SMTT(20) DEF TypeOK
      <4> QED
        BY <1>1, <2>3, <4>1 DEF NewStream
    <3> QED
      BY <3>1, <3>2
  <2>5. /\ handle' = [handle EXCEPT ![x] = stream] /\ opener' = x /\ proxied' = proxied
        /\ reader'[1] = "waiting" /\ reader'[2] = "none"
    BY <1>0, <2>4 DEF StartStream
  <2>6. handle' = handle
    BY <1>0, <2>2, <2>5
  <2>7. \A y : PeerHandle(y)' = PeerHandle(y)
    BY <2>5 DEF PeerHandle, OtherEnd
  <2>8. handle[x] = PeerHandle(x)
    BY <2>2 DEF PeerHandle
  <2>9. \A h \in Hops : reader'[h] \in {"waiting", "none"}
    BY <2>5 DEF Hops
  <2> QED
    BY <1>0, <2>5, <2>6, <2>7, <2>8, <2>9 DEF HandleInv
<1>2. CASE NewProxyStream
  <2>1. StartStream("peer0", Message("ProxyBuildConnectionToPeer", "peer2"), NoHandle, FALSE)
    BY <1>2 DEF NewProxyStream
  <2>2. /\ handle' = handle /\ ready' = FALSE /\ proxied' = proxied
        /\ reader'[1] = "waiting" /\ reader'[2] = "none"
    BY <1>0, <2>1 DEF StartStream
  <2>3. \A y : PeerHandle(y)' = PeerHandle(y)
    BY <2>2 DEF PeerHandle, OtherEnd
  <2>4. \A h \in Hops : reader'[h] \in {"waiting", "none"}
    BY <2>2 DEF Hops
  <2> QED
    BY <1>0, <2>2, <2>3, <2>4 DEF HandleInv
<1>3. CASE SwitchToProxy
  <2>1. /\ ~ready /\ reader[1] = "relaying" /\ UNCHANGED <<proxied, opener, reader, incoming>>
        /\ handle' = [handle EXCEPT ![opener] = [peer |-> "peer2", proxy |-> TRUE]]
    BY <1>3 DEF SwitchToProxy
  <2>2. opener = "peer0" /\ proxied /\ \A h \in Hops : reader[h] \notin {"passed", "delivered"}
    BY <1>0, <2>1 DEF HopsInv
  <2>3. proxied = TRUE
    BY <2>2 DEF TypeOK
  <2>4. PeerHandle(opener) = [peer |-> "peer2", proxy |-> TRUE]
    BY <2>2, <2>3, EndFacts DEF PeerHandle
  <2>5. handle'[opener] = PeerHandle(opener) /\ \A x \in Ends : x # opener => handle'[x] = handle[x]
    BY <1>0, <2>1, <2>4
  <2>6. \A y : PeerHandle(y)' = PeerHandle(y)
    BY <2>1 DEF PeerHandle, OtherEnd
  <2>7. \A x \in Ends : handle'[x].peer \in Ends => handle'[x] = PeerHandle(x)
    BY <1>0, <2>5 DEF HandleInv
  <2> QED
    BY <2>1, <2>2, <2>5, <2>6, <2>7 DEF HandleInv
<1>4. ASSUME NEW h \in Hops, HopStep(h) PROVE HandleInv'
  <2>0. UNCHANGED <<proxied, opener, ready>>
    BY <1>4, HopFrame
  <2>p. PeerHandle(OtherEnd(opener)) = [peer |-> opener, proxy |-> proxied]
    BY <1>0, EndFacts DEF PeerHandle
  <2>q. (\A y : PeerHandle(y)' = PeerHandle(y)) /\ PeerHandle(OtherEnd(opener))' = PeerHandle(OtherEnd(opener))
        /\ PeerHandle(opener)' = PeerHandle(opener)
    BY <2>0 DEF PeerHandle, OtherEnd
  <2>1. CASE Transport(h) \/ UserPoll(h) \/ \E size \in 1..BufSize : UserRead(h, size)
    <3>1. UNCHANGED <<reader, handle, incoming>>
      BY <2>1 DEF Transport, UserPoll, UserRead
    <3> QED
      BY <1>0, <2>0, <3>1, HandleSame
  <2>2. CASE HelloTimeout(h) \/ UserEof(h) \/ StreamDropped(h)
    <3>1. UNCHANGED <<handle, incoming>> /\ reader' = [reader EXCEPT ![h] = "over"]
      BY <2>2 DEF HelloTimeout, UserEof, StreamDropped
    <3>2. \A g \in Hops : reader'[g] = "over" \/ reader'[g] = reader[g]
      BY <1>0, <3>1
    <3> QED
      BY <1>0, <2>0, <3>1, <3>2, HandleSame
  <2>3. CASE ContextPoll(h)
    <3>1. /\ reader[h] = "passed" /\ reader' = [reader EXCEPT ![h] = "delivered"] /\ incoming' = incoming
          /\ handle' = IF Reader(h) \in Ends THEN [handle EXCEPT ![Reader(h)] = incoming] ELSE handle
      BY <2>3 DEF ContextPoll
    <3>2. h = LastHop
      BY <1>0, <3>1 DEF HopsInv, LastHop, Hops
    <3>3. Reader(h) = OtherEnd(opener) /\ OtherEnd(opener) \in Ends /\ OtherEnd(opener) # opener
      BY <1>0, <3>2, EndFacts DEF Reader
    <3>4. incoming = PeerHandle(OtherEnd(opener))
      BY <1>0, <3>1 DEF HandleInv
    <3> DEFINE o == OtherEnd(opener)
    <3>5. handle'[o] = PeerHandle(o) /\ \A x \in Ends : x # o => handle'[x] = handle[x]
      BY <1>0, <3>1, <3>3, <3>4
    <3>6. handle'[opener] = handle[opener]
      BY <1>0, <3>3, <3>5
    <3>7. \A x \in Ends : handle'[x].peer \in Ends => handle'[x] = PeerHandle(x)
      BY <1>0, <3>5 DEF HandleInv
    <3>8. opener' = opener /\ o' = o
      BY <2>0 DEF OtherEnd
    <3>9. \A g \in Hops : reader'[g] = "passed" => reader[g] = "passed"
      BY <1>0, <3>1
    <3> HIDE DEF o
    <3>10. ready => handle[opener] = PeerHandle(opener)
      BY <1>0 DEF HandleInv
    <3>11. OtherEnd(opener)' = o /\ OtherEnd(opener) = o
      BY <3>8 DEF o
    <3> QED
      BY <2>0, <2>q, <3>1, <3>4, <3>5, <3>6, <3>7, <3>8, <3>9, <3>10, <3>11 DEF HandleInv
  <2>4. CASE PollHello(h) \/ PollBuild(h)
    <3>1. handle' = handle
      BY <2>4 DEF PollHello, PollBuild
    <3>2. \A g \in Hops : /\ reader'[g] = "delivered" => reader[g] = "delivered"
                          /\ reader'[g] = "passed" => incoming' = [peer |-> opener, proxy |-> proxied]
      <4>1. CASE PollHello(h) /\ h = 1
        <5>1. reader'[2] = "none"
          BY <4>1, HelloOutcome
        <5>2. reader'[1] # "delivered"
          BY <4>1, HelloOutcome
        <5>3. reader'[1] = "passed" => incoming' = [peer |-> opener, proxy |-> proxied]
          <6>1. CASE proxied
            BY <4>1, <6>1, HelloOutcome
          <6>2. CASE ~proxied
            <7>1. proxied = FALSE
              BY <6>2, SMTT(20) DEF TypeOK
            <7> QED
              BY <4>1, <7>1, HelloOutcome
          <6> QED
            BY <6>1, <6>2
        <5> QED
          BY <5>1, <5>2, <5>3 DEF Hops
      <4>2. CASE PollHello(h) /\ h = 2
        <5>1. reader[2] = "waiting"
          BY <4>2 DEF PollHello
        <5>2. proxied = TRUE /\ reader[1] \notin {"passed", "delivered"}
          BY <1>0, <5>1 DEF HopsInv, TypeOK
        <5>3. reader'[1] = reader[1] /\ reader'[2] # "delivered"
          BY <4>2, RelayedOutcome
        <5>4. reader'[2] = "passed" => incoming' = [peer |-> opener, proxy |-> TRUE]
          BY <4>2, RelayedOutcome
        <5> QED
          BY <5>2, <5>3, <5>4 DEF Hops
      <4>3. CASE PollBuild(h)
        <5>1. reader[2] = "building" /\ reader'[1] = reader[1] /\ reader'[2] # "delivered"
          BY <4>3, BuildOutcome
        <5>2. proxied = TRUE /\ reader[1] \notin {"passed", "delivered"}
          BY <1>0, <5>1 DEF HopsInv, TypeOK
        <5>3. reader'[2] = "passed" => incoming' = [peer |-> opener, proxy |-> TRUE]
          BY <4>3, BuildOutcome
        <5> QED
          BY <5>1, <5>2, <5>3 DEF Hops
      <4> QED
        BY <2>4, <4>1, <4>2, <4>3 DEF Hops
    <3>3. OtherEnd(opener)' = OtherEnd(opener)
      BY <2>0 DEF OtherEnd
    <3> QED
      BY <1>0, <2>0, <2>p, <2>q, <3>1, <3>2, <3>3 DEF HandleInv
  <2> QED
    BY <1>4, <2>1, <2>2, <2>3, <2>4 DEF HopStep
<1>5. CASE Write \/ OpenerDrops \/ RelayForward \/ \E c \in up : ConnectionLost(c)
  <2>1. UNCHANGED <<proxied, opener, handle, incoming, ready, reader>>
    BY <1>5 DEF Write, OpenerDrops, RelayForward, ConnectionLost
  <2> QED
    BY <1>0, <2>1, HandleSame
<1>6. CASE RelayOpens \/ RelayEnds \/ \E p \in Ends : ContextEnds(p) \/ ContextDropped(p)
  <2>1. UNCHANGED <<proxied, opener, handle, incoming, ready>>
    BY <1>6 DEF RelayOpens, RelayEnds, ContextEnds, ContextDropped
  <2>2. \A h \in Hops : reader'[h] \in {"passed", "delivered"} => reader'[h] = reader[h]
    <3>1. CASE RelayOpens
      BY <1>0, <3>1 DEF RelayOpens
    <3>2. CASE RelayEnds
      BY <1>0, <3>2 DEF RelayEnds
    <3>3. ASSUME NEW p \in Ends, ContextEnds(p) \/ ContextDropped(p)
          PROVE  \A h \in Hops : reader'[h] \in {"passed", "delivered"} => reader'[h] = reader[h]
      BY <1>0, <3>3 DEF ContextEnds, ContextDropped
    <3> QED
      BY <1>6, <3>1, <3>2, <3>3
  <2> QED
    BY <1>0, <2>1, <2>2, HandleSame
<1> QED
  BY <1>1, <1>2, <1>3, <1>4, <1>5, <1>6 DEF Next

LEMMA HopsSame ==
    ASSUME HopsInv, UNCHANGED <<proxied, opener, ready, reader, request, eof>>,
           finished'[2] => finished[2]
    PROVE  HopsInv'
<1>1. LastHop' = LastHop
  BY DEF LastHop
<1> QED
  BY <1>1 DEF HopsInv, Message

LEMMA HopsOver ==
    ASSUME HopsInv, reader \in [Hops -> Stages], NEW h \in Hops, reader[h] # "none",
           UNCHANGED <<proxied, opener, ready, request>>,
           reader' = [reader EXCEPT ![h] = "over"],
           finished'[2] => finished[2] \/ h = 1, eof' => eof \/ h = LastHop
    PROVE  HopsInv'
<1>1. LastHop' = LastHop /\ LastHop \in Hops /\ 1 \in Hops /\ 2 \in Hops /\ 1 # 2
  BY SMTT(20) DEF LastHop, Hops
<1>2. reader'[h] = "over" /\ \A g \in Hops : g # h => reader'[g] = reader[g]
  OBVIOUS
<1>3. eof' => reader'[LastHop] = "over"
  BY <1>1, <1>2 DEF HopsInv
<1>4. finished'[2] => reader'[1] = "over"
  BY <1>1, <1>2 DEF HopsInv
<1>5. \A g \in Hops : reader'[g] \in {"passed", "delivered"} => ready
  BY <1>2 DEF HopsInv
<1>6. CASE h = 1
  BY <1>1, <1>2, <1>3, <1>4, <1>5, <1>6 DEF HopsInv, Message
<1>7. CASE h = 2
  BY <1>1, <1>2, <1>3, <1>4, <1>5, <1>7 DEF HopsInv, Message
<1> QED
  BY <1>6, <1>7 DEF Hops

LEMMA HopsStep ==
    ASSUME FlattenLaws, TypeOK, StageInv, FlowInv, Next
    PROVE  HopsInv'
<1> USE DEF dataVars
<1>0. /\ 1 \in Hops /\ 2 \in Hops /\ 1 # 2 /\ reader \in [Hops -> Stages]
      /\ finished \in [Hops -> BOOLEAN] /\ opener \in Ends /\ HopsInv
  BY SMTT(20) DEF TypeOK, Hops, StageInv
<1>s. ASSUME NEW x, NEW hello, NEW stream, NEW usable, StartStream(x, hello, stream, usable),
             ~usable => x = "peer0" /\ proxied
      PROVE  HopsInv'
  <2>1. /\ reader'[1] = "waiting" /\ reader'[2] = "none" /\ ~finished'[2] /\ ~eof'
        /\ opener' = x /\ proxied' = proxied /\ (ready' <=> usable)
    BY <1>0, <1>s DEF StartStream
  <2> QED
    BY <1>s, <2>1 DEF HopsInv, Hops
<1>1. ASSUME NEW x \in Ends, NewStream(x) PROVE HopsInv'
  <2>1. \E hello, stream : StartStream(x, hello, stream, TRUE)
    BY <1>1 DEF NewStream
  <2> QED
    BY <2>1, <1>s
<1>2. CASE NewProxyStream
  <2>1. proxied /\ StartStream("peer0", Message("ProxyBuildConnectionToPeer", "peer2"), NoHandle, FALSE)
    BY <1>2 DEF NewProxyStream
  <2> QED
    BY <2>1, <1>s
<1>3. CASE SwitchToProxy
  <2>1. /\ ~ready /\ reader[1] = "relaying" /\ ready' = TRUE
        /\ UNCHANGED <<proxied, opener, reader, request, finished, eof>>
    BY <1>3 DEF SwitchToProxy
  <2>2. LastHop' = LastHop
    BY <2>1 DEF LastHop
  <2> QED
    BY <1>0, <2>1, <2>2 DEF HopsInv, Message
<1>4. ASSUME NEW h \in Hops, HopStep(h) PROVE HopsInv'
  <2>0. UNCHANGED <<proxied, opener, ready, finished>>
    BY <1>4, HopFrame
  <2>1. CASE Transport(h) \/ UserPoll(h) \/ \E size \in 1..BufSize : UserRead(h, size)
    <3>1. UNCHANGED <<reader, request, eof>>
      BY <2>1 DEF Transport, UserPoll, UserRead
    <3> QED
      BY <1>0, <2>0, <3>1, HopsSame
  <2>2. CASE HelloTimeout(h) \/ StreamDropped(h)
    <3>1. UNCHANGED <<request, eof>> /\ reader' = [reader EXCEPT ![h] = "over"] /\ reader[h] # "none"
      BY <2>2 DEF HelloTimeout, StreamDropped
    <3> QED
      BY <1>0, <2>0, <3>1, HopsOver
  <2>3. CASE UserEof(h)
    <3>1. request' = request /\ reader' = [reader EXCEPT ![h] = "over"] /\ reader[h] = "delivered"
      BY <2>3 DEF UserEof
    <3>2. h = LastHop
      BY <1>0, <3>1 DEF HopsInv, LastHop, Hops
    <3> QED
      BY <1>0, <2>0, <3>1, <3>2, HopsOver
  <2>4. CASE ContextPoll(h)
    <3>1. /\ UNCHANGED <<request, eof>> /\ reader' = [reader EXCEPT ![h] = "delivered"]
          /\ reader[h] = "passed"
      BY <2>4 DEF ContextPoll
    <3>2. LastHop' = LastHop /\ LastHop \in Hops
      BY <2>0 DEF LastHop, Hops
    <3>3. reader'[h] = "delivered" /\ \A g \in Hops : g # h => reader'[g] = reader[g]
      BY <1>0, <3>1
    <3>4. eof => LastHop # h
      BY <1>0, <3>1 DEF HopsInv
    <3>5. \A g \in Hops : reader'[g] \in {"passed", "delivered"} => ready
      BY <1>0, <3>1, <3>3 DEF HopsInv
    <3>6. eof' => reader'[LastHop] = "over"
      BY <1>0, <3>1, <3>2, <3>3, <3>4 DEF HopsInv
    <3>7. CASE h = 1
      BY <1>0, <2>0, <3>1, <3>2, <3>3, <3>5, <3>6, <3>7 DEF HopsInv, Message
    <3>8. CASE h = 2
      BY <1>0, <2>0, <3>1, <3>2, <3>3, <3>5, <3>6, <3>8 DEF HopsInv, Message
    <3> QED
      BY <3>7, <3>8 DEF Hops
  <2>5. CASE PollHello(h) /\ h = 1
    <3>1. reader[1] = "waiting" /\ eof' = eof
      BY <2>5 DEF PollHello
    <3>2. reader'[2] = "none" /\ reader[2] = "none"
      BY <2>5, HelloOutcome
    <3>3. ~eof /\ ~finished[2]
      BY <1>0, <3>1, <3>2 DEF HopsInv, LastHop
    <3>4. CASE proxied
      <4>1. reader'[1] \in {"opening", "over"} /\ request' = Hello
        BY <2>5, <3>4, HelloOutcome
      <4>2. Hello.kind = IF ready THEN "UserProxy" ELSE "ProxyBuildConnectionToPeer"
        BY <3>4, Kind
      <4>3. request'.kind = IF ready THEN "UserProxy" ELSE "ProxyBuildConnectionToPeer"
        BY <4>1, <4>2
      <4> HIDE DEF dataVars
      <4> QED
        BY <1>0, <2>0, <3>1, <3>2, <3>3, <3>4, <4>1, <4>3 DEF HopsInv, Hops
    <3>5. CASE ~proxied
      <4>1. reader'[1] \in {"passed", "over"} /\ request' = request
        BY <2>5, <3>5, HelloOutcome
      <4>2. ready
        BY <1>0, <3>1, <3>5 DEF HopsInv
      <4> QED
        BY <1>0, <2>0, <3>1, <3>2, <3>3, <3>5, <4>1, <4>2 DEF HopsInv, Hops
    <3> QED
      BY <3>4, <3>5
  <2>6. CASE PollHello(h) /\ h = 2
    <3>1. reader[2] = "waiting" /\ eof' = eof
      BY <2>6 DEF PollHello
    <3>2. proxied /\ reader[1] \in {"relaying", "over"}
      BY <1>0, <3>1 DEF HopsInv
    <3>3. ~eof /\ reader'[1] = reader[1]
      BY <1>0, <2>6, <3>1, <3>2, RelayedOutcome DEF HopsInv, LastHop
    <3>4. CASE request.kind = "UserProxy"
      <4>1. reader'[2] \in {"passed", "over"} /\ request' = request
        BY <2>6, <3>4, RelayedOutcome
      <4>2. ready
        BY <1>0, <3>1, <3>4 DEF HopsInv
      <4> QED
        BY <1>0, <2>0, <3>1, <3>2, <3>3, <4>1, <4>2 DEF HopsInv, Hops
    <3>5. CASE request.kind # "UserProxy"
      <4>1. reader'[2] = "building" /\ request' = Message("BuildConnectionToPeer", opener)
        BY <2>6, <3>5, RelayedOutcome DEF Build
      <4>2. Message("BuildConnectionToPeer", opener)' = Message("BuildConnectionToPeer", opener)
        BY <2>0 DEF Message
      <4> QED
        BY <1>0, <2>0, <3>1, <3>2, <3>3, <4>1, <4>2 DEF HopsInv, Hops
    <3> QED
      BY <3>4, <3>5
  <2>7. CASE PollBuild(h)
    <3>1. eof' = eof
      BY <2>7 DEF PollBuild
    <3>2. /\ reader[2] = "building" /\ reader'[1] = reader[1] /\ request' = request
          /\ reader'[2] \in {"building", "over"} \/ (reader'[2] = "passed" /\ ready)
      BY <2>7, BuildOutcome
    <3>3. proxied /\ reader[1] \in {"relaying", "over"} /\ ~eof
      BY <1>0, <3>2 DEF HopsInv, LastHop
    <3>4. Message("BuildConnectionToPeer", opener)' = Message("BuildConnectionToPeer", opener)
      BY <2>0 DEF Message
    <3> QED
      BY <1>0, <2>0, <3>1, <3>2, <3>3, <3>4 DEF HopsInv, Hops
  <2> QED
    BY <1>4, <2>1, <2>2, <2>3, <2>4, <2>5, <2>6, <2>7 DEF HopStep, Hops
<1>5. CASE Write \/ OpenerDrops \/ RelayForward \/ \E c \in up : ConnectionLost(c)
  <2>1. UNCHANGED <<proxied, opener, ready, reader, request, eof>>
    BY <1>5 DEF Write, OpenerDrops, RelayForward, ConnectionLost
  <2>2. finished'[2] = finished[2]
    BY <1>0, <1>5 DEF Write, OpenerDrops, RelayForward, ConnectionLost
  <2> QED
    BY <1>0, <2>1, <2>2, HopsSame
<1>6. CASE RelayOpens
  <2>1. /\ reader[1] = "opening" /\ UNCHANGED <<proxied, opener, ready, request, finished, eof>>
        /\ reader' = [reader EXCEPT ![1] = "relaying", ![2] = "waiting"]
    BY <1>6 DEF RelayOpens
  <2>2. reader'[1] = "relaying" /\ reader'[2] = "waiting"
    BY <1>0, <2>1
  <2>3. proxied /\ reader[2] = "none"
    BY <1>0, <2>1 DEF HopsInv
  <2>4. ~eof /\ ~finished[2]
    BY <1>0, <2>1, <2>3 DEF HopsInv, LastHop
  <2> QED
    BY <1>0, <2>1, <2>2, <2>3, <2>4 DEF HopsInv, Hops
<1>7. CASE RelayEnds
  <2>1. /\ reader[1] # "none" /\ UNCHANGED <<proxied, opener, ready, request, eof>>
        /\ reader' = [reader EXCEPT ![1] = "over"]
    BY <1>7 DEF RelayEnds
  <2> QED
    BY <1>0, <2>1, HopsOver
<1>8. ASSUME NEW p \in Ends, ContextEnds(p) \/ ContextDropped(p) PROVE HopsInv'
  <2>1. UNCHANGED <<proxied, opener, ready, request, finished, eof>>
    BY <1>8 DEF ContextEnds, ContextDropped
  <2>2. CASE reader' = reader
    BY <1>0, <2>1, <2>2, HopsSame
  <2>3. CASE reader' # reader
    <3>1. reader' = [h \in Hops |-> IF reader[h] = "passed" /\ Reader(h) = p THEN "over" ELSE reader[h]]
      BY <1>8, <2>3 DEF ContextEnds, ContextDropped
    <3>2. PICK h \in Hops : reader[h] = "passed" /\ Reader(h) = p
      BY <1>0, <2>3, <3>1
    <3>3. \A g \in Hops : g # h => reader[g] # "passed"
      BY <1>0, <3>2 DEF HopsInv, Hops
    <3>4. reader' = [reader EXCEPT ![h] = "over"]
      BY <1>0, <3>1, <3>2, <3>3
    <3> QED
      BY <1>0, <2>1, <3>2, <3>4, HopsOver
  <2> QED
    BY <2>2, <2>3
<1> QED
  BY <1>1, <1>2, <1>3, <1>4, <1>5, <1>6, <1>7, <1>8 DEF Next

LEMMA StageStep ==
    ASSUME FlattenLaws, TypeOK, StageInv, FlowInv, Next
    PROVE  StageInv'
  BY HandleStep, HopsStep, PipeStep, LinkStep DEF StageInv

LEMMA PipesStep ==
    ASSUME FlattenLaws, TypeOK, StageInv, Next
    PROVE  PipesOK'
<1> USE DEF dataVars
<1>0. 1 \in Hops /\ 2 \in Hops /\ PipeInv /\ HopsInv
  BY DEF Hops, StageInv
<1>1. ASSUME NEW x \in Ends, NewStream(x) PROVE PipesOK'
  <2>1. handle[x].peer \in Ends
    BY <1>1 DEF NewStream
  <2>2. PICK hello \in {Message("UserProxy", handle[x].peer), Message("User", x)} :
           \E stream : StartStream(x, hello, stream, TRUE)
    BY <1>1 DEF NewStream
  <2>3. hello \in Items
    BY <2>1, <2>2, Messages
  <2> QED
    BY <2>2, <2>3, StartPipes
<1>2. CASE NewProxyStream
  <2>1. StartStream("peer0", Message("ProxyBuildConnectionToPeer", "peer2"), NoHandle, FALSE)
    BY <1>2 DEF NewProxyStream
  <2>2. Message("ProxyBuildConnectionToPeer", "peer2") \in Items
    BY Messages DEF Ends
  <2> QED
    BY <2>1, <2>2, StartPipes
<1>3. ASSUME NEW h \in Hops, HopStep(h) PROVE PipesOK'
  <2>1. CASE Transport(h)
    BY <2>1, TransportPipes
  <2>2. CASE PollHello(h) \/ PollBuild(h)
    <3>1. PICK chunk \in Chunks(h) : ReadFrame(h, chunk)
      BY <2>2 DEF PollHello, PollBuild
    <3>2. out' = out
      BY <2>2 DEF PollHello, PollBuild
    <3>3. net' \in [Hops -> Seq(Items)] /\ overflow' \in [Hops -> Seq(Items)]
      BY <3>1, <3>2, ReadFrameFacts
    <3> QED
      BY <3>2, <3>3, ReadPipes
  <2>3. CASE UserPoll(h) \/ \E size \in 1..BufSize : UserRead(h, size)
    BY <2>3, UserReads
  <2>4. CASE HelloTimeout(h) \/ ContextPoll(h) \/ UserEof(h) \/ StreamDropped(h)
    <3>1. UNCHANGED pipes
      BY <2>4 DEF HelloTimeout, ContextPoll, UserEof, StreamDropped
    <3> QED
      BY <3>1, SamePipes
  <2> QED
    BY <1>3, <2>1, <2>2, <2>3, <2>4 DEF HopStep
<1>4. CASE Write
  BY <1>4, WritePipes
<1>5. CASE SwitchToProxy
  <2>1. Len(out[1]) <= 1
    BY <1>0, <1>5 DEF SwitchToProxy, PipeInv
  <2> QED
    BY <1>5, <2>1, SwitchPipes
<1>6. CASE RelayOpens
  <2>1. reader[2] = "none"
    BY <1>0, <1>6 DEF RelayOpens, HopsInv
  <2>2. out[2] = <<>> /\ net[2] = <<>> /\ overflow[2] = <<>>
    BY <1>0, <2>1 DEF PipeInv
  <2> QED
    BY <1>6, <2>2, RelayOpensPipes
<1>7. CASE RelayForward
  BY <1>7, RelayPipes
<1>8. ASSUME NEW c \in up, ConnectionLost(c) PROVE PipesOK'
  BY <1>8, LostPipes
<1>9. CASE OpenerDrops \/ RelayEnds \/ \E p \in Ends : ContextEnds(p) \/ ContextDropped(p)
  <2>1. UNCHANGED pipes
    BY <1>9 DEF OpenerDrops, RelayEnds, ContextEnds, ContextDropped
  <2> QED
    BY <2>1, SamePipes
<1> QED
  BY <1>1, <1>2, <1>3, <1>4, <1>5, <1>6, <1>7, <1>8, <1>9 DEF Next

-----------------------------------------------------------------------------
(* What the far end expects *)

\* What Link, the hello and the rest of the messages depend on.
LEMMA LinkFixed ==
    ASSUME UNCHANGED <<proxied, opener>>
    PROVE  \A h : Link(h)' = Link(h)
  BY DEF Link, Neighbour, OtherEnd

LEMMA MessagesFixed ==
    ASSUME UNCHANGED <<proxied, opener, ready>>
    PROVE  Hello' = Hello /\ Switch' = Switch
  BY DEF Hello, Switch, Message, OtherEnd

\* A choice of messages and rest for the next state.
LEMMA FlowIntro ==
    ASSUME NEW proto \in Seq(Items), NEW rest \in Seq(Data),
           Cat(received', rest) = sent', Ahead(proto)', Flow(Cat(proto, rest))'
    PROVE  FlowInv'
  BY DEF FlowInv

\* Nothing to read any more: the rest is as good as any.
LEMMA FlowOver ==
    ASSUME FlowInv, UNCHANGED <<sent, received>>,
           reader'[1] # "waiting", reader'[2] \notin {"waiting", "building"},
           reader'[2] = "over" \/ (reader'[1] = "over" /\ reader'[2] = "none")
    PROVE  FlowInv'
<1>1. PICK rest \in Seq(Data) : Cat(received, rest) = sent
  BY DEF FlowInv
<1> DEFINE p == <<>>
<1>2. p \in Seq(Items) /\ Ahead(p)'
  BY SMTT(20) DEF Ahead
<1> HIDE DEF p
<1>3. Flow(Cat(p, rest))'
  BY DEF Flow
<1>4. Cat(received', rest) = sent'
  BY <1>1
<1> QED
  BY <1>2, <1>3, <1>4, FlowIntro

LEMMA AheadSame ==
    ASSUME NEW proto, Ahead(proto), reader \in [Hops -> Stages],
           UNCHANGED <<proxied, opener, ready, request>>,
           \A h \in Hops : \/ reader'[h] = reader[h]
                           \/ reader[h] = "passed" /\ reader'[h] = "delivered"
    PROVE  Ahead(proto)'
<1>1. /\ \A h \in Hops : /\ reader'[h] = "waiting" <=> reader[h] = "waiting"
                         /\ reader'[h] = "building" <=> reader[h] = "building"
      /\ 1 \in Hops /\ 2 \in Hops
  BY DEF Hops
<1>2. Hello' = Hello /\ Switch' = Switch /\ opener' = opener /\ request' = request
  BY MessagesFixed
<1>3. Message("User", opener)' = Message("User", opener)
      /\ Message("BuildConnectionToPeer", opener)' = Message("BuildConnectionToPeer", opener)
      /\ Address' = Address
  BY DEF Message, Address, Relay
<1> QED
  BY <1>1, <1>2, <1>3 DEF Ahead

\* Steps that move nothing of the stream.
LEMMA FlowSame ==
    ASSUME TypeOK, FlowInv, UNCHANGED <<proxied, up, opener, request, ready, sent, received, intact>>,
           UnderWay(1)' = UnderWay(1), UnderWay(2)' = UnderWay(2), finished[1] => finished'[1],
           \A h \in Hops : \/ reader'[h] = reader[h]
                           \/ reader[h] = "passed" /\ reader'[h] = "delivered"
    PROVE  FlowInv'
<1>1. PICK proto \in Seq(Items), rest \in Seq(Data) :
         Cat(received, rest) = sent /\ Ahead(proto) /\ Flow(Cat(proto, rest))
  BY DEF FlowInv
<1>2. reader \in [Hops -> Stages]
  BY SMTT(20) DEF TypeOK
<1>3. Ahead(proto)'
  BY <1>1, <1>2, AheadSame
<1>4. Piped' = Piped
  BY DEF Piped
<1>5. Link(1)' = Link(1) /\ Link(2)' = Link(2)
  BY LinkFixed
<1>6. /\ \A h \in Hops : \A s \in {"over", "relaying", "none"} : reader'[h] = s <=> reader[h] = s
      /\ 1 \in Hops /\ 2 \in Hops
  BY DEF Hops
<1> DEFINE e == Cat(proto, rest)
<1>7. Flow(e)
  BY <1>1
<1> HIDE DEF e
<1>8. Flow(e)'
  BY <1>4, <1>5, <1>6, <1>7 DEF Flow
<1>9. Flow(Cat(proto, rest))' /\ Cat(received', rest) = sent'
  BY <1>1, <1>8 DEF e
<1> QED
  BY <1>3, <1>9, FlowIntro

\* The opener writes an item.
LEMMA FlowAppend ==
    ASSUME FlattenLaws, TypeOK, NEW e \in Seq(Items), NEW x \in Items, Flow(e), Link(1) \in up, ~finished[1],
           UNCHANGED <<proxied, up, opener, reader, intact, finished>>,
           UnderWay(2)' = UnderWay(2), UnderWay(1)' = Cat(UnderWay(1), One(x))
    PROVE  Flow(Cat(e, One(x)))'
<1>1. /\ UnderWay(1) \in Seq(Items) /\ UnderWay(2) \in Seq(Items)
      /\ One(x) \in Seq(Items)
  BY UnderWayType, OneItem DEF Hops
<1>2. Piped' = Cat(Piped, One(x)) /\ Piped \in Seq(Items)
  BY <1>1, CatLaws, SMTT(20) DEF Piped
<1>3. Link(1)' = Link(1) /\ Link(2)' = Link(2)
  BY LinkFixed
<1>4. Cat(e, One(x)) \in Seq(Items)
  BY <1>1, CatLaws
<1>5. Prefix(Cat(e, One(x)), Cat(e, One(x)))
  BY <1>4, PrefixLaws
<1>6. Prefix(UnderWay(2), e) => Prefix(UnderWay(2), Cat(e, One(x)))
  BY <1>1, PrefixLaws, SMTT(20)
<1>7. /\ reader[1] # "over" /\ reader[2] # "over" /\ (reader[1] = "relaying" => Link(2) \in up)
           => Piped = e
      /\ reader[2] \notin {"none", "over"} => Prefix(UnderWay(2), e)
      /\ ~(intact /\ reader[1] = "over" /\ reader[2] \notin {"none", "over"})
  BY DEF Flow
<1> DEFINE f == Cat(e, One(x))
<1>8. Prefix(f, f) /\ (Piped = e => Piped' = f) /\ (Prefix(UnderWay(2), e) => Prefix(UnderWay(2), f))
  BY <1>2, <1>5, <1>6
<1> HIDE DEF f
<1>9. Flow(f)'
  BY <1>3, <1>7, <1>8 DEF Flow
<1> QED
  BY <1>9 DEF f

\* The far end reads what comes first.
LEMMA FlowRead ==
    ASSUME FlattenLaws, TypeOK, StageInv, NEW e \in Seq(Items), NEW c \in Seq(Items), Flow(Cat(c, e)),
           NEW h \in Hops, reader[h] \in {"waiting", "building", "delivered"},
           UnderWay(h) = Cat(c, UnderWay(h)'), UnderWay(h)' \in Seq(Items),
           \A g \in Hops : g # h => UnderWay(g)' = UnderWay(g) /\ reader'[g] = reader[g],
           UNCHANGED <<proxied, up, opener, intact, finished>>,
           reader'[h] \notin {"none", "over", "relaying"}
    PROVE  Flow(e)'
<1>0. /\ 1 \in Hops /\ 2 \in Hops /\ 1 # 2 /\ Cat(c, e) \in Seq(Items)
      /\ UnderWay(1) \in Seq(Items) /\ UnderWay(2) \in Seq(Items)
  BY UnderWayType, CatLaws, SMTT(20) DEF Hops
<1>1. Link(1)' = Link(1) /\ Link(2)' = Link(2)
  BY LinkFixed
<1>2. Piped = Cat(c, Piped') /\ Piped' \in Seq(Items)
  <2>1. CASE h = 1
    <3>1. reader[2] = "none"
      BY <2>1 DEF StageInv, HopsInv
    <3>2. UnderWay(2) = <<>> /\ Piped = UnderWay(1) /\ UnderWay(2)' = UnderWay(2)
      BY <1>0, <2>1, <3>1, HopTwoEmpty
    <3>3. Piped' = UnderWay(1)'
      BY <2>1, <3>2, CatLaws, SMTT(20) DEF Piped
    <3> QED
      BY <2>1, <3>2, <3>3
  <2>2. CASE h = 2
    <3>1. UnderWay(1)' = UnderWay(1)
      BY <1>0, <2>2
    <3>2. Cat(Cat(c, UnderWay(2)'), UnderWay(1)) = Cat(c, Cat(UnderWay(2)', UnderWay(1)))
          /\ Cat(UnderWay(2)', UnderWay(1)) \in Seq(Items)
      BY <1>0, <2>2, CatLaws, SMTT(20)
    <3> QED
      BY <2>2, <3>1, <3>2 DEF Piped
  <2> QED
    BY <2>1, <2>2 DEF Hops
<1>3. Prefix(Piped, Cat(c, e)) => Prefix(Piped', e)
  BY <1>2, PrefixCancel
<1>c. \A r \in Seq(Items) : Cat(c, r) = Cat(c, e) => r = e
  BY CatLaws, SMTT(20)
<1>4. Piped = Cat(c, e) => Piped' = e
  BY <1>2, <1>c
<1>5. CASE h = 1
  <2>1. reader[2] = "none" /\ reader'[2] = "none"
    BY <1>0, <1>5 DEF StageInv, HopsInv
  <2> QED
    BY <1>1, <1>3, <1>4, <1>5, <2>1 DEF Flow
<1>6. CASE h = 2
  <2>1. Prefix(UnderWay(2), Cat(c, e)) => Prefix(UnderWay(2)', e)
    BY <1>6, PrefixCancel
  <2>2. UnderWay(2) = Cat(c, e) => UnderWay(2)' = e
    BY <1>6, <1>c
  <2>3. reader'[1] = reader[1] /\ reader[2] \notin {"none", "over"}
    BY <1>0, <1>6
  <2>4. reader'[2] \notin {"none", "over"}
    BY <1>6
  <2> DEFINE f == Cat(c, e)
  <2>5. Flow(f) /\ (Prefix(Piped, f) => Prefix(Piped', e)) /\ (Piped = f => Piped' = e)
        /\ (Prefix(UnderWay(2), f) => Prefix(UnderWay(2)', e)) /\ (UnderWay(2) = f => UnderWay(2)' = e)
    BY <1>3, <1>4, <2>1, <2>2
  <2> HIDE DEF f
  <2> QED
    BY <1>1, <2>3, <2>4, <2>5 DEF Flow
<1> QED
  BY <1>5, <1>6 DEF Hops
=============================================================================
