---------------------- MODULE RegistryConnectionProofs ----------------------
(***************************************************************************)
(* Theorems about the timing of the connection to a remote registry, for   *)
(* all intervals, timeouts, numbers of strategies and scheduling lags.     *)
(*                                                                         *)
(* Each history variable that measures a time is tied to the timer the     *)
(* code has: their sum is the duration of the timer while it runs, and     *)
(* once it has elapsed the task is woken, so that only Lag can be added.   *)
(***************************************************************************)
EXTENDS RegistryConnection, TLAPS

\* wait_between_resolve never elapses before ResolveTimeout is over.
ResolveInv == sinceResolve + wait >= ResolveTimeout

\* The timeout of the connecting state and the time spent in it.
StageInv ==
    handler \in Connecting =>
        /\ timeout > 0 => sinceStage + timeout = ConnectTimeout
        /\ timeout = 0 => /\ task = "woken"
                          /\ sinceStage >= ConnectTimeout
                          /\ sinceStage <= ConnectTimeout + delay

\* The longest time one stage takes.
Stage == ConnectTimeout + Lag

\* The time spent on an address before the current stage.
StartInv ==
    handler \in Connecting =>
        sinceStart <= 2 * (Strategies - strategies - 1) * Stage
                      + (IF handler = "WaitForConnection" THEN 0 ELSE Stage)
                      + sinceStage

\* pong_timeout and the silence of the remote peer. Once a Pong has arrived
\* the silence is over and only the poll is outstanding.
LinkInv ==
    handler = "HandleConnection" =>
        /\ pongs = 0 /\ pong > 0 => quiet + pong = PongTimeout
        /\ pongs = 0 /\ pong = 0 => /\ task = "woken"
                                    /\ quiet >= PongTimeout
                                    /\ quiet <= PongTimeout + delay
        /\ pongs > 0 => /\ task = "woken"
                        /\ quiet + pong + delay >= PongTimeout
                        /\ quiet <= PongTimeout + Lag

\* What the bound on the time for an address needs of multiplication.
LEMMA OneMore ==
    ASSUME NEW n \in Int, NEW b \in Int
    PROVE  2 * (n + 1) * b = 2 * n * b + b + b
  OBVIOUS

\* Types are kept by every step.
LEMMA TypeStep == TypeOK /\ [Next]_vars => TypeOK'
<1> SUFFICES ASSUME TypeOK, [Next]_vars PROVE TypeOK'
  OBVIOUS
<1> USE ClockAssumption DEF TypeOK, Connecting, PongTimeout, addrVars, connectVars,
        linkVars
<1>1. CASE ResolveAgain
  BY <1>1 DEF ResolveAgain, Continue
<1>2. CASE NoAddressYet
  BY <1>2 DEF NoAddressYet, Sleep
<1>3. ASSUME NEW outcome \in {"pending", "failed"}, ConnectToPeer(outcome)
      PROVE  TypeOK'
  <2>1. (delay' = delay \/ delay' = 0) /\ task' \in {"woken", "asleep"}
    BY <1>3 DEF ConnectToPeer, Sleep, Continue
  <2> QED
    BY <1>3, <2>1 DEF ConnectToPeer, StartStrategy
<1>4. ASSUME NEW outcome \in {"pending", "failed"}, NextStrategy(outcome)
      PROVE  TypeOK'
  <2>1. (delay' = delay \/ delay' = 0) /\ task' \in {"woken", "asleep"}
    BY <1>4 DEF NextStrategy, Sleep, Continue
  <2> QED
    BY <1>4, <2>1 DEF NextStrategy, StartStrategy, DropConnect
<1>5. CASE ConnectionMade
  BY <1>5 DEF ConnectionMade, Continue
<1>6. CASE StreamMade
  BY <1>6 DEF StreamMade, DropConnect, Continue
<1>7. CASE NotConnectedYet
  BY <1>7 DEF NotConnectedYet, Sleep
<1>8. CASE GiveUpConnection
  BY <1>8 DEF GiveUpConnection, DropLink, Continue
<1>9. CASE PollConnection
  <2>1. pings' \in Nat /\ writer' \in {"ready", "blocked"}
    BY <1>9 DEF PollConnection, PollPing, PingSent
  <2>2. ping' \in Int /\ ping' <= PingInterval /\ interval' \in {"registered", "unregistered"}
    BY <1>9 DEF PollConnection, PollPing
  <2> QED
    BY <1>9, <2>1, <2>2 DEF PollConnection, PongRead, Sleep
<1>10. ASSUME NEW what \in {"address", "ended"}, Resolved(what) PROVE TypeOK'
  BY <1>10 DEF Resolved
<1>11. ASSUME NEW what \in {"ready", "failed"}, ConnectAnswered(what) PROVE TypeOK'
  BY <1>11 DEF ConnectAnswered
<1>12. CASE PongArrives \/ PongRefused \/ WriteReady
  BY <1>12 DEF PongArrives, PongRefused, WriteReady
<1>13. CASE StreamEnds \/ OtherWork
  BY <1>13 DEF StreamEnds, OtherWork
<1>14. CASE Tick
  BY <1>14 DEF Tick, Less
<1>15. CASE UNCHANGED vars
  BY <1>15 DEF vars
<1> QED
  BY <1>1, <1>2, <1>3, <1>4, <1>5, <1>6, <1>7, <1>8, <1>9, <1>10, <1>11, <1>12,
     <1>13, <1>14, <1>15 DEF Next, Poll

\* Every variable keeps its type: no timer runs below zero, no strategy is
\* taken that is not there, and no poll is overdue.
THEOREM TypeCorrect == Spec => []TypeOK
<1>1. Init => TypeOK
  BY ClockAssumption DEF Init, TypeOK, PongTimeout
<1>2. TypeOK /\ [Next]_vars => TypeOK'
  BY TypeStep
<1> QED
  BY <1>1, <1>2, PTL DEF Spec

-----------------------------------------------------------------------------
(* GetNextAddr *)

\* The time since the resolvers were asked and the delay make up for each other.
LEMMA ResolveInvStep == TypeOK /\ ResolveInv /\ [Next]_vars => ResolveInv'
<1> SUFFICES ASSUME TypeOK, ResolveInv, [Next]_vars PROVE ResolveInv'
  OBVIOUS
<1> USE ClockAssumption DEF TypeOK, ResolveInv, addrVars
<1>1. CASE ResolveAgain
  BY <1>1 DEF ResolveAgain
<1>2. CASE Tick
  BY <1>2 DEF Tick, Less
<1>3. CASE UNCHANGED <<wait, sinceResolve>>
  BY <1>3
<1>4. ASSUME Next, ~ResolveAgain, ~Tick PROVE UNCHANGED <<wait, sinceResolve>>
  BY <1>4 DEF Next, Poll, NoAddressYet, ConnectToPeer, NextStrategy, ConnectionMade,
     StreamMade, NotConnectedYet, GiveUpConnection, PollConnection, Resolved,
     ConnectAnswered, PongArrives, PongRefused, WriteReady, StreamEnds, OtherWork
<1> QED
  BY <1>1, <1>2, <1>3, <1>4 DEF vars

\* Resolvers are never asked twice within ResolveTimeout.
THEOREM ResolvesAreApart == Spec => NoHotLoop
<1>1. Init => ResolveInv
  BY ClockAssumption DEF Init, ResolveInv
<1>2. TypeOK /\ ResolveInv /\ [Next]_vars
          => [ResolveAgain => sinceResolve >= ResolveTimeout]_vars
  BY ClockAssumption DEF TypeOK, ResolveInv, ResolveAgain
<1> QED
  BY <1>1, <1>2, TypeCorrect, ResolveInvStep, PTL DEF Spec, NoHotLoop

-----------------------------------------------------------------------------
(* ConnectWithStrategies *)

\* The steps that touch no variable of the connection attempt.
NoConnectStep ==
    UNCHANGED <<handler, timeout, sinceStage, sinceStart, strategies>>

\* Steps that leave the attempt alone do not put a woken task to sleep when its
\* timeout has elapsed.
LEMMA OtherSteps ==
    ASSUME TypeOK, Next, handler' \in Connecting, ~Tick, ~ConnectionMade,
           \A outcome \in {"pending", "failed"} :
               ~ConnectToPeer(outcome) /\ ~NextStrategy(outcome)
    PROVE  /\ NoConnectStep
           /\ task = "woken" /\ timeout = 0 => task' = "woken" /\ delay' = delay
<1> USE DEF TypeOK, Connecting, NoConnectStep, connectVars
<1>1. CASE NotConnectedYet
  BY <1>1 DEF NotConnectedYet, ConnectFailed
<1>2. ASSUME NEW what \in {"ready", "failed"}, ConnectAnswered(what)
      PROVE  /\ NoConnectStep
             /\ task = "woken" /\ timeout = 0 => task' = "woken" /\ delay' = delay
  BY <1>2 DEF ConnectAnswered
<1>3. ASSUME NEW what \in {"address", "ended"}, Resolved(what)
      PROVE  /\ NoConnectStep
             /\ task = "woken" /\ timeout = 0 => task' = "woken" /\ delay' = delay
  BY <1>3 DEF Resolved
<1> QED
  BY <1>1, <1>2, <1>3 DEF Next, Poll, ResolveAgain, NoAddressYet, StreamMade,
     GiveUpConnection, PollConnection, PongArrives, PongRefused, WriteReady,
     StreamEnds, OtherWork

\* The timeout of a stage and the time spent in it make up for each other.
LEMMA StageInvStep == TypeOK /\ TypeOK' /\ StageInv /\ [Next]_vars => StageInv'
<1> SUFFICES ASSUME TypeOK, TypeOK', StageInv, [Next]_vars, handler' \in Connecting
             PROVE  StageInv'
  BY DEF StageInv
<1> USE DEF StageInv, Connecting
<1> ConnectTimeout \in Nat /\ ConnectTimeout > 0
  BY ClockAssumption
<1>1. ASSUME NEW outcome \in {"pending", "failed"}, ConnectToPeer(outcome)
      PROVE  StageInv'
  BY <1>1 DEF ConnectToPeer, StartStrategy
<1>2. ASSUME NEW outcome \in {"pending", "failed"}, NextStrategy(outcome)
      PROVE  StageInv'
  BY <1>2 DEF NextStrategy, StartStrategy
<1>3. CASE ConnectionMade
  BY <1>3 DEF ConnectionMade
<1>4. CASE Tick
  <2>1. /\ handler \in Connecting /\ handler' = handler
        /\ timeout' = Less(timeout) /\ sinceStage' = sinceStage + 1
    BY <1>4 DEF Tick
  <2>2. /\ task = "woken" => task' = "woken" /\ delay' = delay + 1
        /\ timeout = 1 => task' = "woken"
    BY <1>4, <2>1 DEF Tick, TimerFires
  <2>3. timeout \in Nat /\ sinceStage \in Nat /\ delay \in Nat
    BY DEF TypeOK
  <2>4. CASE timeout > 1
    BY <2>1, <2>3, <2>4 DEF Less
  <2>5. CASE timeout = 1
    <3>1. timeout' = 0 /\ sinceStage' = ConnectTimeout /\ task' = "woken"
      BY <2>1, <2>2, <2>3, <2>5 DEF Less
    <3>2. PICK n \in Nat : delay' = n
      BY DEF TypeOK
    <3>3. sinceStage' >= ConnectTimeout /\ sinceStage' <= ConnectTimeout + delay'
      BY <3>1, <3>2
    <3> QED
      BY <3>1, <3>3
  <2>6. CASE timeout = 0
    BY <2>1, <2>2, <2>3, <2>6 DEF Less
  <2> QED
    BY <2>3, <2>4, <2>5, <2>6
<1>5. CASE UNCHANGED vars
  BY <1>5 DEF vars, connectVars
<1>6. ASSUME NoConnectStep,
             task = "woken" /\ timeout = 0 => task' = "woken" /\ delay' = delay
      PROVE  StageInv'
  BY <1>6 DEF NoConnectStep, TypeOK
<1> QED
  BY <1>1, <1>2, <1>3, <1>4, <1>5, <1>6, OtherSteps

\* A stage that goes on is at most Stage old.
LEMMA StageIsShort ==
    ASSUME TypeOK, StageInv, handler \in Connecting
    PROVE  sinceStage <= Stage
<1>1. /\ timeout \in Nat /\ sinceStage \in Nat /\ delay \in Nat /\ delay <= Lag
      /\ ConnectTimeout \in Nat /\ Lag \in Nat
  BY ClockAssumption DEF TypeOK
<1> QED
  BY <1>1 DEF StageInv, Stage

\* The time for an address grows by at most two stages with every strategy.
LEMMA StartInvStep == TypeOK /\ TypeOK' /\ StageInv /\ StartInv /\ [Next]_vars => StartInv'
<1> SUFFICES ASSUME TypeOK, TypeOK', StageInv, StartInv, [Next]_vars,
                    handler' \in Connecting
             PROVE  StartInv'
  BY DEF StartInv
<1> DEFINE tried == Strategies - strategies - 1
           done == IF handler = "WaitForConnection" THEN 0 ELSE Stage
<1>1. /\ Stage \in Nat /\ Strategies \in Nat /\ strategies \in Nat /\ tried \in Int
      /\ sinceStart \in Nat /\ sinceStage \in Nat
  BY ClockAssumption DEF TypeOK, Stage
<1>2. ASSUME NEW outcome \in {"pending", "failed"}, ConnectToPeer(outcome)
      PROVE  StartInv'
  <2>1. /\ handler' = "WaitForConnection" /\ sinceStart' = 0 /\ sinceStage' = 0
        /\ strategies' = Strategies - 1
    BY <1>2 DEF ConnectToPeer, StartStrategy
  <2>2. Strategies - strategies' - 1 = 0
    BY <1>1, <2>1
  <2> QED
    BY <1>1, <2>1, <2>2 DEF StartInv
<1>3. ASSUME NEW outcome \in {"pending", "failed"}, NextStrategy(outcome)
      PROVE  StartInv'
  <2>1. /\ handler \in Connecting /\ handler' = "WaitForConnection"
        /\ sinceStart' = sinceStart /\ sinceStage' = 0
        /\ strategies' = strategies - 1
    BY <1>3 DEF NextStrategy, StartStrategy, Connecting
  <2>2. sinceStart <= 2 * tried * Stage + Stage + Stage
    BY <1>1, <2>1, StageIsShort DEF StartInv
  <2>3. Strategies - strategies' - 1 = tried + 1
    BY <1>1, <2>1
  <2>4. 2 * (tried + 1) * Stage = 2 * tried * Stage + Stage + Stage
    BY <1>1, OneMore
  <2> QED
    BY <1>1, <2>1, <2>2, <2>3, <2>4 DEF StartInv
<1>4. CASE ConnectionMade
  <2>1. /\ handler = "WaitForConnection" /\ handler' = "WaitForConnectStream"
        /\ strategies' = strategies /\ sinceStart' = sinceStart /\ sinceStage' = 0
    BY <1>4 DEF ConnectionMade
  <2>2. sinceStage <= Stage
    BY <2>1, StageIsShort DEF Connecting
  <2> QED
    BY <1>1, <2>1, <2>2 DEF StartInv, Connecting
<1>5. CASE Tick
  <2>1. /\ handler \in Connecting /\ handler' = handler /\ strategies' = strategies
        /\ sinceStart' = sinceStart + 1 /\ sinceStage' = sinceStage + 1
    BY <1>5 DEF Tick
  <2> QED
    BY <1>1, <2>1 DEF StartInv
<1>6. CASE UNCHANGED vars
  BY <1>6 DEF vars, connectVars, StartInv
<1>7. ASSUME NoConnectStep PROVE StartInv'
  BY <1>7 DEF NoConnectStep, StartInv
<1> QED
  BY <1>2, <1>3, <1>4, <1>5, <1>6, <1>7, OtherSteps

\* StageInv holds throughout.
LEMMA StageInvHolds == Spec => []StageInv
<1>1. Init => StageInv
  BY DEF Init, StageInv, Connecting
<1> QED
  BY <1>1, TypeCorrect, StageInvStep, PTL DEF Spec

\* Whatever the network does, ConnectWithStrategies comes to an end in time.
THEOREM ConnectEndsInTime == Spec => []ConnectIsBounded
<1>1. Init => StartInv
  BY DEF Init, StartInv, Connecting
<1>2. TypeOK /\ StageInv /\ StartInv => ConnectIsBounded
  <2> SUFFICES ASSUME TypeOK, StageInv, StartInv, handler \in Connecting
               PROVE  sinceStart <= 2 * (Strategies - strategies) * Stage
    BY DEF ConnectIsBounded, Stage
  <2> DEFINE tried == Strategies - strategies - 1
  <2>1. /\ Stage \in Nat /\ Strategies \in Nat /\ strategies \in Nat /\ tried \in Int
        /\ sinceStart \in Nat /\ sinceStage \in Nat
    BY ClockAssumption DEF TypeOK, Stage
  <2>2. sinceStart <= 2 * tried * Stage + Stage + Stage
    BY <2>1, StageIsShort DEF StartInv
  <2>3. 2 * (tried + 1) * Stage = 2 * tried * Stage + Stage + Stage
    BY <2>1, OneMore
  <2>4. tried + 1 = Strategies - strategies
    BY <2>1
  <2> QED
    BY <2>2, <2>3, <2>4
<1> QED
  BY <1>1, <1>2, TypeCorrect, StageInvHolds, StartInvStep, PTL DEF Spec

\* Neither stage of connecting is cut short by the time the other one took.
THEOREM StagesAreNotCutShort == Spec => StageHasFullTimeout
<1>1. TypeOK /\ StageInv /\ [Next]_vars =>
          [\A outcome \in {"pending", "failed"} :
               NextStrategy(outcome) /\ connect # "failed"
                   => sinceStage >= ConnectTimeout]_vars
  BY DEF StageInv, NextStrategy, ConnectFailed
<1> QED
  BY <1>1, TypeCorrect, StageInvHolds, PTL DEF Spec, StageHasFullTimeout

-----------------------------------------------------------------------------
(* OutgoingStream *)

\* Steps that happen while the connection is kept, but do not poll it.
LEMMA LinkSteps ==
    ASSUME TypeOK, Next, handler' = "HandleConnection", ~Tick, ~StreamMade,
           ~PollConnection, ~PongArrives, ~PongRefused, ~WriteReady
    PROVE  /\ UNCHANGED <<handler, pong, pongs, quiet, delay, interval, pings, writer, answer>>
           /\ task = "woken" => task' = "woken"
<1> USE DEF linkVars
<1>1. CASE StreamEnds \/ OtherWork
  BY <1>1 DEF StreamEnds, OtherWork
<1>2. ASSUME NEW what \in {"address", "ended"}, Resolved(what)
      PROVE  /\ UNCHANGED <<handler, pong, pongs, quiet, delay, interval, pings, writer, answer>>
             /\ task = "woken" => task' = "woken"
  BY <1>2 DEF Resolved
<1> QED
  BY <1>1, <1>2 DEF Next, Poll, ResolveAgain, NoAddressYet, ConnectToPeer, NextStrategy,
     StartStrategy, ConnectionMade, NotConnectedYet, GiveUpConnection, ConnectAnswered,
     Connecting

\* pong_timeout and the silence make up for each other.
LEMMA LinkInvStep == TypeOK /\ TypeOK' /\ LinkInv /\ [Next]_vars => LinkInv'
<1> SUFFICES ASSUME TypeOK, TypeOK', LinkInv, [Next]_vars, handler' = "HandleConnection"
             PROVE  LinkInv'
  BY DEF LinkInv
<1>1. /\ PongTimeout \in Nat /\ PongTimeout > 0 /\ Lag \in Nat
      /\ pong \in Nat /\ pongs \in Nat /\ quiet \in Nat /\ delay \in Nat /\ delay <= Lag
      /\ pings \in Nat
  BY ClockAssumption DEF TypeOK, PongTimeout
<1>2. CASE StreamMade
  BY <1>1, <1>2 DEF StreamMade, LinkInv
<1>3. CASE PollConnection
  <2>1. handler = "HandleConnection" /\ pong > 0 /\ pongs' = 0
    BY <1>1, <1>3 DEF PollConnection, TimedOut, PongRead
  <2>2. CASE pongs > 0
    BY <1>1, <1>3, <2>1, <2>2 DEF PollConnection, PongRead, LinkInv
  <2>3. CASE pongs = 0
    <3>1. pong' = pong /\ quiet' = quiet
      BY <1>3, <2>3 DEF PollConnection, PongRead
    <3> QED
      BY <1>1, <2>1, <2>3, <3>1 DEF LinkInv
  <2> QED
    BY <1>1, <2>2, <2>3
<1>4. CASE PongArrives
  <2>1. /\ handler = "HandleConnection" /\ pongs' = pongs + 1 /\ task' = "woken"
        /\ pong' = pong /\ quiet' = quiet /\ delay' = delay
    BY <1>4 DEF PongArrives
  <2>2. quiet + pong + delay >= PongTimeout /\ quiet <= PongTimeout + Lag
    <3>1. CASE pongs > 0
      BY <1>1, <2>1, <3>1 DEF LinkInv
    <3>2. CASE pongs = 0 /\ pong > 0
      BY <1>1, <2>1, <3>2 DEF LinkInv
    <3>3. CASE pongs = 0 /\ pong = 0
      BY <1>1, <2>1, <3>3 DEF LinkInv
    <3> QED
      BY <1>1, <3>1, <3>2, <3>3
  <2> QED
    BY <1>1, <2>1, <2>2 DEF LinkInv
<1>5. CASE Tick
  <2>1. /\ handler = "HandleConnection" /\ pongs' = pongs
        /\ pong' = Less(pong) /\ quiet' = IF pongs = 0 THEN quiet + 1 ELSE quiet
    BY <1>5 DEF Tick
  <2>2. /\ task = "woken" => task' = "woken" /\ delay' = delay + 1 /\ delay < Lag
        /\ pong = 1 => task' = "woken"
    BY <1>5, <2>1 DEF Tick, TimerFires
  <2>3. CASE pongs > 0
    <3>1. /\ task = "woken" /\ quiet + pong + delay >= PongTimeout
          /\ quiet <= PongTimeout + Lag
      BY <2>1, <2>3 DEF LinkInv
    <3>2. pong' >= pong - 1 /\ delay' = delay + 1 /\ quiet' = quiet /\ pong' \in Int
      BY <1>1, <2>1, <2>2, <2>3, <3>1 DEF Less
    <3>3. PICK m \in Int : pong' = m
      BY <3>2
    <3>4. quiet + m + (delay + 1) >= PongTimeout
      BY <1>1, <3>1, <3>2, <3>3
    <3> QED
      BY <1>1, <2>1, <2>2, <2>3, <3>1, <3>2, <3>3, <3>4 DEF LinkInv
  <2>4. CASE pongs = 0 /\ pong > 1
    <3>1. quiet + pong = PongTimeout /\ pong' = pong - 1 /\ quiet' = quiet + 1
      BY <1>1, <2>1, <2>4 DEF LinkInv, Less
    <3> QED
      BY <1>1, <2>1, <2>4, <3>1 DEF LinkInv
  <2>5. CASE pongs = 0 /\ pong = 1
    <3>1. pong' = 0 /\ quiet' = PongTimeout /\ task' = "woken"
      BY <1>1, <2>1, <2>2, <2>5 DEF LinkInv, Less
    <3>2. PICK n \in Nat : delay' = n
      BY DEF TypeOK
    <3>3. quiet' >= PongTimeout /\ quiet' <= PongTimeout + delay'
      BY <1>1, <3>1, <3>2
    <3> QED
      BY <2>1, <2>5, <3>1, <3>3 DEF LinkInv
  <2>6. CASE pongs = 0 /\ pong = 0
    <3>1. /\ pong' = 0 /\ quiet' = quiet + 1 /\ task' = "woken" /\ delay' = delay + 1
          /\ quiet >= PongTimeout /\ quiet <= PongTimeout + delay
      BY <1>1, <2>1, <2>2, <2>6 DEF LinkInv, Less
    <3> QED
      BY <1>1, <2>1, <2>6, <3>1 DEF LinkInv
  <2> QED
    BY <1>1, <2>3, <2>4, <2>5, <2>6
<1>6. CASE UNCHANGED vars
  BY <1>6 DEF vars, linkVars, LinkInv
<1>7. ASSUME UNCHANGED <<handler, pong, pongs, quiet, delay>>,
             task = "woken" => task' = "woken"
      PROVE  LinkInv'
  BY <1>7 DEF LinkInv
<1>8. CASE PongRefused \/ WriteReady
  BY <1>7, <1>8 DEF PongRefused, WriteReady
<1> QED
  BY <1>2, <1>3, <1>4, <1>5, <1>6, <1>7, <1>8, LinkSteps

\* LinkInv holds throughout.
LEMMA LinkInvHolds == Spec => []LinkInv
<1>1. Init => LinkInv
  BY DEF Init, LinkInv
<1> QED
  BY <1>1, TypeCorrect, LinkInvStep, PTL DEF Spec

\* A silent remote peer is noticed after three intervals.
THEOREM SilenceIsAlwaysNoticed == Spec => []SilenceIsNoticed
<1>1. TypeOK /\ LinkInv => SilenceIsNoticed
  <2> SUFFICES ASSUME TypeOK, LinkInv, handler = "HandleConnection"
               PROVE  quiet <= PongTimeout + Lag
    BY DEF SilenceIsNoticed
  <2>1. /\ PongTimeout \in Nat /\ Lag \in Nat /\ pong \in Nat /\ pongs \in Nat
        /\ quiet \in Nat /\ delay \in Nat /\ delay <= Lag
    BY ClockAssumption DEF TypeOK, PongTimeout
  <2>2. CASE pongs > 0
    BY <2>1, <2>2 DEF LinkInv
  <2>3. CASE pongs = 0 /\ pong > 0
    BY <2>1, <2>3 DEF LinkInv
  <2>4. CASE pongs = 0 /\ pong = 0
    BY <2>1, <2>4 DEF LinkInv
  <2> QED
    BY <2>1, <2>2, <2>3, <2>4
<1> QED
  BY <1>1, TypeCorrect, LinkInvHolds, PTL

\* A connection whose Pongs come in time is kept.
THEOREM AnsweringPeerIsKept == Spec => GivenUpOnlyAfterSilence
<1>1. TypeOK /\ LinkInv /\ [Next]_vars =>
          [handler = "HandleConnection" /\ handler' = "RequestNextPeerAddr"
               /\ stream = "open" => quiet >= PongTimeout - Lag]_vars
  <2> SUFFICES ASSUME TypeOK, LinkInv, Next, handler = "HandleConnection",
                      handler' = "RequestNextPeerAddr", stream = "open"
               PROVE  quiet >= PongTimeout - Lag
    OBVIOUS
  <2>1. GiveUpConnection
    BY DEF Next, Poll, ResolveAgain, NoAddressYet, ConnectToPeer, NextStrategy,
       ConnectionMade, StreamMade, NotConnectedYet, PollConnection, Resolved,
       ConnectAnswered, PongArrives, PongRefused, WriteReady, StreamEnds, OtherWork,
       Tick, Connecting
  <2>2. pong = 0
    BY <2>1 DEF GiveUpConnection, TimedOut
  <2>3. /\ PongTimeout \in Nat /\ Lag \in Nat /\ pongs \in Nat
        /\ quiet \in Nat /\ delay \in Nat /\ delay <= Lag
    BY ClockAssumption DEF TypeOK, PongTimeout
  <2>4. CASE pongs > 0
    BY <2>2, <2>3, <2>4 DEF LinkInv
  <2>5. CASE pongs = 0
    BY <2>2, <2>3, <2>5 DEF LinkInv
  <2> QED
    BY <2>3, <2>4, <2>5
<1> QED
  BY <1>1, TypeCorrect, LinkInvHolds, PTL DEF Spec, GivenUpOnlyAfterSilence

\* While the connection is kept the task is bound to be polled again, by its
\* timers, its write buffer or a Pong, unless the remote peer's write buffer
\* refused the Pong.
THEOREM PingGoesOn == Spec => []NextPingIsCertain
<1>1. Init => NextPingIsCertain
  BY DEF Init, NextPingIsCertain
<1>2. TypeOK /\ NextPingIsCertain /\ [Next]_vars => NextPingIsCertain'
  <2> SUFFICES ASSUME TypeOK, NextPingIsCertain, [Next]_vars,
                      handler' = "HandleConnection"
               PROVE  NextPingIsCertain'
    BY DEF NextPingIsCertain
  <2> USE DEF NextPingIsCertain
  <2>1. CASE StreamMade
    BY <2>1 DEF StreamMade, Continue
  <2>2. CASE PollConnection
    <3>1. ping \in Int /\ pings \in Nat /\ MaxPings \in Nat /\ MaxPings > 0
      BY ClockAssumption DEF TypeOK
    <3>2. interval' = "registered" \/ pings' > 0 \/ writer' = "blocked"
      BY <2>2, <3>1 DEF PollConnection, PollPing, PingSent
    <3> QED
      BY <3>2
  <2>3. CASE PongArrives \/ PongRefused \/ WriteReady
    BY <2>3 DEF PongArrives, PongRefused, WriteReady
  <2>4. CASE Tick
    BY <2>4 DEF Tick
  <2>5. CASE UNCHANGED vars
    BY <2>5 DEF vars, linkVars
  <2>6. ASSUME UNCHANGED <<handler, interval, pings, writer, answer>>,
               task = "woken" => task' = "woken"
        PROVE  NextPingIsCertain'
    BY <2>6
  <2> QED
    BY <2>1, <2>2, <2>3, <2>4, <2>5, <2>6, LinkSteps
<1> QED
  BY <1>1, <1>2, TypeCorrect, PTL DEF Spec
=============================================================================
