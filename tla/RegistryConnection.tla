------------------------- MODULE RegistryConnection -------------------------
(***************************************************************************)
(* The clock of the connection to a remote registry: how ConnectionHandler *)
(* (src/registries/remote.rs) gets an address from GetNextAddr, connects   *)
(* to it with ConnectWithStrategies (src/connect.rs, src/timeout.rs) and   *)
(* keeps the connection alive with Ping and Pong. RemoteRegistry models    *)
(* the requests that travel over the connection and what happens when the  *)
(* registry is dropped, without time.                                      *)
(*                                                                         *)
(* Time is discrete. A timer is the time left until its deadline. The task *)
(* of the handler runs when it was woken, at most Lag units later; what it *)
(* is woken by is what its last poll registered for. Other machines and    *)
(* the network take as long as they like.                                  *)
(***************************************************************************)
EXTENDS Integers

CONSTANTS
    PingInterval,       \* remote_registry_ping_interval
    ResolveTimeout,     \* remote_registry_address_resolve_timeout
    ConnectTimeout,     \* the 4 s of poll_init_connect
    Strategies,         \* number of strategies to connect with
    Lag,                \* how long a woken task may wait for its poll
    MaxOverdue,         \* bound: ping_interval is counted at most that far behind
    MaxPings            \* bound: Pings without an answer that are counted

ASSUME ClockAssumption ==
    /\ PingInterval \in Nat \ {0}
    /\ ResolveTimeout \in Nat \ {0}
    /\ ConnectTimeout \in Nat \ {0}
    /\ Strategies \in Nat \ {0}
    /\ Lag \in Nat
    /\ MaxOverdue \in Nat
    /\ MaxPings \in Nat \ {0}

VARIABLES
    handler,        \* state of ConnectionHandler and of its ConnectStateMachine
    task,           \* "woken": it was notified, its poll is due; or "asleep"
    delay,          \* for how long the poll has been due
    resolve_addrs,  \* what GetNextAddr::resolve_addrs yields next
    wait,           \* timer wait_between_resolve
    strategies,     \* ConnectWithStrategies: strategies not tried yet
    connect,        \* the future that the connecting state waits for
    timeout,        \* timer of the connecting state
    ping,           \* ping_interval: time to the next tick, negative if overdue
    interval,       \* whether the task is registered with ping_interval
    pong,           \* timer pong_timeout
    pings,          \* Pings on the way that the remote peer has not answered
    pongs,          \* Pongs that arrived and were not read yet
    writer,         \* "blocked": the write buffer refused a Ping, and the task is
                    \* registered with it; or "ready"
    answer,         \* history: "refused" if a Pong was since the last poll of the
                    \* stream, or "free"
    stream,         \* the stream to the remote peer is "open" or "closed"
    sinceResolve,   \* history: time since the resolvers were asked, if below ResolveTimeout
    sinceStart,     \* history: time since connecting to the address began
    sinceStage,     \* history: time since the connecting state was entered
    quiet           \* history: time from the last Pong read to the arrival of the next

addrVars == <<resolve_addrs, wait, sinceResolve>>
connectVars == <<strategies, connect, timeout, sinceStart, sinceStage>>
linkVars == <<ping, interval, pong, pings, pongs, writer, answer, stream, quiet>>
vars == <<handler, task, delay, addrVars, connectVars, linkVars>>

Connecting == {"WaitForConnection", "WaitForConnectStream"}

\* OutgoingStream::new: pong_timeout_duration.
PongTimeout == 3 * PingInterval

\* ConnectionHandler::new and GetNextAddr::new; the new task is polled.
Init ==
    /\ handler = "RequestNextPeerAddr"
    /\ task = "woken"
    /\ delay = 0
    /\ resolve_addrs = "pending"
    /\ wait = ResolveTimeout
    /\ sinceResolve = 0
    /\ strategies = 0 /\ connect = "pending" /\ timeout = 0
    /\ sinceStart = 0 /\ sinceStage = 0
    /\ ping = 0 /\ interval = "unregistered" /\ pong = 0 /\ pings = 0 /\ pongs = 0
    /\ writer = "ready" /\ answer = "free" /\ stream = "open" /\ quiet = 0

\* ConnectWithStrategies is dropped.
DropConnect ==
    /\ strategies' = 0 /\ connect' = "pending" /\ timeout' = 0
    /\ sinceStart' = 0 /\ sinceStage' = 0

\* OutgoingStream is dropped.
DropLink ==
    /\ ping' = 0 /\ interval' = "unregistered" /\ pong' = 0 /\ pings' = 0 /\ pongs' = 0
    /\ writer' = "ready" /\ answer' = "free" /\ stream' = "open" /\ quiet' = 0

\* The poll returned NotReady: the task sleeps until it is woken.
Sleep == task' = "asleep" /\ delay' = 0

\* The poll goes on with the state just entered.
Continue == UNCHANGED <<task, delay>>

-----------------------------------------------------------------------------
(* poll_request_next_peer_addr *)

\* Mutant: the delay is not reset.
ResolveAgainNoReset ==
    /\ handler = "RequestNextPeerAddr" /\ task = "woken"
    /\ resolve_addrs = "ended"
    /\ wait = 0
    /\ resolve_addrs' \in {"pending", "address", "ended"}
    /\ sinceResolve' = 0
    /\ UNCHANGED <<handler, task, delay, wait, connectVars, linkVars>>

\* GetNextAddr::poll, all addresses were tried and wait_between_resolve has
\* elapsed: the resolvers are asked again and the loop goes on.
ResolveAgain ==
    /\ handler = "RequestNextPeerAddr" /\ task = "woken"
    /\ resolve_addrs = "ended"
    /\ wait = 0
    /\ resolve_addrs' \in {"pending", "address", "ended"}
    /\ wait' = ResolveTimeout
    /\ sinceResolve' = 0
    /\ Continue
    /\ UNCHANGED <<handler, connectVars, linkVars>>

\* Mutant: an ended stream of addresses does not poll the delay.
NoAddressNotWoken(t) == FALSE

\* The task is registered with wait_between_resolve, which fires at the end of
\* this unit of time.
ResolveTimerFires(t) ==
    handler = "RequestNextPeerAddr" /\ resolve_addrs = "ended" /\ t = 1

\* GetNextAddr::poll is not ready: it waits for the resolvers or the delay.
NoAddressYet ==
    /\ handler = "RequestNextPeerAddr" /\ task = "woken"
    /\ \/ resolve_addrs = "pending"
       \/ resolve_addrs = "ended" /\ wait > 0
    /\ Sleep
    /\ UNCHANGED <<handler, addrVars, connectVars, linkVars>>

\* ConnectStateMachine::start and its first poll. The new future needs an
\* answer of the other side, but it can fail at once.
StartStrategy(outcome) ==
    /\ handler' = "WaitForConnection"
    /\ connect' = outcome
    /\ timeout' = ConnectTimeout
    /\ sinceStage' = 0

\* The next address: ConnectWithStrategies::new takes a first strategy.
ConnectToPeer(outcome) ==
    /\ handler = "RequestNextPeerAddr" /\ task = "woken"
    /\ resolve_addrs = "address"
    /\ resolve_addrs' \in {"pending", "address", "ended"}
    /\ StartStrategy(outcome)
    /\ strategies' = Strategies - 1
    /\ sinceStart' = 0
    /\ IF outcome = "pending" THEN Sleep ELSE Continue
    /\ UNCHANGED <<wait, sinceResolve, linkVars>>

-----------------------------------------------------------------------------
(* poll_connect_to_peer *)

\* Mutant: the timeout covers only the connection.
ConnectFailedOnlyConnection ==
    connect = "failed" \/ (timeout = 0 /\ handler = "WaitForConnection")

\* The state of ConnectStateMachine ends with an error. Its timeout is polled
\* before the future it waits for.
ConnectFailed == timeout = 0 \/ connect = "failed"

\* ConnectWithStrategies::poll: on an error the next strategy is started and
\* polled once; if that fails at once, or there is none left, the address is
\* given up.
NextStrategy(outcome) ==
    /\ handler \in Connecting /\ task = "woken"
    /\ ConnectFailed
    /\ IF strategies > 0 /\ outcome = "pending"
       THEN /\ StartStrategy(outcome)
            /\ strategies' = strategies - 1
            /\ Sleep
            /\ UNCHANGED sinceStart
       ELSE /\ handler' = "RequestNextPeerAddr"
            /\ Continue
            /\ DropConnect
    /\ UNCHANGED <<addrVars, linkVars>>

\* Mutant: the timeout of the connection goes on for the stream.
ConnectionMadeOneTimeout ==
    /\ handler = "WaitForConnection" /\ task = "woken"
    /\ ~ConnectFailed
    /\ connect = "ready"
    /\ handler' = "WaitForConnectStream"
    /\ connect' \in {"pending", "ready", "failed"}
    /\ sinceStage' = 0
    /\ UNCHANGED <<task, delay, strategies, timeout, sinceStart, addrVars, linkVars>>

\* poll_wait_for_connection: the timeout starts again and the stream is
\* opened. (The connection is spawned and lives on, see PeerRegistry.)
ConnectionMade ==
    /\ handler = "WaitForConnection" /\ task = "woken"
    /\ ~ConnectFailed
    /\ connect = "ready"
    /\ handler' = "WaitForConnectStream"
    /\ connect' \in {"pending", "ready", "failed"}
    /\ timeout' = ConnectTimeout
    /\ sinceStage' = 0
    /\ Continue
    /\ UNCHANGED <<strategies, sinceStart, addrVars, linkVars>>

\* poll_wait_for_connect_stream and OutgoingStream::new. The first tick of
\* ping_interval is due now.
StreamMade ==
    /\ handler = "WaitForConnectStream" /\ task = "woken"
    /\ ~ConnectFailed
    /\ connect = "ready"
    /\ handler' = "HandleConnection"
    /\ ping' = 0
    /\ interval' = "unregistered"
    /\ pong' = PongTimeout
    /\ pings' = 0
    /\ pongs' = 0
    /\ writer' = "ready"
    /\ answer' = "free"
    /\ stream' = "open"
    /\ quiet' = 0
    /\ DropConnect
    /\ Continue
    /\ UNCHANGED addrVars

\* Neither the future nor its timeout is ready.
NotConnectedYet ==
    /\ handler \in Connecting /\ task = "woken"
    /\ ~ConnectFailed
    /\ connect = "pending"
    /\ Sleep
    /\ UNCHANGED <<handler, addrVars, connectVars, linkVars>>

-----------------------------------------------------------------------------
(* poll_handle_connection: OutgoingStream::poll *)

\* Mutant: a peer whose Pong has just arrived is not sent the Ping that is due.
PingSentIfSilent ==
    \/ /\ ping > 0 \/ pongs > 0
       /\ UNCHANGED <<pings, writer>>
    \/ /\ ping <= 0 /\ pongs = 0 /\ writer = "ready"
       /\ pings' = IF pings < MaxPings THEN pings + 1 ELSE pings
       /\ UNCHANGED writer
    \/ /\ ping <= 0 /\ pongs = 0
       /\ writer' = "blocked"
       /\ UNCHANGED pings

\* The tick of ping_interval that is due sends one Ping. The code does not look
\* whether start_send took it: a full write buffer drops the Ping, and wakes the
\* task once it has room again.
PingSent ==
    \/ /\ ping > 0
       /\ UNCHANGED <<pings, writer>>
    \/ /\ ping <= 0 /\ writer = "ready"
       /\ pings' = IF pings < MaxPings THEN pings + 1 ELSE pings
       /\ UNCHANGED writer
    \/ /\ ping <= 0
       /\ writer' = "blocked"
       /\ UNCHANGED pings

\* poll_ping_and_pong, first part: Interval::poll. A tick that is due moves
\* the deadline on and does not register the task; only a poll that finds no
\* tick does.
PollPing ==
    /\ ping' = IF ping <= 0 THEN ping + PingInterval ELSE ping
    /\ interval' = IF ping > 0 THEN "registered" ELSE "unregistered"
    /\ PingSent

\* Mutant: a Pong does not reset the timeout.
PongReadNoReset == pongs' = 0 /\ quiet' = (IF pongs > 0 THEN 0 ELSE quiet) /\ pong' = pong

\* The messages that have arrived are read; a Pong resets pong_timeout.
PongRead ==
    /\ pongs' = 0
    /\ pong' = IF pongs > 0 THEN PongTimeout ELSE pong
    /\ quiet' = IF pongs > 0 THEN 0 ELSE quiet

\* Mutant: the timeout is looked at only together with a Ping.
TimedOutOnPing == pong = 0 /\ ping <= 0

\* poll_ping_and_pong, second part: pong_timeout has elapsed. This is found
\* before the stream is read, so a Pong that has arrived does not count.
TimedOut == pong = 0

\* The connection is given up: timeout, or the end of the stream.
GiveUpConnection ==
    /\ handler = "HandleConnection" /\ task = "woken"
    /\ TimedOut \/ stream = "closed"
    /\ handler' = "RequestNextPeerAddr"
    /\ DropLink
    /\ Continue
    /\ UNCHANGED <<addrVars, connectVars>>

\* The whole poll of a connection that goes on.
PollConnection ==
    /\ handler = "HandleConnection" /\ task = "woken"
    /\ ~TimedOut /\ stream = "open"
    /\ PollPing
    /\ PongRead
    /\ answer' = "free"
    /\ Sleep
    /\ UNCHANGED <<handler, stream, addrVars, connectVars>>

-----------------------------------------------------------------------------
(* What happens around the task *)

\* External: the resolvers find an address, or have no more.
Resolved(what) ==
    /\ resolve_addrs = "pending"
    /\ resolve_addrs' = what
    /\ task' = IF handler = "RequestNextPeerAddr" THEN "woken" ELSE task
    /\ UNCHANGED <<handler, delay, wait, sinceResolve, connectVars, linkVars>>

\* External: the connection or the stream is made, or fails.
ConnectAnswered(what) ==
    /\ handler \in Connecting
    /\ connect = "pending"
    /\ connect' = what
    /\ task' = "woken"
    /\ UNCHANGED <<handler, delay, addrVars, strategies, timeout, sinceStart,
                   sinceStage, linkVars>>

\* The remote peer (IncomingStream::poll) answers a Ping, the Pong arrives.
PongArrives ==
    /\ handler = "HandleConnection"
    /\ stream = "open"
    /\ pings > 0
    /\ pings' = pings - 1
    /\ pongs' = pongs + 1
    /\ task' = "woken"
    /\ UNCHANGED <<handler, delay, addrVars, connectVars, ping, interval, pong,
                   writer, answer, stream, quiet>>

\* The remote peer answers a Ping, but its full write buffer refuses the Pong,
\* which it does not look at either.
PongRefused ==
    /\ handler = "HandleConnection"
    /\ stream = "open"
    /\ pings > 0
    /\ pings' = pings - 1
    /\ answer' = "refused"
    /\ UNCHANGED <<handler, task, delay, addrVars, connectVars, ping, interval, pong,
                   pongs, writer, stream, quiet>>

\* External: the write buffer has room again.
WriteReady ==
    /\ handler = "HandleConnection"
    /\ writer = "blocked"
    /\ writer' = "ready"
    /\ task' = "woken"
    /\ UNCHANGED <<handler, delay, addrVars, connectVars, ping, interval, pong,
                   pings, pongs, answer, stream, quiet>>

\* External: the stream is closed.
StreamEnds ==
    /\ handler = "HandleConnection"
    /\ stream = "open"
    /\ stream' = "closed"
    /\ task' = "woken"
    /\ UNCHANGED <<handler, delay, addrVars, connectVars, ping, interval, pong,
                   pings, pongs, writer, answer, quiet>>

\* A request, or an answer to one, wakes the task up (see RemoteRegistry).
OtherWork ==
    /\ handler = "HandleConnection"
    /\ task = "asleep"
    /\ task' = "woken"
    /\ UNCHANGED <<handler, delay, addrVars, connectVars, linkVars>>

\* A timer that counts down.
Less(t) == IF t > 0 THEN t - 1 ELSE 0

\* A timer the task is registered with fires at the end of this unit of time.
TimerFires ==
    \/ ResolveTimerFires(wait)
    \/ handler \in Connecting /\ timeout = 1
    \/ handler = "HandleConnection" /\ (pong = 1 \/ (interval = "registered" /\ ping = 1))

\* One unit of time passes. A woken task is polled before Lag is over.
Tick ==
    /\ task = "woken" => delay < Lag
    /\ delay' = IF task = "woken" THEN delay + 1 ELSE 0
    /\ task' = IF TimerFires THEN "woken" ELSE task
    /\ wait' = Less(wait)
    /\ sinceResolve' = IF sinceResolve < ResolveTimeout THEN sinceResolve + 1
                       ELSE sinceResolve
    /\ IF handler \in Connecting
       THEN /\ timeout' = Less(timeout)
            /\ sinceStart' = sinceStart + 1
            /\ sinceStage' = sinceStage + 1
       ELSE UNCHANGED <<timeout, sinceStart, sinceStage>>
    /\ IF handler = "HandleConnection"
       THEN /\ ping' = IF ping > -MaxOverdue THEN ping - 1 ELSE ping
            /\ pong' = Less(pong)
            /\ quiet' = IF pongs = 0 THEN quiet + 1 ELSE quiet
       ELSE UNCHANGED <<ping, pong, quiet>>
    /\ UNCHANGED <<handler, resolve_addrs, strategies, connect, interval, pings,
                   pongs, writer, answer, stream>>

\* One poll of the task, up to the next state.
Poll ==
    \/ ResolveAgain
    \/ NoAddressYet
    \/ \E outcome \in {"pending", "failed"} : ConnectToPeer(outcome)
    \/ \E outcome \in {"pending", "failed"} : NextStrategy(outcome)
    \/ ConnectionMade
    \/ StreamMade
    \/ NotConnectedYet
    \/ GiveUpConnection
    \/ PollConnection

Next ==
    \/ Poll
    \/ \E what \in {"address", "ended"} : Resolved(what)
    \/ \E what \in {"ready", "failed"} : ConnectAnswered(what)
    \/ PongArrives
    \/ PongRefused
    \/ WriteReady
    \/ StreamEnds
    \/ OtherWork
    \/ Tick

Spec == Init /\ [][Next]_vars

\* Time passes, a woken task is polled, and the resolvers come to an end.
Fairness ==
    /\ WF_vars(Tick)
    /\ WF_vars(Poll)
    /\ WF_vars(\E what \in {"address", "ended"} : Resolved(what))

FairSpec == Spec /\ Fairness

-----------------------------------------------------------------------------
(* Properties *)

\* Every variable has its type, and the poll of a woken task is never overdue.
TypeOK ==
    /\ handler \in {"RequestNextPeerAddr", "HandleConnection"} \cup Connecting
    /\ task \in {"woken", "asleep"}
    /\ delay \in 0..Lag
    /\ resolve_addrs \in {"pending", "address", "ended"}
    /\ wait \in Nat /\ wait <= ResolveTimeout
    /\ strategies \in Nat /\ strategies < Strategies
    /\ connect \in {"pending", "ready", "failed"}
    /\ timeout \in Nat /\ timeout <= ConnectTimeout
    /\ ping \in Int /\ ping <= PingInterval
    /\ interval \in {"registered", "unregistered"}
    /\ pong \in Nat /\ pong <= PongTimeout
    /\ pings \in Nat
    /\ pongs \in Nat
    /\ writer \in {"ready", "blocked"}
    /\ answer \in {"free", "refused"}
    /\ stream \in {"open", "closed"}
    /\ sinceResolve \in Nat
    /\ sinceStart \in Nat
    /\ sinceStage \in Nat
    /\ quiet \in Nat

\* config.rs:24-28, the timeout "used to not create a hot loop": the resolvers
\* are never asked twice within ResolveTimeout, however fast every address
\* fails and every resolver ends.
NoHotLoop == [][ResolveAgain => sinceResolve >= ResolveTimeout]_vars

\* Connecting to one address, with all strategies, for the connection and for
\* the stream, takes a bounded time even if nobody ever answers.
ConnectIsBounded ==
    handler \in Connecting =>
        sinceStart <= 2 * (Strategies - strategies) * (ConnectTimeout + Lag)

\* Each of the two stages has the whole time-out for itself: without a failure
\* of its future a stage is not given up earlier (connect.rs:69, new_reset).
StageHasFullTimeout ==
    [][\A outcome \in {"pending", "failed"} :
           NextStrategy(outcome) /\ connect # "failed" => sinceStage >= ConnectTimeout]_vars

\* config.rs:20-22: the connection is given up only if "no answer was received
\* in this time", three intervals: with a stream that is not closed, the
\* last two Pongs were at least that far apart, but for the Lag by which a Pong
\* that has arrived can be polled too late (remote.rs:476).
GivenUpOnlyAfterSilence ==
    [][handler = "HandleConnection" /\ handler' = "RequestNextPeerAddr" /\ stream = "open"
           => quiet >= PongTimeout - Lag]_vars

\* A remote peer that went silent is noticed: no connection goes on for longer
\* than three intervals and the Lag without a Pong.
SilenceIsNoticed ==
    handler = "HandleConnection" => quiet <= PongTimeout + Lag

\* The handler never forgets its connection: as long as it is kept, the task is
\* about to be polled, registered with the next tick of ping_interval or with the
\* write buffer that refused the last Ping (remote.rs:472), or a Ping is on its
\* way whose Pong will wake it up. (A tick that was due leaves the task
\* unregistered, remote.rs:471.) The one way to stop the Pings is a Pong that the
\* write buffer of the remote peer refused (remote.rs:570): no other Ping is sent
\* then until something else wakes the task, and without that pong_timeout gives
\* up a stream that works.
NextPingIsCertain ==
    handler = "HandleConnection" =>
        \/ task = "woken" \/ interval = "registered" \/ pings > 0
        \/ writer = "blocked" \/ answer = "refused"

\* config.rs:116-117, "will always try to hold a connection to one of the known
\* remote peers": when all addresses have failed the resolvers are asked again.
ResolvedAgain ==
    handler = "RequestNextPeerAddr" /\ resolve_addrs = "ended"
        ~> resolve_addrs # "ended" \/ sinceResolve = 0
=============================================================================
