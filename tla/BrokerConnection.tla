-------------------------- MODULE BrokerConnection --------------------------
(***************************************************************************)
(* The connection side of AMPS: amqpConnectRoutine and the goroutines that *)
(* signal it (a close watcher per connection, the health monitor, the      *)
(* reconnection watchdog, the health probes), Initialize and Teardown.     *)
(* The reconnect channel is buffered and every send to it is non-blocking; *)
(* the routine resets, dials, opens channels and consumes once per signal. *)
(*                                                                         *)
(* A connection is a member of Conns, used again once nothing refers to    *)
(* it.  Time is left out but for what it decides: a dial that takes longer *)
(* than the watchdog's 90 s, and Initialize's 30 s.                        *)
(***************************************************************************)
EXTENDS Integers, FiniteSets

CONSTANTS MaxConns,       \* bound: connections that something refers to
          ChanCap,        \* capacity of reconnectChan
          ChannelFaults,  \* whether a channel may fail on its own
          MaxFaults,      \* bound: failures of connection, channel or server
          MaxTicks        \* bound: ticks of monitor and watchdog that matter

ASSUME BoundsAssumption == /\ MaxConns \in Nat \ {0} /\ ChanCap \in Nat \ {0}
                           /\ MaxFaults \in Nat /\ MaxTicks \in Nat
                           /\ ChannelFaults \in BOOLEAN

Conns == 1..MaxConns
None == 0
RoutineStates == {"select", "reset", "dial", "dialing", "setconn", "channels",
                  "publish", "mark", "start", "init", "pause", "exit"}

VARIABLES
  pc, local,         \* amqpConnectRoutine and the connection it holds
  sig,               \* signals in reconnectChan
  connection, chans, \* AMQPBroker.connection, and the channels, by connection
  connected, running, fullyInitialized,
  open, chanOk,      \* connections, and channels, that still work
  watcher,           \* the close watcher of each connection
  consumer,          \* connections whose consumer goroutine runs
  mon, wd,           \* health monitor and watchdog between look and signal
  overdue,           \* lastReconnectAttempt is zero or older than 90 s
  main, connectedChan,  \* Initialize and its channel
  tear,              \* Teardown: "no", "cancelled" or "done"
  faults, ticks

broker == <<connection, chans, connected, running, fullyInitialized>>
network == <<open, chanOk, watcher>>
observers == <<mon, wd, overdue, ticks>>
app == <<main, connectedChan, tear>>
vars == <<pc, local, sig, broker, network, consumer, observers, app, faults>>

Cancelled == tear # "no"

Init ==
  /\ pc = "select" /\ local = None
  /\ sig = 1
  /\ connection = None /\ chans = None
  /\ connected = FALSE /\ running = FALSE /\ fullyInitialized = FALSE
  /\ open = {} /\ chanOk = {}
  /\ watcher = [c \in Conns |-> "off"]
  /\ consumer = {}
  /\ mon = None /\ wd = FALSE /\ overdue = TRUE
  /\ main = "waiting" /\ connectedChan = FALSE
  /\ tear = "no"
  /\ faults = 0 /\ ticks = 0

\* Mutant: nothing bounds the queue.
SignalUnbounded == sig' = sig + 1

\* A non-blocking send to reconnectChan.
Signal == sig' = IF sig < ChanCap THEN sig + 1 ELSE sig

Go(from, to) == pc = from /\ pc' = to

\* Close of connection c by this side: its watcher gets nil and returns.
CloseConn(c) ==
  /\ open' = open \ {c}
  /\ chanOk' = chanOk \ {c}
  /\ watcher' = [k \in Conns |-> IF k = c /\ watcher[k] = "armed" THEN "off" ELSE watcher[k]]

Fault == faults < MaxFaults /\ faults' = faults + 1
Tick == ticks < MaxTicks /\ ticks' = ticks + 1

-----------------------------------------------------------------------------
(* amqpConnectRoutine *)

Wake ==
  /\ Go("select", "reset")
  /\ sig > 0
  /\ sig' = sig - 1
  /\ overdue' = FALSE
  /\ UNCHANGED <<local, broker, network, consumer, mon, wd, ticks, app, faults>>

\* Mutant: only the select ends on ctx.Done.
QuitAtSelect ==
  /\ Cancelled /\ Go("select", "exit")
  /\ UNCHANGED <<local, sig, broker, network, consumer, observers, app, faults>>

\* ctx.Done in the select, at the head of the dial loop, or in the pause.
Quit ==
  /\ Cancelled
  /\ Go("select", "exit") \/ Go("dial", "exit") \/ Go("pause", "exit")
  /\ UNCHANGED <<local, sig, broker, network, consumer, observers, app, faults>>

\* Mutant: the old connection is forgotten, not closed.
ResetForgets ==
  /\ Go("reset", "dial")
  /\ connection' = None /\ chans' = None
  /\ connected' = FALSE /\ running' = FALSE /\ fullyInitialized' = FALSE
  /\ UNCHANGED <<local, sig, network, consumer, observers, app, faults>>

\* "Reset all resources before reconnecting", under connMutex.
Reset ==
  /\ Go("reset", "dial")
  /\ CloseConn(connection)
  /\ connection' = None /\ chans' = None
  /\ connected' = FALSE /\ running' = FALSE /\ fullyInitialized' = FALSE
  /\ UNCHANGED <<local, sig, consumer, observers, app, faults>>

\* amqpConnect looks at the context before it dials, not after.
BeginDial ==
  /\ ~Cancelled
  /\ Go("dial", "dialing")
  /\ UNCHANGED <<local, sig, broker, network, consumer, observers, app, faults>>

Unused(c) == /\ c \notin open \cup consumer \cup {connection, chans, local, mon}
             /\ watcher[c] = "off"

DialOk(c) ==
  /\ Go("dialing", "setconn")
  /\ Unused(c) /\ \A k \in 1..(c - 1) : ~Unused(k)
  /\ local' = c
  /\ open' = open \cup {c}
  /\ UNCHANGED <<sig, broker, chanOk, watcher, consumer, observers, app, faults>>

\* ... and the backoff.
DialFail ==
  /\ Go("dialing", "dial")
  /\ Fault
  /\ UNCHANGED <<local, sig, broker, network, consumer, observers, app>>

\* broker.connection = conn, NotifyClose and its watcher.  On a connection
\* already closed NotifyClose yields nil and the watcher returns silently.
SetConn ==
  /\ Go("setconn", "channels")
  /\ connection' = local
  /\ watcher' = [watcher EXCEPT ![local] = IF local \in open THEN "armed" ELSE "off"]
  /\ UNCHANGED <<local, sig, chans, connected, running, fullyInitialized,
                 open, chanOk, consumer, observers, app, faults>>

\* Mutant: createChannels does not look at the context.
OpenChannelsUnchecked ==
  /\ Go("channels", "publish")
  /\ local \in open
  /\ chanOk' = chanOk \cup {local}
  /\ UNCHANGED <<local, sig, broker, open, watcher, consumer, observers, app, faults>>

\* createChannels works on a snapshot of broker.connection ...
OpenChannels ==
  /\ Go("channels", "publish")
  /\ ~Cancelled /\ connection \in open
  /\ chanOk' = chanOk \cup {local}
  /\ UNCHANGED <<local, sig, broker, open, watcher, consumer, observers, app, faults>>

\* ... tries again after a failure, and gives up after five, on a closed
\* connection or on shutdown.
OpenFails ==
  /\ pc = "channels"
  /\ \/ Cancelled /\ pc' = "pause" /\ UNCHANGED faults
     \/ connection \notin open /\ pc' = "pause" /\ UNCHANGED faults
     \/ Fault /\ pc' \in {"channels", "pause"}
  /\ UNCHANGED <<local, sig, broker, network, consumer, observers, app>>

\* The channels are stored under the lock, whatever happened meanwhile.
PublishChannels ==
  /\ Go("publish", "mark")
  /\ chans' = local
  /\ UNCHANGED <<local, sig, connection, connected, running, fullyInitialized,
                 network, consumer, observers, app, faults>>

MarkConnected ==
  /\ Go("mark", "start")
  /\ connected' = TRUE
  /\ UNCHANGED <<local, sig, connection, chans, running, fullyInitialized,
                 network, consumer, observers, app, faults>>

\* Start, under busy and connMutex: a consumer, or an error.
StartOk ==
  /\ Go("start", "init")
  /\ \/ running /\ UNCHANGED <<running, consumer>>
     \/ /\ ~running /\ connected
        /\ chans \in chanOk
        /\ running' = TRUE
        /\ consumer' = consumer \cup {chans}
  /\ UNCHANGED <<local, sig, connection, chans, connected, fullyInitialized,
                 network, observers, app, faults>>

StartFails ==
  /\ Go("start", "pause")
  /\ ~running
  /\ \/ ~connected /\ UNCHANGED <<chanOk, faults>>
     \/ chans \notin chanOk /\ UNCHANGED <<chanOk, faults>>
     \/ Fault /\ chanOk' = chanOk \ {chans}
  /\ UNCHANGED <<local, sig, broker, open, watcher, consumer, observers, app>>

\* fullyInitialized, and the non-blocking send that Initialize waits for.
Initialized ==
  /\ Go("init", "select")
  /\ fullyInitialized' = TRUE
  /\ connectedChan' = TRUE
  /\ local' = None
  /\ UNCHANGED <<sig, connection, chans, connected, running, network, consumer,
                 observers, main, tear, faults>>

\* Mutant: no signal to try again.
PauseEndsSilent ==
  /\ Go("pause", "select")
  /\ local' = None
  /\ UNCHANGED <<sig, broker, network, consumer, observers, app, faults>>

\* Two seconds after a failed createChannels or Start.
PauseEnds ==
  /\ Go("pause", "select")
  /\ Signal
  /\ local' = None
  /\ UNCHANGED <<broker, network, consumer, observers, app, faults>>

Routine ==
  \/ Wake \/ Quit \/ Reset \/ BeginDial \/ DialFail \/ SetConn \/ OpenChannels
  \/ OpenFails \/ PublishChannels \/ MarkConnected \/ StartOk \/ StartFails
  \/ Initialized \/ PauseEnds \/ \E c \in Conns : DialOk(c)
-----------------------------------------------------------------------------
(* The goroutines that signal, and the probes *)

\* Mutant: the error of NotifyClose is only logged.
WatcherLogs(c) ==
  /\ watcher[c] = "notified" /\ ~Cancelled
  /\ watcher' = [watcher EXCEPT ![c] = "off"]
  /\ UNCHANGED <<pc, local, sig, broker, open, chanOk, consumer, observers, app, faults>>

\* The watcher of connection c, when NotifyClose brings an error.
WatcherSignals(c) ==
  /\ watcher[c] = "notified" /\ ~Cancelled
  /\ watcher' = [watcher EXCEPT ![c] = "off"]
  /\ Signal
  /\ UNCHANGED <<pc, local, broker, open, chanOk, consumer, observers, app, faults>>

WatcherExits(c) ==
  /\ watcher[c] # "off" /\ Cancelled
  /\ watcher' = [watcher EXCEPT ![c] = "off"]
  /\ UNCHANGED <<pc, local, sig, broker, open, chanOk, consumer, observers, app, faults>>

\* The consumer goroutine leaves its loop when its channel or context ends.
ConsumerExits(c) ==
  /\ c \in consumer
  /\ c \notin chanOk \/ Cancelled
  /\ consumer' = consumer \ {c}
  /\ UNCHANGED <<pc, local, sig, broker, network, observers, app, faults>>

\* startHealthMonitor copies connected and connection under the lock ...
MonitorLooks ==
  /\ mon = None /\ connected /\ ~Cancelled
  /\ Tick
  /\ mon' = connection
  /\ UNCHANGED <<pc, local, sig, broker, network, consumer, wd, overdue, app, faults>>

\* ... and asks the copy whether it is closed after the unlock.
MonitorActs ==
  /\ mon # None
  /\ IF mon \in open THEN UNCHANGED sig ELSE Signal
  /\ mon' = None
  /\ UNCHANGED <<pc, local, broker, network, consumer, wd, overdue, ticks, app, faults>>

\* 90 s since the last attempt: unremarkable while the routine waits on a
\* good connection, a long reconnection otherwise.
AttemptAges ==
  /\ ~overdue
  /\ overdue' = TRUE
  /\ IF pc = "select" /\ connected THEN UNCHANGED ticks ELSE Tick
  /\ UNCHANGED <<pc, local, sig, broker, network, consumer, mon, wd, app, faults>>

\* startReconnectionWatchdog: the same, in two critical sections.
WatchdogLooks ==
  /\ ~wd /\ ~connected /\ overdue /\ ~Cancelled
  /\ wd' = TRUE
  /\ UNCHANGED <<pc, local, sig, broker, network, consumer, mon, overdue, ticks, app, faults>>

WatchdogActs ==
  /\ wd
  /\ wd' = FALSE
  /\ overdue' = FALSE
  /\ Signal
  /\ UNCHANGED <<pc, local, broker, network, consumer, mon, ticks, app, faults>>

\* Mutant: fullyInitialized is not looked at.
HealthyEarly == ~Cancelled /\ connected /\ connection \in open /\ chans # None

\* The value of Healthy().
Healthy == /\ ~Cancelled
           /\ connected /\ connection \in open /\ chans # None
           /\ fullyInitialized

\* Healthy() called by /healthz or /readyz, once Run has the server up: on
\* a closed connection it signals.  (A call in the first ten seconds that
\* returns before that changes nothing.)
Probe ==
  /\ main # "waiting" /\ ~Cancelled
  /\ connected /\ connection \notin open
  /\ Signal
  /\ UNCHANGED <<pc, local, broker, network, consumer, observers, app, faults>>

-----------------------------------------------------------------------------
(* Initialize, Teardown, and what fails *)

InitializeReturns ==
  /\ main = "waiting"
  /\ \/ connectedChan /\ connectedChan' = FALSE /\ main' = "ready"
     \/ main' = "notready" /\ UNCHANGED connectedChan
  /\ UNCHANGED <<pc, local, sig, broker, network, consumer, observers, tear, faults>>

\* Interrupt: Teardown cancels the context, waits 100 ms ...
TeardownCancels ==
  /\ main # "waiting" /\ tear = "no"
  /\ tear' = "cancelled"
  /\ UNCHANGED <<pc, local, sig, broker, network, consumer, observers, main,
                 connectedChan, faults>>

\* ... and closes what the broker holds, under the lock.
TeardownCloses ==
  /\ tear = "cancelled"
  /\ tear' = "done"
  /\ CloseConn(connection)
  /\ connection' = None /\ chans' = None
  /\ connected' = FALSE /\ running' = FALSE
  /\ UNCHANGED <<pc, local, sig, fullyInitialized, consumer, observers, main,
                 connectedChan, faults>>

\* The server or the network ends a connection; NotifyClose delivers the error.
ConnectionFails(c) ==
  /\ c \in open /\ Fault
  /\ open' = open \ {c}
  /\ chanOk' = chanOk \ {c}
  /\ watcher' = [watcher EXCEPT ![c] = IF @ = "armed" THEN "notified" ELSE @]
  /\ UNCHANGED <<pc, local, sig, broker, consumer, observers, app>>

\* A channel exception or a consumer cancelled by the server: the
\* deliveries channel closes, the connection stays.
ChannelFails(c) ==
  /\ ChannelFaults /\ c \in chanOk /\ Fault
  /\ chanOk' = chanOk \ {c}
  /\ UNCHANGED <<pc, local, sig, broker, open, watcher, consumer, observers, app>>

Goroutines == \E c \in Conns : WatcherSignals(c) \/ WatcherExits(c) \/ ConsumerExits(c)
Observers == MonitorLooks \/ MonitorActs \/ AttemptAges \/ WatchdogLooks \/ WatchdogActs \/ Probe
Application == InitializeReturns \/ TeardownCancels \/ TeardownCloses
Failures == \E c \in Conns : ConnectionFails(c) \/ ChannelFails(c)

Next == Routine \/ Goroutines \/ Observers \/ Application \/ Failures

Spec == Init /\ [][Next]_vars

\* Every goroutine that can run does; no ticker, probe, interrupt or failure
\* has to come.
Fairness == /\ WF_vars(Routine)
            /\ \A c \in Conns : /\ WF_vars(WatcherSignals(c) \/ WatcherExits(c))
                                /\ WF_vars(ConsumerExits(c))
            /\ WF_vars(MonitorActs) /\ WF_vars(WatchdogActs)
            /\ WF_vars(InitializeReturns) /\ WF_vars(TeardownCloses)

FairSpec == Spec /\ Fairness

-----------------------------------------------------------------------------
(* Properties *)

\* The types of the variables.
TypeOK ==
  /\ pc \in RoutineStates
  /\ {local, connection, chans, mon} \subseteq Conns \cup {None}
  /\ sig \in 0..ChanCap
  /\ {connected, running, fullyInitialized, wd, overdue, connectedChan} \subseteq BOOLEAN
  /\ open \subseteq Conns /\ chanOk \subseteq open /\ consumer \subseteq Conns
  /\ watcher \in [Conns -> {"off", "armed", "notified"}]
  /\ main \in {"waiting", "ready", "notready"}
  /\ tear \in {"no", "cancelled", "done"}
  /\ faults \in 0..MaxFaults /\ ticks \in 0..MaxTicks

\* "Monitoring connection health and triggering reconnections when needed":
\* the routine never waits at its select on a dead or missing connection
\* with no signal queued and none about to come from the close watcher, so
\* neither probes nor the slow tickers are needed to reconnect.
NoLostWakeup ==
  pc = "select" /\ ~Cancelled /\ connection \notin open =>
    sig > 0 \/ (connection # None /\ watcher[connection] = "notified")

\* Reset closes the old connection before the next dial, and Teardown the
\* last: reconnecting never piles up open connections.
OneConnection == Cardinality(open) <= 1

\* Healthy() looks at flags set by a routine that goes on without it: while
\* it says true, deliveries are consumed from the connection it looked at.
HealthyMeansConsumer == Healthy => connection \in consumer

\* Teardown: once it is done nothing is open that could receive or publish.
\* The routine may still be anywhere, in a dial that succeeds late or between
\* the snapshot and the storing of createChannels: at most a bare connection
\* is left.
NoChannelAfterTeardown == tear = "done" => chanOk = {}

\* AMQP_RESILIENCE.md: after the last of finitely many failures AMPS is
\* connected, healthy and consuming for good, unless it is shut down.
Consuming == connection # None /\ connection \in consumer \cap chanOk
Recovers == <>[](Healthy /\ Consuming) \/ <>Cancelled

\* Teardown ends every goroutine of the broker, wherever it was.
ShutdownCompletes ==
  Cancelled ~> pc = "exit" /\ consumer = {} /\ \A c \in Conns : watcher[c] = "off"

\* KUBERNETES_HEALTH_CHECKS.md, slow startup: readiness waits for the broker
\* connection, so a broker healthy for good is ready for good.
Ready == main = "ready" /\ Healthy
ReadinessFollowsBroker == <>[]Healthy => <>[]Ready
=============================================================================
