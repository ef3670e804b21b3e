----------------------- MODULE BrokerConnectionProofs -----------------------
(* Proofs of the safety properties of BrokerConnection for all constants. *)
EXTENDS BrokerConnection, FiniteSetTheorems, TLAPS

-----------------------------------------------------------------------------
(* The inductive invariant *)

\* From the close of the old connection to the publication of the new one
\* the broker has none.
Connecting == pc \in {"dial", "dialing", "setconn"} => connection = None

\* The connection the routine holds, and what Teardown may make of it.
LocalHeld ==
  /\ pc \in {"setconn", "channels", "publish", "mark", "start", "init"} => local \in Conns
  /\ pc \in {"channels", "publish", "mark", "start", "init", "pause"} => connection \in {local, None}
  /\ pc \in {"mark", "start"} => chans \in {local, None}

\* Only one connection can be open: the broker's, or the one just dialled.
OpenKnown ==
  /\ open \subseteq (IF pc = "setconn" THEN {local} ELSE {connection})
  /\ chanOk \subseteq {connection}

\* A working connection has an armed watcher, and one that has failed was
\* signalled or is about to be, once the channels were opened on it.
Armed == ~Cancelled /\ connection \in open => watcher[connection] = "armed"
Signalled ==
  ~Cancelled /\ pc \in {"publish", "mark", "start", "init", "select"} /\ connection \notin open =>
    sig > 0 \/ (connection # None /\ watcher[connection] = "notified")

\* The flags are down while the routine reconnects, and stand for a consumer
\* afterwards, as long as no channel fails on its own.
FlagsDown ==
  /\ pc \in {"dial", "dialing", "setconn", "channels", "publish", "mark", "start"} => ~running
  /\ pc \in {"dial", "dialing", "setconn", "channels", "publish", "mark", "start", "init", "pause"}
       => ~fullyInitialized
Consumed ==
  ~ChannelFaults /\ ~Cancelled /\ connection \in open /\ (fullyInitialized \/ pc = "init") =>
    connection \in chanOk \cap consumer

IInv == /\ TypeOK /\ Connecting /\ LocalHeld /\ OpenKnown /\ Armed /\ Signalled
        /\ FlagsDown /\ Consumed /\ NoChannelAfterTeardown

-----------------------------------------------------------------------------
(* Steps that only signal *)

\* A send to reconnectChan, from whichever goroutine, takes no signal away:
\* a full channel drops the new one.
LEMMA SignalType == ASSUME sig \in 0..ChanCap, Signal PROVE sig' \in 0..ChanCap /\ sig' >= sig /\ sig' > 0
  BY BoundsAssumption DEF Signal

\* What leaves the routine, the broker and the network alone and takes no
\* signal away keeps the invariant.
LEMMA BystandersKeep ==
  ASSUME IInv, TypeOK', sig' >= sig,
         UNCHANGED <<pc, local, broker, network, consumer, tear>>
  PROVE  IInv'
  <1> USE DEF IInv, broker, network
  <1>1. Connecting' /\ LocalHeld' /\ OpenKnown' /\ FlagsDown'
    BY DEF Connecting, LocalHeld, OpenKnown, FlagsDown
  <1>2. Armed' /\ Signalled'
    BY BoundsAssumption DEF Armed, Signalled, Cancelled, TypeOK
  <1>3. Consumed' /\ NoChannelAfterTeardown'
    BY DEF Consumed, Cancelled, NoChannelAfterTeardown
  <1> QED
    BY <1>1, <1>2, <1>3

\* The monitors, the probes and Initialize's wait.
LEMMA ObserversKeep == ASSUME IInv, Observers \/ InitializeReturns PROVE IInv'
  <1> USE DEF broker, network, app
  <1>1. UNCHANGED <<pc, local, broker, network, consumer, tear, faults>>
    BY DEF Observers, MonitorLooks, MonitorActs, AttemptAges, WatchdogLooks, WatchdogActs,
           Probe, InitializeReturns
  <1>2. sig' \in 0..ChanCap /\ sig' >= sig
    BY SignalType DEF Observers, MonitorLooks, MonitorActs, AttemptAges, WatchdogLooks,
           WatchdogActs, Probe, InitializeReturns, observers, IInv, TypeOK
  <1>3. ticks' \in 0..MaxTicks
    BY BoundsAssumption DEF Observers, MonitorLooks, MonitorActs, AttemptAges, WatchdogLooks,
           WatchdogActs, Probe, InitializeReturns, observers, Tick, IInv, TypeOK
  <1>4. mon' \in Conns \cup {None} /\ wd' \in BOOLEAN /\ overdue' \in BOOLEAN
    BY DEF Observers, MonitorLooks, MonitorActs, AttemptAges, WatchdogLooks, WatchdogActs,
           Probe, InitializeReturns, observers, IInv, TypeOK
  <1>5. main' \in {"waiting", "ready", "notready"} /\ connectedChan' \in BOOLEAN
    BY DEF Observers, MonitorLooks, MonitorActs, AttemptAges, WatchdogLooks, WatchdogActs,
           Probe, InitializeReturns, IInv, TypeOK
  <1>6. TypeOK'
    BY <1>1, <1>2, <1>3, <1>4, <1>5 DEF IInv, TypeOK
  <1> QED
    BY <1>1, <1>2, <1>6, BystandersKeep

-----------------------------------------------------------------------------
(* amqpConnectRoutine *)

\* The routine takes the signal that NoLostWakeup promised.
LEMMA WakeKeeps == ASSUME IInv, Wake PROVE IInv'
  <1> USE BoundsAssumption
      DEF Wake, Go, broker, network, observers, app,
          Cancelled, Conns, None, IInv
  <1>1. TypeOK'
    <2>1. sig' \in 0..ChanCap /\ faults' \in 0..MaxFaults
      BY DEF TypeOK
    <2>2. chanOk' \subseteq open'
      BY DEF TypeOK
    <2>3. {connected', running', fullyInitialized', wd', overdue', connectedChan'} \subseteq BOOLEAN
      BY DEF TypeOK
    <2> QED
      BY <2>1, <2>2, <2>3 DEF TypeOK, RoutineStates
  <1>2. Connecting' /\ LocalHeld' /\ OpenKnown'
    BY DEF TypeOK, Connecting, LocalHeld, OpenKnown
  <1>3. Armed' /\ Signalled'
    BY DEF TypeOK, Connecting, LocalHeld, OpenKnown, Armed, Signalled
  <1>4. FlagsDown'
    BY DEF TypeOK, FlagsDown
  <1>5. Consumed' /\ NoChannelAfterTeardown'
    BY DEF TypeOK, Connecting, LocalHeld, OpenKnown, FlagsDown, Consumed, NoChannelAfterTeardown
  <1> QED
    BY <1>1, <1>2, <1>3, <1>4, <1>5

\* ctx.Done: nothing is opened after it.
LEMMA QuitKeeps == ASSUME IInv, Quit PROVE IInv'
  <1> USE BoundsAssumption
      DEF Quit, Go, broker, network, observers, app,
          Cancelled, Conns, None, IInv
  <1>1. TypeOK'
    BY DEF TypeOK, RoutineStates, Conns, None, OpenKnown, LocalHeld
  <1>2. Connecting' /\ LocalHeld' /\ OpenKnown'
    BY DEF TypeOK, Connecting, LocalHeld, OpenKnown
  <1>3. Armed' /\ Signalled'
    BY DEF TypeOK, Connecting, LocalHeld, OpenKnown, Armed, Signalled
  <1>4. FlagsDown'
    BY DEF TypeOK, FlagsDown
  <1>5. Consumed' /\ NoChannelAfterTeardown'
    BY DEF TypeOK, Connecting, LocalHeld, OpenKnown, FlagsDown, Consumed, NoChannelAfterTeardown
  <1> QED
    BY <1>1, <1>2, <1>3, <1>4, <1>5

\* The old connection is closed, and its flags with it.
LEMMA ResetKeeps == ASSUME IInv, Reset PROVE IInv'
  <1> USE BoundsAssumption
      DEF Reset, Go, CloseConn, broker, network, observers, app,
          Cancelled, Conns, None, IInv
  <1>1. TypeOK'
    BY DEF TypeOK, RoutineStates, Conns, None, OpenKnown, LocalHeld
  <1>2. Connecting' /\ LocalHeld' /\ OpenKnown'
    BY DEF TypeOK, Connecting, LocalHeld, OpenKnown
  <1>3. Armed' /\ Signalled'
    BY DEF TypeOK, Connecting, LocalHeld, OpenKnown, Armed, Signalled
  <1>4. FlagsDown'
    BY DEF TypeOK, FlagsDown
  <1>5. Consumed' /\ NoChannelAfterTeardown'
    BY DEF TypeOK, Connecting, LocalHeld, OpenKnown, FlagsDown, Consumed, NoChannelAfterTeardown
  <1> QED
    BY <1>1, <1>2, <1>3, <1>4, <1>5

\* amqpConnect dials with no connection held.
LEMMA BeginDialKeeps == ASSUME IInv, BeginDial PROVE IInv'
  <1> USE BoundsAssumption
      DEF BeginDial, Go, broker, network, observers, app,
          Cancelled, Conns, None, IInv
  <1>1. TypeOK'
    BY DEF TypeOK, RoutineStates, Conns, None, OpenKnown, LocalHeld
  <1>2. Connecting' /\ LocalHeld' /\ OpenKnown'
    BY DEF TypeOK, Connecting, LocalHeld, OpenKnown
  <1>3. Armed' /\ Signalled'
    BY DEF TypeOK, Connecting, LocalHeld, OpenKnown, Armed, Signalled
  <1>4. FlagsDown'
    BY DEF TypeOK, FlagsDown
  <1>5. Consumed' /\ NoChannelAfterTeardown'
    BY DEF TypeOK, Connecting, LocalHeld, OpenKnown, FlagsDown, Consumed, NoChannelAfterTeardown
  <1> QED
    BY <1>1, <1>2, <1>3, <1>4, <1>5

\* A failed dial leaves none either.
LEMMA DialFailKeeps == ASSUME IInv, DialFail PROVE IInv'
  <1> USE BoundsAssumption
      DEF DialFail, Go, Fault, broker, network, observers, app,
          Cancelled, Conns, None, IInv
  <1>1. TypeOK'
    BY DEF TypeOK, RoutineStates, Conns, None, OpenKnown, LocalHeld
  <1>2. Connecting' /\ LocalHeld' /\ OpenKnown'
    BY DEF TypeOK, Connecting, LocalHeld, OpenKnown
  <1>3. Armed' /\ Signalled'
    BY DEF TypeOK, Connecting, LocalHeld, OpenKnown, Armed, Signalled
  <1>4. FlagsDown'
    BY DEF TypeOK, FlagsDown
  <1>5. Consumed' /\ NoChannelAfterTeardown'
    BY DEF TypeOK, Connecting, LocalHeld, OpenKnown, FlagsDown, Consumed, NoChannelAfterTeardown
  <1> QED
    BY <1>1, <1>2, <1>3, <1>4, <1>5

\* The dialled connection is the only one, even when Teardown came first.
LEMMA DialOkKeeps == ASSUME IInv, NEW c \in Conns, DialOk(c) PROVE IInv'
  <1> USE BoundsAssumption
      DEF DialOk, Go, Unused, broker, network, observers, app,
          Cancelled, Conns, None, IInv
  <1>1. TypeOK'
    BY DEF TypeOK, RoutineStates, Conns, None, OpenKnown, LocalHeld
  <1>2. Connecting' /\ LocalHeld' /\ OpenKnown'
    BY DEF TypeOK, Connecting, LocalHeld, OpenKnown
  <1>3. Armed' /\ Signalled'
    BY DEF TypeOK, Connecting, LocalHeld, OpenKnown, Armed, Signalled
  <1>4. FlagsDown'
    BY DEF TypeOK, FlagsDown
  <1>5. Consumed' /\ NoChannelAfterTeardown'
    BY DEF TypeOK, Connecting, LocalHeld, OpenKnown, FlagsDown, Consumed, NoChannelAfterTeardown
  <1> QED
    BY <1>1, <1>2, <1>3, <1>4, <1>5

\* The watcher is armed, or the connection had failed and createChannels sees it.
LEMMA SetConnKeeps == ASSUME IInv, SetConn PROVE IInv'
  <1> USE BoundsAssumption
      DEF SetConn, Go, broker, network, observers, app,
          Cancelled, Conns, None, IInv
  <1>1. TypeOK'
    BY DEF TypeOK, RoutineStates, Conns, None, OpenKnown, LocalHeld
  <1>2. Connecting' /\ LocalHeld' /\ OpenKnown'
    BY DEF TypeOK, Connecting, LocalHeld, OpenKnown
  <1>3. Armed' /\ Signalled'
    BY DEF TypeOK, Connecting, LocalHeld, OpenKnown, Armed, Signalled
  <1>4. FlagsDown'
    BY DEF TypeOK, FlagsDown
  <1>5. Consumed' /\ NoChannelAfterTeardown'
    BY DEF TypeOK, Connecting, LocalHeld, OpenKnown, FlagsDown, Consumed, NoChannelAfterTeardown
  <1> QED
    BY <1>1, <1>2, <1>3, <1>4, <1>5

\* The snapshot is the connection the routine holds.
LEMMA OpenChannelsKeeps == ASSUME IInv, OpenChannels PROVE IInv'
  <1> USE BoundsAssumption
      DEF OpenChannels, Go, broker, network, observers, app,
          Cancelled, Conns, None, IInv
  <1>1. TypeOK'
    BY DEF TypeOK, RoutineStates, Conns, None, OpenKnown, LocalHeld
  <1>2. Connecting' /\ LocalHeld' /\ OpenKnown'
    BY DEF TypeOK, Connecting, LocalHeld, OpenKnown
  <1>3. Armed' /\ Signalled'
    BY DEF TypeOK, Connecting, LocalHeld, OpenKnown, Armed, Signalled
  <1>4. FlagsDown'
    BY DEF TypeOK, FlagsDown
  <1>5. Consumed' /\ NoChannelAfterTeardown'
    BY DEF TypeOK, Connecting, LocalHeld, OpenKnown, FlagsDown, Consumed, NoChannelAfterTeardown
  <1> QED
    BY <1>1, <1>2, <1>3, <1>4, <1>5

\* Giving up leads to the pause and its signal.
LEMMA OpenFailsKeeps == ASSUME IInv, OpenFails PROVE IInv'
  <1> USE BoundsAssumption
      DEF OpenFails, Fault, broker, network, observers, app,
          Cancelled, Conns, None, IInv
  <1>1. TypeOK'
    BY DEF TypeOK, RoutineStates, Conns, None, OpenKnown, LocalHeld
  <1>2. Connecting' /\ LocalHeld' /\ OpenKnown'
    BY DEF TypeOK, Connecting, LocalHeld, OpenKnown
  <1>3. Armed' /\ Signalled'
    BY DEF TypeOK, Connecting, LocalHeld, OpenKnown, Armed, Signalled
  <1>4. FlagsDown'
    BY DEF TypeOK, FlagsDown
  <1>5. Consumed' /\ NoChannelAfterTeardown'
    BY DEF TypeOK, Connecting, LocalHeld, OpenKnown, FlagsDown, Consumed, NoChannelAfterTeardown
  <1> QED
    BY <1>1, <1>2, <1>3, <1>4, <1>5

\* Storing the channels after a Teardown changes no connection.
LEMMA PublishChannelsKeeps == ASSUME IInv, PublishChannels PROVE IInv'
  <1> USE BoundsAssumption
      DEF PublishChannels, Go, broker, network, observers, app,
          Cancelled, Conns, None, IInv
  <1>1. TypeOK'
    BY DEF TypeOK, RoutineStates, Conns, None, OpenKnown, LocalHeld
  <1>2. Connecting' /\ LocalHeld' /\ OpenKnown'
    BY DEF TypeOK, Connecting, LocalHeld, OpenKnown
  <1>3. Armed' /\ Signalled'
    BY DEF TypeOK, Connecting, LocalHeld, OpenKnown, Armed, Signalled
  <1>4. FlagsDown'
    BY DEF TypeOK, FlagsDown
  <1>5. Consumed' /\ NoChannelAfterTeardown'
    BY DEF TypeOK, Connecting, LocalHeld, OpenKnown, FlagsDown, Consumed, NoChannelAfterTeardown
  <1> QED
    BY <1>1, <1>2, <1>3, <1>4, <1>5

\* connected is set before Start, which may still fail.
LEMMA MarkConnectedKeeps == ASSUME IInv, MarkConnected PROVE IInv'
  <1> USE BoundsAssumption
      DEF MarkConnected, Go, broker, network, observers, app,
          Cancelled, Conns, None, IInv
  <1>1. TypeOK'
    BY DEF TypeOK, RoutineStates, Conns, None, OpenKnown, LocalHeld
  <1>2. Connecting' /\ LocalHeld' /\ OpenKnown'
    BY DEF TypeOK, Connecting, LocalHeld, OpenKnown
  <1>3. Armed' /\ Signalled'
    BY DEF TypeOK, Connecting, LocalHeld, OpenKnown, Armed, Signalled
  <1>4. FlagsDown'
    BY DEF TypeOK, FlagsDown
  <1>5. Consumed' /\ NoChannelAfterTeardown'
    BY DEF TypeOK, Connecting, LocalHeld, OpenKnown, FlagsDown, Consumed, NoChannelAfterTeardown
  <1> QED
    BY <1>1, <1>2, <1>3, <1>4, <1>5

\* The consumer starts on the channels just opened, or not at all.
LEMMA StartOkKeeps == ASSUME IInv, StartOk PROVE IInv'
  <1> USE BoundsAssumption
      DEF StartOk, Go, broker, network, observers, app,
          Cancelled, Conns, None, IInv
  <1>1. TypeOK'
    BY DEF TypeOK, RoutineStates, Conns, None, OpenKnown, LocalHeld
  <1>2. Connecting' /\ LocalHeld' /\ OpenKnown'
    BY DEF TypeOK, Connecting, LocalHeld, OpenKnown
  <1>3. Armed' /\ Signalled'
    BY DEF TypeOK, Connecting, LocalHeld, OpenKnown, Armed, Signalled
  <1>4. FlagsDown'
    BY DEF TypeOK, FlagsDown
  <1>5. Consumed' /\ NoChannelAfterTeardown'
    BY DEF TypeOK, Connecting, LocalHeld, OpenKnown, FlagsDown, Consumed, NoChannelAfterTeardown
  <1> QED
    BY <1>1, <1>2, <1>3, <1>4, <1>5

\* A failed Start leads to the pause and its signal.
LEMMA StartFailsKeeps == ASSUME IInv, StartFails PROVE IInv'
  <1> USE BoundsAssumption
      DEF StartFails, Go, Fault, broker, network, observers, app,
          Cancelled, Conns, None, IInv
  <1>1. TypeOK'
    <2>1. sig' \in 0..ChanCap /\ faults' \in 0..MaxFaults
      BY DEF TypeOK
    <2>2. chanOk' \subseteq open'
      BY DEF TypeOK
    <2>3. {connected', running', fullyInitialized', wd', overdue', connectedChan'} \subseteq BOOLEAN
      BY DEF TypeOK
    <2> QED
      BY <2>1, <2>2, <2>3 DEF TypeOK, RoutineStates
  <1>2. Connecting' /\ LocalHeld' /\ OpenKnown'
    BY DEF TypeOK, Connecting, LocalHeld, OpenKnown
  <1>3. Armed' /\ Signalled'
    BY DEF TypeOK, Connecting, LocalHeld, OpenKnown, Armed, Signalled
  <1>4. FlagsDown'
    BY DEF TypeOK, FlagsDown
  <1>5. Consumed' /\ NoChannelAfterTeardown'
    BY DEF TypeOK, Connecting, LocalHeld, OpenKnown, FlagsDown, Consumed, NoChannelAfterTeardown
  <1> QED
    BY <1>1, <1>2, <1>3, <1>4, <1>5

\* Back to the select with a working connection or a signal on its way.
LEMMA InitializedKeeps == ASSUME IInv, Initialized PROVE IInv'
  <1> USE BoundsAssumption
      DEF Initialized, Go, broker, network, observers, app,
          Cancelled, Conns, None, IInv
  <1>1. TypeOK'
    BY DEF TypeOK, RoutineStates, Conns, None, OpenKnown, LocalHeld
  <1>2. Connecting' /\ LocalHeld' /\ OpenKnown'
    BY DEF TypeOK, Connecting, LocalHeld, OpenKnown
  <1>3. Armed' /\ Signalled'
    BY DEF TypeOK, Connecting, LocalHeld, OpenKnown, Armed, Signalled
  <1>4. FlagsDown'
    BY DEF TypeOK, FlagsDown
  <1>5. Consumed' /\ NoChannelAfterTeardown'
    BY DEF TypeOK, Connecting, LocalHeld, OpenKnown, FlagsDown, Consumed, NoChannelAfterTeardown
  <1> QED
    BY <1>1, <1>2, <1>3, <1>4, <1>5

\* The signal after a failed attempt.
LEMMA PauseEndsKeeps == ASSUME IInv, PauseEnds PROVE IInv'
  <1> USE BoundsAssumption
      DEF PauseEnds, Go, Signal, broker, network, observers, app,
          Cancelled, Conns, None, IInv
  <1>1. TypeOK'
    BY DEF TypeOK, RoutineStates, Conns, None, OpenKnown, LocalHeld
  <1>2. Connecting' /\ LocalHeld' /\ OpenKnown'
    BY DEF TypeOK, Connecting, LocalHeld, OpenKnown
  <1>3. Armed' /\ Signalled'
    BY DEF TypeOK, Connecting, LocalHeld, OpenKnown, Armed, Signalled
  <1>4. FlagsDown'
    BY DEF TypeOK, FlagsDown
  <1>5. Consumed' /\ NoChannelAfterTeardown'
    BY DEF TypeOK, Connecting, LocalHeld, OpenKnown, FlagsDown, Consumed, NoChannelAfterTeardown
  <1> QED
    BY <1>1, <1>2, <1>3, <1>4, <1>5

-----------------------------------------------------------------------------
(* Watchers, consumers, Teardown and failures *)

\* The notification becomes a signal.
LEMMA WatcherSignalsKeeps == ASSUME IInv, NEW c \in Conns, WatcherSignals(c) PROVE IInv'
  <1> USE BoundsAssumption
      DEF WatcherSignals, Signal, broker, network, observers, app,
          Cancelled, Conns, None, IInv
  <1>1. TypeOK'
    BY DEF TypeOK, RoutineStates, Conns, None, OpenKnown, LocalHeld
  <1>2. Connecting' /\ LocalHeld' /\ OpenKnown'
    BY DEF TypeOK, Connecting, LocalHeld, OpenKnown
  <1>3. Armed' /\ Signalled'
    BY DEF TypeOK, Connecting, LocalHeld, OpenKnown, Armed, Signalled
  <1>4. FlagsDown'
    BY DEF TypeOK, FlagsDown
  <1>5. Consumed' /\ NoChannelAfterTeardown'
    BY DEF TypeOK, Connecting, LocalHeld, OpenKnown, FlagsDown, Consumed, NoChannelAfterTeardown
  <1> QED
    BY <1>1, <1>2, <1>3, <1>4, <1>5

\* After cancel nobody needs to be woken.
LEMMA WatcherExitsKeeps == ASSUME IInv, NEW c \in Conns, WatcherExits(c) PROVE IInv'
  <1> USE BoundsAssumption
      DEF WatcherExits, broker, network, observers, app,
          Cancelled, Conns, None, IInv
  <1>1. TypeOK'
    BY DEF TypeOK, RoutineStates, Conns, None, OpenKnown, LocalHeld
  <1>2. Connecting' /\ LocalHeld' /\ OpenKnown'
    BY DEF TypeOK, Connecting, LocalHeld, OpenKnown
  <1>3. Armed' /\ Signalled'
    BY DEF TypeOK, Connecting, LocalHeld, OpenKnown, Armed, Signalled
  <1>4. FlagsDown'
    BY DEF TypeOK, FlagsDown
  <1>5. Consumed' /\ NoChannelAfterTeardown'
    BY DEF TypeOK, Connecting, LocalHeld, OpenKnown, FlagsDown, Consumed, NoChannelAfterTeardown
  <1> QED
    BY <1>1, <1>2, <1>3, <1>4, <1>5

\* A consumer ends with its channel or the context only.
LEMMA ConsumerExitsKeeps == ASSUME IInv, NEW c \in Conns, ConsumerExits(c) PROVE IInv'
  <1> USE BoundsAssumption
      DEF ConsumerExits, broker, network, observers, app,
          Cancelled, Conns, None, IInv
  <1>1. TypeOK'
    BY DEF TypeOK, RoutineStates, Conns, None, OpenKnown, LocalHeld
  <1>2. Connecting' /\ LocalHeld' /\ OpenKnown'
    BY DEF TypeOK, Connecting, LocalHeld, OpenKnown
  <1>3. Armed' /\ Signalled'
    BY DEF TypeOK, Connecting, LocalHeld, OpenKnown, Armed, Signalled
  <1>4. FlagsDown'
    BY DEF TypeOK, FlagsDown
  <1>5. Consumed' /\ NoChannelAfterTeardown'
    BY DEF TypeOK, Connecting, LocalHeld, OpenKnown, FlagsDown, Consumed, NoChannelAfterTeardown
  <1> QED
    BY <1>1, <1>2, <1>3, <1>4, <1>5

\* From the cancel on only exits are promised.
LEMMA TeardownCancelsKeeps == ASSUME IInv, TeardownCancels PROVE IInv'
  <1> USE BoundsAssumption
      DEF TeardownCancels, broker, network, observers, app,
          Cancelled, Conns, None, IInv
  <1>1. TypeOK'
    BY DEF TypeOK, RoutineStates, Conns, None, OpenKnown, LocalHeld
  <1>2. Connecting' /\ LocalHeld' /\ OpenKnown'
    BY DEF TypeOK, Connecting, LocalHeld, OpenKnown
  <1>3. Armed' /\ Signalled'
    BY DEF TypeOK, Connecting, LocalHeld, OpenKnown, Armed, Signalled
  <1>4. FlagsDown'
    BY DEF TypeOK, FlagsDown
  <1>5. Consumed' /\ NoChannelAfterTeardown'
    BY DEF TypeOK, Connecting, LocalHeld, OpenKnown, FlagsDown, Consumed, NoChannelAfterTeardown
  <1> QED
    BY <1>1, <1>2, <1>3, <1>4, <1>5

\* Whatever has channels is closed.
LEMMA TeardownClosesKeeps == ASSUME IInv, TeardownCloses PROVE IInv'
  <1> USE BoundsAssumption
      DEF TeardownCloses, CloseConn, broker, network, observers, app,
          Cancelled, Conns, None, IInv
  <1>1. TypeOK'
    BY DEF TypeOK, RoutineStates, Conns, None, OpenKnown, LocalHeld
  <1>2. Connecting' /\ LocalHeld' /\ OpenKnown'
    BY DEF TypeOK, Connecting, LocalHeld, OpenKnown
  <1>3. Armed' /\ Signalled'
    BY DEF TypeOK, Connecting, LocalHeld, OpenKnown, Armed, Signalled
  <1>4. FlagsDown'
    BY DEF TypeOK, FlagsDown
  <1>5. Consumed' /\ NoChannelAfterTeardown'
    BY DEF TypeOK, Connecting, LocalHeld, OpenKnown, FlagsDown, Consumed, NoChannelAfterTeardown
  <1> QED
    BY <1>1, <1>2, <1>3, <1>4, <1>5

\* A failure of the broker's connection is notified.
LEMMA ConnectionFailsKeeps == ASSUME IInv, NEW c \in Conns, ConnectionFails(c) PROVE IInv'
  <1> USE BoundsAssumption
      DEF ConnectionFails, Fault, broker, network, observers, app,
          Cancelled, Conns, None, IInv
  <1>1. TypeOK'
    BY DEF TypeOK, RoutineStates, Conns, None, OpenKnown, LocalHeld
  <1>2. Connecting' /\ LocalHeld' /\ OpenKnown'
    BY DEF TypeOK, Connecting, LocalHeld, OpenKnown
  <1>3. Armed' /\ Signalled'
    BY DEF TypeOK, Connecting, LocalHeld, OpenKnown, Armed, Signalled
  <1>4. FlagsDown'
    BY DEF TypeOK, FlagsDown
  <1>5. Consumed' /\ NoChannelAfterTeardown'
    BY DEF TypeOK, Connecting, LocalHeld, OpenKnown, FlagsDown, Consumed, NoChannelAfterTeardown
  <1> QED
    BY <1>1, <1>2, <1>3, <1>4, <1>5

\* A channel that fails alone takes no connection with it.
LEMMA ChannelFailsKeeps == ASSUME IInv, NEW c \in Conns, ChannelFails(c) PROVE IInv'
  <1> USE BoundsAssumption
      DEF ChannelFails, Fault, broker, network, observers, app,
          Cancelled, Conns, None, IInv
  <1>1. TypeOK'
    BY DEF TypeOK, RoutineStates, Conns, None, OpenKnown, LocalHeld
  <1>2. Connecting' /\ LocalHeld' /\ OpenKnown'
    BY DEF TypeOK, Connecting, LocalHeld, OpenKnown
  <1>3. Armed' /\ Signalled'
    BY DEF TypeOK, Connecting, LocalHeld, OpenKnown, Armed, Signalled
  <1>4. FlagsDown'
    BY DEF TypeOK, FlagsDown
  <1>5. Consumed' /\ NoChannelAfterTeardown'
    BY DEF TypeOK, Connecting, LocalHeld, OpenKnown, FlagsDown, Consumed, NoChannelAfterTeardown
  <1> QED
    BY <1>1, <1>2, <1>3, <1>4, <1>5

-----------------------------------------------------------------------------
(* The theorems *)

\* The broker starts with nothing open and one signal queued.
LEMMA InductiveInit == Init => IInv
  <1> SUFFICES ASSUME Init PROVE IInv
    OBVIOUS
  <1>1. TypeOK
    <2>1. sig \in 0..ChanCap /\ faults \in 0..MaxFaults /\ ticks \in 0..MaxTicks
      BY BoundsAssumption DEF Init
    <2>2. watcher \in [Conns -> {"off", "armed", "notified"}]
      BY DEF Init
    <2>3. {connected, running, fullyInitialized, wd, overdue, connectedChan} \subseteq BOOLEAN
      BY DEF Init
    <2> QED
      BY <2>1, <2>2, <2>3 DEF Init, TypeOK, RoutineStates
  <1>2. Connecting /\ LocalHeld /\ OpenKnown /\ Armed /\ Signalled
    BY DEF Init, Connecting, LocalHeld, OpenKnown, Armed, Signalled, Cancelled
  <1>3. FlagsDown /\ Consumed /\ NoChannelAfterTeardown
    BY DEF Init, FlagsDown, Consumed, NoChannelAfterTeardown
  <1> QED
    BY <1>1, <1>2, <1>3 DEF IInv

\* Every step of every goroutine keeps the invariant.
LEMMA InductiveStep == IInv /\ [Next]_vars => IInv'
  <1> SUFFICES ASSUME IInv, [Next]_vars PROVE IInv'
    OBVIOUS
  <1>1. CASE Routine
    BY <1>1, WakeKeeps, QuitKeeps, ResetKeeps, BeginDialKeeps, DialOkKeeps, DialFailKeeps,
       SetConnKeeps, OpenChannelsKeeps, OpenFailsKeeps, PublishChannelsKeeps,
       MarkConnectedKeeps, StartOkKeeps, StartFailsKeeps, InitializedKeeps, PauseEndsKeeps
       DEF Routine
  <1>2. CASE Goroutines
    BY <1>2, WatcherSignalsKeeps, WatcherExitsKeeps, ConsumerExitsKeeps DEF Goroutines
  <1>3. CASE Observers \/ InitializeReturns
    BY <1>3, ObserversKeep
  <1>4. CASE TeardownCancels \/ TeardownCloses
    BY <1>4, TeardownCancelsKeeps, TeardownClosesKeeps
  <1>5. CASE Failures
    BY <1>5, ConnectionFailsKeeps, ChannelFailsKeeps DEF Failures
  <1>6. CASE UNCHANGED vars
    <2>1. TypeOK'
      BY <1>6 DEF vars, broker, network, observers, app, IInv, TypeOK
    <2>2. sig' >= sig
      BY <1>6 DEF vars, IInv, TypeOK
    <2> QED
      BY <1>6, <2>1, <2>2, BystandersKeep DEF vars, app
  <1> QED
    BY <1>1, <1>2, <1>3, <1>4, <1>5, <1>6 DEF Next, Application

\* The invariant holds in every reachable state of the broker.
THEOREM Invariant == Spec => []IInv
  BY InductiveInit, InductiveStep, PTL DEF Spec

\* The types of the broker's variables; reconnectChan never overflows.
THEOREM TypeCorrect == Spec => []TypeOK
  <1>1. IInv => TypeOK
    BY DEF IInv
  <1> QED
    BY Invariant, <1>1, PTL

\* The routine never waits at its select on a dead connection without a
\* signal queued or about to come.
THEOREM WakeupsKept == Spec => []NoLostWakeup
  <1>1. IInv => NoLostWakeup
    BY DEF IInv, Signalled, NoLostWakeup
  <1> QED
    BY Invariant, <1>1, PTL

\* Reconnecting never piles up connections.
THEOREM NoPileUp == Spec => []OneConnection
  <1>1. ASSUME IInv PROVE OneConnection
    <2>1. PICK c : open \subseteq {c}
      BY <1>1 DEF IInv, OpenKnown
    <2>2. open = {} \/ open = {c}
      BY <2>1
    <2>3. Cardinality(open) = 0 \/ Cardinality(open) = 1
      BY <2>2, FS_EmptySet, FS_Singleton
    <2> QED
      BY <2>3 DEF OneConnection
  <1> QED
    BY Invariant, <1>1, PTL

\* After Teardown no channel is left to receive or publish on.
THEOREM ChannelsEndWithTeardown == Spec => []NoChannelAfterTeardown
  <1>1. IInv => NoChannelAfterTeardown
    BY DEF IInv
  <1> QED
    BY Invariant, <1>1, PTL

\* Healthy() means consuming, as long as no channel fails on its own.
THEOREM HealthyConsumes == ASSUME ~ChannelFaults PROVE Spec => []HealthyMeansConsumer
  <1>1. IInv => HealthyMeansConsumer
    BY DEF IInv, Consumed, Healthy, HealthyMeansConsumer
  <1> QED
    BY Invariant, <1>1, PTL
=============================================================================
