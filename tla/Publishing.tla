----------------------------- MODULE Publishing -----------------------------
(***************************************************************************)
(* The way of an event from a workload back into RabbitMQ: the client      *)
(* package posts it to /publish, JobPublish hands it to publishWithRetry,  *)
(* which makes up to three attempts on the publish channel the broker      *)
(* holds just then, while amqpConnectRoutine may be replacing that channel *)
(* after an outage, waiting ever longer between two dials.                 *)
(*                                                                         *)
(* What races here are delays, so time is counted in seconds: Tick lets    *)
(* one pass when no goroutine can run, and every sleep is a timer.  A dial *)
(* and a call to RabbitMQ take no time, but a call on a half-open          *)
(* connection waits until the client library gives the connection up, and  *)
(* three of those waits are under connMutex, which publishWithRetry reads. *)
(***************************************************************************)
EXTENDS Integers

CONSTANTS Requests,      \* POSTs to /publish, one event each
          MaxRetries,    \* attempts of publishWithRetry
          BaseBackoff, MaxBackoff,  \* of amqpConnect
          ChannelRetries,           \* attempts of createChannels
          PauseTime,     \* pause after a failed createChannels or Start
          SilenceTime,   \* until the client library gives up a silent connection
          MaxFaults      \* bound: outages and other failures

ASSUME DelaysAssumption ==
  /\ MaxRetries \in Nat \ {0} /\ ChannelRetries \in Nat \ {0}
  /\ BaseBackoff \in Nat \ {0} /\ MaxBackoff \in Nat /\ BaseBackoff <= MaxBackoff
  /\ SilenceTime \in Nat \ {0} /\ MaxFaults \in Nat
  /\ PauseTime \in 1..MaxBackoff /\ ChannelRetries <= MaxBackoff

VARIABLES
  up,           \* RabbitMQ can be reached
  link,         \* the connection: "none", "ok", "dead" (half-open), "lost"
  silent,       \* seconds it has been half-open
  channel,      \* broker.publishChannel: "none", "ok" or "closed"
  connected,    \* broker.connected
  rpc,          \* amqpConnectRoutine
  delay,        \* min(baseBackoff * 2^attempt, maxBackoff)
  tries,        \* failed attempts of createChannels
  wait,         \* seconds the routine still sleeps
  tear,         \* Teardown: "no", "cancelled", "closing" with connMutex
                \* held, or "exit" when Run has returned
  pc,           \* each request's handler, or how it was answered
  attempt, sleep,  \* of publishWithRetry
  copies,       \* copies of the event in its queue
  written,      \* requests whose event was written to a connection
  slept,        \* history: seconds the handler has slept, up to one too many
  blocked,      \* history: seconds it has waited for connMutex, likewise
  outage,       \* history: seconds RabbitMQ was out or the connection
                \* half-open, no more than LongOutage
  upFor,        \* history: seconds the routine has waited on a reachable RabbitMQ
  faults        \* outages, other failures, and the first connection

routine == <<rpc, delay, tries, wait>>
broker == <<link, silent, channel, connected>>
requests == <<pc, attempt, sleep, copies, written, slept, blocked>>
history == <<outage, upFor>>
vars == <<up, broker, routine, tear, requests, history, faults>>

RoutineStates == {"select", "reset", "close", "dial", "backoff", "channels", "retry", "start",
                  "consume", "pause", "exit"}
Answers == {"accepted", "failed", "refused", "malformed", "unencodable", "aborted"}
LongOutage == 2 * BaseBackoff
AnswerTime == (MaxRetries * (MaxRetries - 1)) \div 2
Cancelled == tear # "no"

\* Mutant: the routine keeps connMutex while it dials.
LockHeldOverDial == rpc \in {"close", "dial", "backoff", "consume"} \/ tear = "closing"

\* connMutex is held for writing over a call to RabbitMQ: over the Close of
\* the reset, over Consume in Start, and in Teardown.
LockHeld == rpc \in {"close", "consume"} \/ tear = "closing"

\* An RWMutex is taken for writing when nobody has it, and its release lets
\* all readers in that wait, before the next writer.
WriteLock == ~LockHeld /\ \A r \in Requests : pc[r] # "read"
Unlocked(p) == [r \in Requests |-> IF p[r] = "lock" THEN "read" ELSE p[r]]

\* Initialize has just sent the first signal, or its connection is up.
Init ==
  /\ \/ /\ up \in BOOLEAN /\ link = "none" /\ channel = "none" /\ connected = FALSE
        /\ rpc = "dial" /\ faults = 1
     \/ /\ up = TRUE /\ link = "ok" /\ channel = "ok" /\ connected = TRUE
        /\ rpc = "select" /\ faults = 0
  /\ delay = BaseBackoff /\ tries = 0 /\ wait = 0
  /\ tear = "no"
  /\ pc = [r \in Requests |-> "idle"]
  /\ attempt = [r \in Requests |-> 0] /\ sleep = [r \in Requests |-> 0]
  /\ copies = [r \in Requests |-> 0] /\ written = {}
  /\ slept = [r \in Requests |-> 0] /\ blocked = [r \in Requests |-> 0] /\ silent = 0
  /\ outage = 0 /\ upFor = 0

-----------------------------------------------------------------------------
(* publishWithRetry, called by JobPublish for request r *)

\* The POST arrives.  A body that is no CloudEvent is answered with 400, an
\* event that json.Marshal refuses with 500.
Receive(r) ==
  /\ pc[r] = "idle" /\ tear # "exit"
  /\ \E next \in {"look", "malformed", "unencodable"} : pc' = [pc EXCEPT ![r] = next]
  /\ UNCHANGED <<up, broker, routine, tear, attempt, sleep, copies, written, slept,
                 blocked, history, faults>>

\* Mutant: success after the last attempt.
AttemptFailedSilent(r) ==
  /\ pc' = [pc EXCEPT ![r] = IF attempt[r] < MaxRetries - 1 THEN "sleep" ELSE "accepted"]
  /\ sleep' = [sleep EXCEPT ![r] = IF attempt[r] < MaxRetries - 1 THEN attempt[r] + 1 ELSE 0]

\* After a failed attempt: one second, then two; none after the last.
AttemptFailed(r) ==
  LET last == attempt[r] = MaxRetries - 1
  IN /\ pc' = [pc EXCEPT ![r] = IF last THEN "failed" ELSE "sleep"]
     /\ sleep' = [sleep EXCEPT ![r] = IF last THEN 0 ELSE attempt[r] + 1]

\* Each attempt begins with a look at the context.
Look(r) ==
  /\ pc[r] = "look"
  /\ pc' = [pc EXCEPT ![r] = IF Cancelled THEN "refused" ELSE "lock"]
  /\ UNCHANGED <<up, broker, routine, tear, attempt, sleep, copies, written, slept,
                 blocked, history, faults>>

\* A copy of connected and publishChannel, read under the lock.
Snapshot(r) ==
  /\ pc[r] = "read" \/ (pc[r] = "lock" /\ ~LockHeld)
  /\ \/ /\ connected /\ channel # "none"
        /\ pc' = [pc EXCEPT ![r] = "write"]
        /\ UNCHANGED sleep
     \/ /\ ~(connected /\ channel # "none")
        /\ AttemptFailed(r)
  /\ UNCHANGED <<up, broker, routine, tear, attempt, copies, written, slept, blocked,
                 history, faults>>

\* Mutant: a successful attempt does not end the loop.
WriteOkGoesOn(r) ==
  /\ pc[r] = "write" /\ channel = "ok" /\ link = "ok"
  /\ AttemptFailed(r)
  /\ written' = written \cup {r}
  /\ copies' = [copies EXCEPT ![r] = @ + 1]
  /\ UNCHANGED <<up, broker, routine, tear, attempt, slept, blocked, history, faults>>

\* Publish, not mandatory and without confirms, returns nil once the frames
\* are written.  They reach a queue if the connection is more than half-open
\* and the event's type is the name of a queue.
WriteOk(r) ==
  /\ pc[r] = "write" /\ channel = "ok" /\ link \in {"ok", "dead"}
  /\ pc' = [pc EXCEPT ![r] = "accepted"]
  /\ written' = written \cup {r}
  /\ \/ link = "ok" /\ copies' = [copies EXCEPT ![r] = @ + 1]
     \/ UNCHANGED copies
  /\ UNCHANGED <<up, broker, routine, tear, attempt, sleep, slept, blocked, history, faults>>

\* Publish on a copy that was closed meanwhile ("stale"), a channel closed by
\* the server or a lost connection: nothing reaches RabbitMQ.
WriteFails(r) ==
  /\ \/ pc[r] = "stale"
     \/ pc[r] = "write" /\ (channel = "closed" \/ link = "lost")
  /\ AttemptFailed(r)
  /\ UNCHANGED <<up, broker, routine, tear, attempt, copies, written, slept, blocked,
                 history, faults>>

\* Mutant: the attempt is not counted.
WakeUpUncounted(r) ==
  /\ pc[r] = "sleep" /\ sleep[r] = 0
  /\ pc' = [pc EXCEPT ![r] = "look"]
  /\ UNCHANGED <<up, broker, routine, tear, attempt, sleep, copies, written, slept,
                 blocked, history, faults>>

WakeUp(r) ==
  /\ pc[r] = "sleep" /\ sleep[r] = 0
  /\ pc' = [pc EXCEPT ![r] = "look"]
  /\ attempt' = [attempt EXCEPT ![r] = @ + 1]
  /\ UNCHANGED <<up, broker, routine, tear, sleep, copies, written, slept, blocked,
                 history, faults>>

\* What the client package makes of the answer.  PublishEvent returns an
\* error unless the status is 200 or 202; SendEvent drops that error and
\* returns the nil left from json.Marshal.
Answered(r) == pc[r] \in Answers
PublishEvent(r) == IF pc[r] = "accepted" THEN "nil" ELSE "error"
SendEvent(r) == "nil"

Handler(r) == Receive(r) \/ Look(r) \/ Snapshot(r) \/ WriteOk(r) \/ WriteFails(r) \/ WakeUp(r)
-----------------------------------------------------------------------------
(* amqpConnectRoutine, as far as a publisher sees it *)

Go(from, to) == rpc = from /\ rpc' = to
Fault == faults < MaxFaults /\ faults' = faults + 1

\* The close watcher's signal, when the connection is lost.
Wake ==
  /\ Go("select", "reset") /\ link = "lost"
  /\ UNCHANGED <<up, broker, delay, tries, wait, tear, requests, history, faults>>

\* Channels and connection are closed and connMutex is released: copies that
\* handlers took are stale.
CloseAll ==
  /\ link' = "none" /\ silent' = 0 /\ channel' = "none" /\ connected' = FALSE
  /\ pc' = [r \in Requests |-> IF pc[r] = "write" THEN "stale" ELSE Unlocked(pc)[r]]

\* The reset takes connMutex before it closes anything ...
ResetLocks ==
  /\ Go("reset", "close") /\ WriteLock
  /\ UNCHANGED <<up, broker, delay, tries, wait, tear, requests, history, faults>>

\* ... and waits for the answer to Close, or for the end of a silent
\* connection.  A new call of amqpConnect starts from the base delay.
Reset ==
  /\ Go("close", "dial") /\ link # "dead"
  /\ CloseAll
  /\ delay' = BaseBackoff
  /\ UNCHANGED <<up, tries, wait, tear, attempt, sleep, copies, written, slept, blocked,
                 history, faults>>

DialOk ==
  /\ Go("dial", "channels") /\ up /\ ~Cancelled
  /\ link' = "ok" /\ tries' = 0 /\ upFor' = 0
  /\ UNCHANGED <<up, silent, channel, connected, delay, wait, tear, requests, outage, faults>>

\* Mutants: the delay is not capped; every delay is the cap.
DialFailUncapped ==
  /\ Go("dial", "backoff") /\ ~up /\ ~Cancelled
  /\ delay' = 2 * delay /\ wait' = delay'
  /\ UNCHANGED <<up, broker, tries, tear, requests, history, faults>>
DialFailSlow ==
  /\ Go("dial", "backoff") /\ ~up /\ ~Cancelled
  /\ delay' = MaxBackoff /\ wait' = delay'
  /\ UNCHANGED <<up, broker, tries, tear, requests, history, faults>>

\* attempt is incremented before the delay is computed from it.
DialFail ==
  /\ Go("dial", "backoff") /\ ~up /\ ~Cancelled
  /\ delay' = IF 2 * delay < MaxBackoff THEN 2 * delay ELSE MaxBackoff
  /\ wait' = delay'
  /\ UNCHANGED <<up, broker, tries, tear, requests, history, faults>>

BackoffEnds ==
  /\ Go("backoff", "dial") /\ wait = 0
  /\ UNCHANGED <<up, broker, delay, tries, wait, tear, requests, history, faults>>

\* createChannels stores a new publish channel, and the broker is marked as
\* connected in a second critical section right after, ...
OpenChannels ==
  /\ Go("channels", "start") /\ link = "ok" /\ ~Cancelled /\ WriteLock
  /\ channel' = "ok" /\ connected' = TRUE
  /\ UNCHANGED <<up, link, silent, delay, tries, wait, tear, requests, history, faults>>

\* ... or fails and sleeps one second more each time, ...
OpenFails ==
  /\ Go("channels", "retry") /\ link = "ok" /\ ~Cancelled
  /\ Fault
  /\ tries' = tries + 1 /\ wait' = tries'
  /\ UNCHANGED <<up, broker, delay, tear, requests, history>>

OpenAgain ==
  /\ wait = 0 /\ tries < ChannelRetries
  /\ Go("retry", "channels")
  /\ UNCHANGED <<up, broker, delay, tries, wait, tear, requests, history, faults>>

\* ... or gives up: after the last attempt or on a closed connection.
GiveUp ==
  /\ \/ Go("retry", "pause") /\ wait = 0 /\ tries = ChannelRetries
     \/ Go("channels", "pause") /\ link = "lost"
  /\ wait' = PauseTime
  /\ UNCHANGED <<up, broker, delay, tries, tear, requests, history, faults>>

\* Start keeps connMutex until Consume has been answered.
StartLocks ==
  /\ Go("start", "consume") /\ WriteLock
  /\ UNCHANGED <<up, broker, delay, tries, wait, tear, requests, history, faults>>

StartOk ==
  /\ Go("consume", "select") /\ link = "ok"
  /\ pc' = Unlocked(pc)
  /\ UNCHANGED <<up, broker, delay, tries, wait, tear, attempt, sleep, copies, written,
                 slept, blocked, history, faults>>

\* connected stays set when Start fails.
StartFails ==
  /\ Go("consume", "pause")
  /\ \/ link = "lost" /\ UNCHANGED faults
     \/ link = "ok" /\ Fault
  /\ pc' = Unlocked(pc) /\ wait' = PauseTime
  /\ UNCHANGED <<up, broker, delay, tries, tear, attempt, sleep, copies, written, slept,
                 blocked, history>>

PauseEnds ==
  /\ Go("pause", "reset") /\ wait = 0
  /\ UNCHANGED <<up, broker, delay, tries, wait, tear, requests, history, faults>>

Quit ==
  /\ Cancelled
  /\ \/ Go("select", "exit") \/ Go("dial", "exit") \/ Go("backoff", "exit")
     \/ Go("pause", "exit") \/ Go("channels", "pause")
  /\ wait' = 0
  /\ UNCHANGED <<up, broker, delay, tries, tear, requests, history, faults>>

Routine == \/ Wake \/ ResetLocks \/ Reset \/ DialOk \/ DialFail \/ BackoffEnds
           \/ OpenChannels \/ OpenFails \/ OpenAgain \/ GiveUp
           \/ StartLocks \/ StartOk \/ StartFails \/ PauseEnds \/ Quit
-----------------------------------------------------------------------------
(* Shutdown, failures and time *)

Interrupt ==
  /\ tear = "no" /\ tear' = "cancelled"
  /\ UNCHANGED <<up, broker, routine, requests, history, faults>>

\* Teardown takes connMutex, ...
TeardownLocks ==
  /\ tear = "cancelled" /\ WriteLock /\ tear' = "closing"
  /\ UNCHANGED <<up, broker, routine, requests, history, faults>>

\* ... closes what is open, a silent connection once it has ended, and Run
\* returns, which ends the process: a handler still at work never answers.
ProcessEnds ==
  /\ tear = "closing" /\ link # "dead"
  /\ tear' = "exit" /\ rpc' = "exit" /\ wait' = 0
  /\ link' = "none" /\ silent' = 0 /\ channel' = "none" /\ connected' = FALSE
  /\ pc' = [r \in Requests |-> IF pc[r] \in Answers \cup {"idle"} THEN pc[r] ELSE "aborted"]
  /\ UNCHANGED <<up, delay, tries, attempt, sleep, copies, written, slept, blocked,
                 history, faults>>

\* RabbitMQ stops, or the network: the client library learns at once or not.
OutageBegins ==
  /\ up /\ Fault
  /\ up' = FALSE /\ upFor' = 0
  /\ link' \in IF link = "ok" THEN {"dead", "lost"} ELSE {link}
  /\ UNCHANGED <<silent, channel, connected, routine, tear, requests, outage>>

OutageEnds ==
  /\ ~up /\ up' = TRUE
  /\ UNCHANGED <<broker, routine, tear, requests, history, faults>>

\* Missed heartbeats, after SilenceTime, or before a reset in answer to a write.
Notice ==
  /\ link = "dead" /\ link' = "lost" /\ silent' = 0
  /\ UNCHANGED <<up, channel, connected, routine, tear, requests, history, faults>>

\* RabbitMQ closes the publish channel alone, or a leftover signal resets a
\* connection that is fine.
ChannelFails ==
  /\ channel = "ok" /\ Fault
  /\ channel' = "closed"
  /\ UNCHANGED <<up, link, silent, connected, routine, tear, requests, history>>
LeftoverSignal ==
  /\ Go("select", "reset") /\ Fault
  /\ UNCHANGED <<up, broker, delay, tries, wait, tear, requests, history>>

\* No goroutine could run: each sleeps, waits for a signal or for connMutex,
\* or waits for a reply on a connection that is half-open.
Idle ==
  /\ \A r \in Requests : \/ pc[r] \in Answers \cup {"idle"}
                         \/ pc[r] = "sleep" /\ sleep[r] > 0
                         \/ pc[r] = "lock" /\ LockHeld
  /\ rpc \in {"backoff", "retry", "pause"} => wait > 0
  /\ rpc \in {"select", "backoff", "pause"} => ~Cancelled
  /\ rpc = "select" => link # "lost"
  /\ rpc \in {"channels", "close", "consume"} \/ tear = "closing" => link = "dead"
  /\ rpc # "dial" /\ (rpc \in {"reset", "start"} \/ tear = "cancelled" => LockHeld)
  /\ link = "dead" => silent < SilenceTime

Less(n) == IF n > 0 THEN n - 1 ELSE 0
Counted(count, waits, most) ==
  [r \in Requests |-> IF waits[r] /\ count[r] <= most THEN count[r] + 1 ELSE count[r]]
Tick ==
  /\ Idle
  /\ wait' = Less(wait)
  /\ sleep' = [r \in Requests |-> Less(sleep[r])]
  /\ silent' = IF link = "dead" THEN silent + 1 ELSE silent
  /\ slept' = Counted(slept, [r \in Requests |-> pc[r] = "sleep"], AnswerTime)
  /\ blocked' = Counted(blocked, [r \in Requests |-> pc[r] = "lock"], MaxRetries * SilenceTime)
  /\ outage' = IF (~up \/ link = "dead") /\ outage < LongOutage THEN outage + 1 ELSE outage
  /\ upFor' = IF up /\ rpc = "backoff" THEN upFor + 1 ELSE 0
  /\ UNCHANGED <<up, link, channel, connected, rpc, delay, tries, tear, pc, attempt,
                 copies, written, faults>>

Failures == OutageBegins \/ OutageEnds \/ Notice \/ ChannelFails \/ LeftoverSignal

Next == \/ \E r \in Requests : Handler(r)
        \/ Routine \/ Interrupt \/ TeardownLocks \/ ProcessEnds \/ Failures \/ Tick

Spec == Init /\ [][Next]_vars

\* Goroutines run, time passes and silence is noticed in the end; no request,
\* interrupt or repair has to come.
FairSpec == /\ Spec /\ WF_vars(Routine) /\ WF_vars(TeardownLocks \/ ProcessEnds)
            /\ WF_vars(Tick) /\ WF_vars(silent = SilenceTime /\ Notice)
            /\ \A r \in Requests : WF_vars(pc[r] # "idle" /\ Handler(r))

-----------------------------------------------------------------------------
(* Properties *)

\* The types of the variables.
TypeOK ==
  /\ up \in BOOLEAN /\ connected \in BOOLEAN
  /\ link \in {"none", "ok", "dead", "lost"} /\ channel \in {"none", "ok", "closed"}
  /\ rpc \in RoutineStates /\ tear \in {"no", "cancelled", "closing", "exit"}
  /\ delay \in BaseBackoff..MaxBackoff /\ wait \in 0..MaxBackoff
  /\ tries \in 0..ChannelRetries
  /\ pc \in [Requests -> {"idle", "look", "lock", "read", "write", "stale", "sleep"} \cup Answers]
  /\ attempt \in [Requests -> 0..MaxRetries - 1] /\ sleep \in [Requests -> 0..MaxRetries - 1]
  /\ copies \in [Requests -> 0..1] /\ written \subseteq Requests
  /\ slept \in [Requests -> 0..AnswerTime + 1] /\ silent \in 0..SilenceTime
  /\ blocked \in [Requests -> 0..MaxRetries * SilenceTime + 1]
  /\ outage \in 0..LongOutage /\ upFor \in Nat /\ faults \in 0..MaxFaults + 1

\* publishWithRetry and JobPublish: an event whose POST was answered with an
\* error is in no queue, so that the workload may send it again, and three
\* attempts never make two copies.  (No answer at all promises nothing.)
ErrorMeansNotQueued ==
  \A r \in Requests : copies[r] <= (IF pc[r] \in Answers \ {"accepted", "aborted"} THEN 0 ELSE 1)

\* JobPublish: an event answered with 202 was written to a connection by one
\* of the attempts, whichever channel each of them found.
AcceptedWasWritten == \A r \in Requests : pc[r] = "accepted" => r \in written

\* AMQP_RESILIENCE.md, "Publishing failures: Retry logic": the three attempts
\* outlast the first two delays of amqpConnect, so one outage shorter than
\* the first backoff, or one other failure, fails no publish.  A publish
\* channel that RabbitMQ closed alone is the exception, since nothing opens
\* another.
OneFaultSurvived ==
  [][(\E r \in Requests : pc[r] # "failed" /\ pc'[r] = "failed") =>
       outage >= LongOutage \/ faults > 1 \/ channel = "closed"]_vars

\* amqpConnect caps the backoff: once RabbitMQ is back no publisher waits
\* longer than maxBackoff for the next dial.
RedialsInTime == upFor <= MaxBackoff

\* publishWithRetry sleeps between attempts only, and each attempt waits for
\* connMutex no longer than one connection can be silent, although the reset,
\* Start and Teardown all hold it over calls to RabbitMQ: nobody holds it over
\* a second such call, a dial or a sleep.  (The two together may exceed the
\* WriteTimeout of the server the handler answers through.)
AnswersInTime ==
  \A r \in Requests : slept[r] <= AnswerTime /\ blocked[r] <= (attempt[r] + 1) * SilenceTime

\* Every request that arrived is answered, or its process ends, whatever
\* RabbitMQ does.
RequestsAnswered == \A r \in Requests : pc[r] # "idle" ~> pc[r] \in Answers

\* pkg/cloudevent: an event SendEvent reports as sent, by returning nil, was
\* accepted by AMPS.
SendEventReports == \A r \in Requests : Answered(r) /\ SendEvent(r) = "nil" => pc[r] = "accepted"
=============================================================================
