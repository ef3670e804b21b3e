# A TLA+ verification of AMPS

AMPS is a sidecar between one RabbitMQ queue and one HTTP workload. It consumes
CloudEvents, posts each to the workload, remembers it in a manifest, and acks or
nacks it when the workload reports back or a timeout passes. Workloads publish
through it, and are developed against a stand-in for it, the sdk. This directory
models these parts in TLA+, checks them with TLC and proves the safety properties
with TLAPS.

    tlc -config JobsSafety.cfg MCJobDelivery.tla        # and so for each run below
    tlapm JobDeliveryProofs.tla                         # and so for each *Proofs module

## The system

Sources are in `src/cmd/amps/` unless they begin with `pkg/`.

| Component | Source | State | Operations | Module |
|---|---|---|---|---|
| Message handler, consumer goroutine | `broker/amqp.go` Start, messageHandler | the delivery in hand; one goroutine per session | receive, decode, insert, Trigger, requeue or discard | JobDelivery |
| Job manifest | `job/job.go` | map id -> (created, delivery), an RWMutex; three metrics | HasJob, GetJob, InsertJobWithDelivery, DeleteJob, Size | JobDelivery |
| Acknowledge and reject endpoints | `app/job.go` | none; one goroutine per request | JobAcknowledge, JobReject | JobDelivery |
| Job watchdog | `app/watchdog.go` | a 1 s ticker | nack and delete every job older than JOB_TIMEOUT | JobDelivery |
| Workload trigger | `workload/workload.go` | none | one POST with a timeout | JobDelivery |
| Connection routine | `broker/amqp.go` amqpConnectRoutine, amqpConnect, createChannels | connection, channels, connected, running, fullyInitialized | reset, clean the manifest, dial with backoff, open channels, consume | BrokerConnection; its delays in Publishing |
| Health monitor, reconnection watchdog | `broker/amqp.go` | tickers of 30 s and 60 s | look under the lock, signal after it | BrokerConnection |
| Initialize, Teardown, Stop | `broker/amqp.go` | the context, reconnectChan (20 slots) | start everything, cancel and close | BrokerConnection |
| Application and probes | `app/amps.go` | isReady | Run, `/healthz`, `/readyz`, details | BrokerConnection |
| Publisher | `broker/amqp.go` publishWithRetry, `app/job.go` JobPublish | the attempt of each request | three attempts with 1 s and 2 s between them | Publishing |
| Configuration | `config/config.go` | the configuration | environment parsing | its limits in JobDelivery |
| CloudEvent decoding | `cloudevent/cloudevent.go` | none | Unmarshal | its verdict in JobDelivery |
| Client package cloudevent | `pkg/cloudevent/cloudevent.go` | none | PublishEvent, SendEvent | Publishing |
| Client package sdk | `pkg/sdk/sdk.go` | a consumer loop, a server on a port | consume, publishServer, PublishRabbitmqNextStep, ConsumePublish | ConsumePublish |
| Client package s3 | `pkg/s3/s3.go` | none | upload and download | - |

How they meet:

- The consumer goroutine, the endpoints, the job watchdog and the routine's
  cleanup all change the manifest under its mutex. The lock is *released* between
  DeleteJob and the Ack or Nack in the endpoints and in messageHandler, and held
  over both in the watchdog.
- Everything is keyed by CloudEvent id. Nothing ties a job in the manifest to the
  handler that put it there, or a report of the workload to one execution.
- Close watcher, health monitor, reconnection watchdog, `/healthz` and the routine
  itself send to reconnectChan without blocking; the routine does one full
  reconnection per signal. A signal carries no information about what it is for.
- The routine does not wait for the consumer goroutine of the session it closes:
  old and new handlers run side by side.
- A publish takes a copy of the publish channel under the lock and uses it after;
  the routine may close or replace the channel in between. Its three attempts race
  the routine's backoff.
- RabbitMQ requeues what is unacked when a session ends, and learns of the end
  earlier or later than AMPS does.

What is hard: the order of manifest operations of old and new sessions, late
reports, timeouts against late answers, acks and publishes lost on half-open
connections, restarts that forget the manifest, lost wake-ups of the routine,
retries that race a backoff, and shutdown in the middle of any of it.
`PROJECT.json` lists each such hazard at its line.

What makes each part correct: a job must stand for an unacked delivery; a
delivery must be settled once, by its owner; an ack must follow a completed job; a
discard must be earned; the prefetch window must bound the jobs; every delivery is
settled in the end; a broken connection is always followed by a reconnection;
connections do not pile up; healthy means consuming; shutdown ends everything; a
publish answered with an error is in no queue and may be sent again; an outage
shorter than the backoff costs no publish; the sdk posts in order, once, and loses
nothing without a failure.

## Modules

**`JobDelivery`** is the path of a message. A session is one connection with its
consume channel; both ends' views of it (`srvOpen`, `cliOpen`) are kept apart. A
delivery is its index in `deliv`, so a tag is never used twice and "same message,
other delivery" can be told. `hpc[c]` and `cur[c]` are the consumer goroutine of
session `c` and the delivery in its hands.

| Actions | Code |
|---|---|
| `Deliver`, `ServerDrop`, `ClientDrop`, `Settle` | RabbitMQ and the client library (external), as the code relies on them: prefetch, requeue of unacked on close, 504 on a closed channel, closing on an unknown tag |
| `Reset`, `CleanManifest`, `Connect` | amqpConnectRoutine: close, "remove stale jobs", dial to consume. `Reset` again from "dial" is a failed attempt |
| `Restart` | the process dies and Run starts again |
| `Receive`, `Insert`, `HandlerDiscard`, `WorkloadReceives`, `TriggerOk`, `TriggerFail`, `FailCheck`, `HandlerRequeue`, `Exit` | messageHandler and its goroutine, cut where a lock is taken or a call leaves the process |
| `JobAcknowledge`, `JobReject` (through `TakeJob`), then `HttpSettle` | the endpoints up to the unlock, and the Ack or Nack after it |
| `Age`, `WatchdogTick` | the job watchdog; one tick is one critical section, Nacks included |

`inserted`, `deleted` and `gauge` are the manifest's metrics: an insertion and a
DeleteJob set the gauge from the map's size, the routine's cleanup deletes from the
map directly and leaves gauge and counter as they were. `Window` is MAX_CONCURRENCY
as it goes over the wire, the low 16 bits of any integer, where 0 is no limit.
The workload is free: it may report any message it was ever sent, at any time,
any number of times, with any verdict, or never. It does not report ids it was
never sent.

**`MessageContract`** is what the owner of the queue is promised: a message is
ready, held, acked or dropped; acked only after a completed job of its id; dropped
only if malformed, refused for good, or of an id that was handed out twice.
`JobDelivery` implements it (`ImplementsContract`): ready is the queue, held the
messages of unacked deliveries, and handed and repeated are read off `deliv`.

**`BrokerConnection`** is amqpConnectRoutine step by step (`pc`), with every
goroutine that signals it, Initialize, Teardown and the probes. The gap between
look and signal of the monitors, the snapshot in createChannels, the publication
of channels after a Teardown, the dial that ends after the context did, and the
flags set one by one are all separate steps. Connections are reused once nothing
refers to them, so runs are not limited to a number of reconnections.

**`Publishing`** is the way of an event back into RabbitMQ. What races here are
delays, so time is counted in seconds: `Tick` lets one pass when no goroutine can
run, and every sleep of the code is a timer. A dial takes no time (one that hangs would
add the client library's own timeout to each redial), and neither does a call to RabbitMQ,
unless the connection is half-open: then it waits until the library gives the connection
up (`Notice`, after `SilenceTime` at the latest). Three of these calls are made with
connMutex held, Close in the routine's reset, Consume in Start and what Teardown closes, and
publishWithRetry reads the publish channel under that mutex. So taking it is a step of its
own: `LockHeld` says who has it for writing, a handler at "lock" waits for its release, and
the release lets in all who wait (`Unlocked`), as Go's RWMutex does.

| Actions | Code |
|---|---|
| `Receive`, `Look`, `Snapshot`, `WriteOk`, `WriteFails`, `WakeUp` | JobPublish and PublishMessage, and publishWithRetry from the check of the context and the copy of the channel under the lock to the sleep between attempts |
| `PublishEvent`, `SendEvent` (operators) | what the client package makes of the answer |
| `Wake`, `ResetLocks`, `Reset`, `DialOk`, `DialFail`, `BackoffEnds` | the routine's wait, its reset under connMutex and amqpConnect, with its doubling, capped delay |
| `OpenChannels`, `OpenFails`, `OpenAgain`, `GiveUp` | createChannels, its five attempts and its sleeps |
| `StartLocks`, `StartOk`, `StartFails`, `PauseEnds`, `Quit` | Start, with connMutex held over Consume, the pause after a failure, and the context |
| `Interrupt`, `TeardownLocks`, `ProcessEnds` | Teardown, with connMutex held over its closing, and Run returning under handlers still at work |
| `OutageBegins`, `OutageEnds`, `Notice`, `ChannelFails`, `LeftoverSignal` | RabbitMQ and the network (external): an outage seen at once or only after a half-open phase, a publish channel closed alone, a signal too many |

A Publish that returns an error has not written its frames in full, so that RabbitMQ
has nothing of it; one that returns nil, without confirms and not mandatory, has only
been written. `WriteOk` lets the event reach a queue or not: the connection may be
half-open, and the event's type may name no queue. `slept` and `blocked` count what a
request has spent in its sleeps and at the lock.

**`ConsumePublish`** is the sdk as a process of its own: a consumer with auto-ack and
no prefetch limit that posts one message a second, and a server whose `/publish`
dials a connection per request. Errors are logged and then mostly run into a nil
pointer: in the consumer the panic kills the process (`SetupPanics`), in a handler
net/http recovers it (`PublishPanics`). Which of the messages are no CloudEvent, `malformed`,
is chosen at the start from `MalformedSets`.

| Actions | Code |
|---|---|
| `Dial`, `OpenChannel`, `SetupPanics`, `Consume`, `Receive`, `Post`, `PostAnswered`, `PostFails`, `SleepEnds`, `RangeEnds` | consume and its goroutine |
| `Deliver`, `LinkFails` | RabbitMQ and the library (external): it delivers as long as the consumer is registered, whether the loop still ranges or not |
| `Listen`, `ListenFails`, `PublishHandler`, `DialPublish`, `ChannelPublish`, `PublishPanics`, `PublishNextStep` | publishServer, publishHandler, PublishRabbitmqNextStep |
| `Interrupt`, `Cleanup`, `Return`, `Start` | ConsumePublish, and whoever starts it again |

`MCJobDelivery`, `MCBrokerConnection`, `MCPublishing` and `MCConsumePublish` are the
instances for TLC, the `*Proofs` modules hold the proofs. Operators commented as
mutants (`WakeUpUncounted` and the like) are never used by a specification: each is a
plausible bug in the code the definition next to it models, and at least one property
fails with it in place of that definition. `PROJECT.json` says which.

## Runs

| Run | Checks | Bounds |
|---|---|---|
| `JobsSafety` | `TypeOK`, `ManifestBacked`, `AckedWasCompleted`, `SessionConcurrency`, `GaugeExactWhenBusy`, `DeletedWereInserted`, `NoOverwrite`, `ImplementsContract`, `LeakHasCause`, `DoubleSettleHasCause`, `SelfDropHasCause` | 2 messages, MAX_CONCURRENCY 65537 (prefetch 1), 2 sessions, 4 deliveries; 728k states |
| `JobsSteady` | `NoDoubleSettle`, `NoLeakedDelivery`, `DiscardedWasRefused`, `DeliveriesSettle` | 3 messages, two with one id, one malformed, MAX_CONCURRENCY 65536 (no limit), 1 session, 4 deliveries; 39k states |
| `JobsLost`, `JobsLeaked`, `JobsOverload` | one violated property each | 2 messages, 2 sessions, 3 deliveries |
| `BrokerSafety` | `TypeOK`, `NoLostWakeup`, `OneConnection`, `NoChannelAfterTeardown` | 3 connections, 2 slots, 2 faults, channel faults on; 2.5M states |
| `BrokerRecovery` | `HealthyMeansConsumer`, `Recovers`, `ShutdownCompletes` | 2 connections, 2 slots, 2 faults, channel faults off; 249k states |
| `BrokerChannelLost`, `BrokerNeverReady` | one violated property each | 1 fault |
| `PublishRetries` | `TypeOK`, `ErrorMeansNotQueued`, `AcceptedWasWritten`, `RedialsInTime`, `AnswersInTime`, `OneFaultSurvived`, `RequestsAnswered` | 1 request, 3 attempts, backoff 1 s to 30 s, 2 attempts of createChannels, silence of 3 s, 3 faults; 624k states |
| `SendSwallowed` | one violated property | 2 requests, 1 fault |
| `SdkLoop` | `TypeOK`, `PostedInOrder`, `NoLeakedConnection`, `LossHasCause`, `KeepsUp`, `InterruptEnds` | 4 messages, none or the third malformed, 2 requests, 2 starts, 2 faults; 419k states |

Why the bounds are enough to be interesting. Two sessions are what every race
between a closed session and its successor needs; four deliveries let both
messages be delivered on each, or one message three times. Two messages with
prefetch 1 make the window bind; as MAX_CONCURRENCY is 65537 the run is past the edge of its 16
bits, and `JobsSteady`, with 65536, is at it. `SessionConcurrency` bounds the jobs of a session by
the window, not by MAX_CONCURRENCY itself. The second session is the last of the bound,
so it is not reset, and the last session is dropped only once the client has left
it. Two slots of reconnectChan make it full with two signals, so that dropped
signals occur; the capacity is 20 in the code. Two faults allow a failure during
the recovery from a failure. Ticks of the slow monitors are bounded because they
do nothing else than add signals.

Publishing's delays are the code's own: three attempts, 1 s base and 30 s cap, so
that the cap binds after the fifth failed dial. createChannels has two attempts
instead of five, which keeps "the last one failed" within the three faults; the pause
after it is the code's 2 s. A silence of 3 s stands for the library's 30 s (it asks for
heartbeats of 10 s and reads for three of them): it is longer than the two base delays of
`LongOutage` and than the pause, so that a silent connection outlasts them, and that is all it
is compared with. Requests do not influence one another, so one is
enough for what a request may do, and the invariant of the proofs was also checked with two.
An outage lasts as long as TLC likes: it needs no bound, since all clocks of it are capped.
In `SdkLoop` four messages put two behind the malformed one, none malformed lets the whole
queue be posted, which is what `KeepsUp` promises, and two starts put a crash between any two of them.

Deadlock is not checked: a workload may stay silent, an interrupted process stops, and
a queue that has been worked off is quiet.

`NoDoubleSettle`, `NoLeakedDelivery`, `DiscardedWasRefused` and `ManifestConcurrency` hold
while one session lasts and fail over a reconnection, see Findings. What does survive
reconnections is in `JobsSafety`: among it, as action properties, that only one step can break
each of the first three. `FindsForeign` is a FailCheck that finds another delivery's job under
its id, `FindsStale` a HasJob that meets the job of a session the client has closed; no other step of
any goroutine adds to `Leaked`, `Overdue` or `Mistaken`. `OneFaultSurvived` is stated for one outage shorter
than two base delays or one other failure: more than that fails a publish, as it
should.

## Fairness

`JobDelivery`: each handler step, each pending Ack or Nack, ageing of jobs (only with
JOB_TIMEOUT > 0) and the watchdog's tick are weakly fair: a goroutine that can run
does, workload.Trigger has a client timeout, tickers tick. A session that only
the server still keeps is dropped in the end (missed heartbeats). Nothing obliges the
workload to report, or RabbitMQ to deliver. `DeliveriesSettle` therefore rests on the
watchdog and not on the workload.

`BrokerConnection`: the routine, watchers, consumers, a monitor between look and
signal, Initialize's wait and Teardown's second half are weakly fair. No tick, no
probe, no interrupt has to come, so `Recovers` and `NoLostWakeup` show that the close
watcher and the routine alone suffice. Faults are finitely many by `MaxFaults`, and a
dial that does not fail succeeds.

`Publishing`: the routine, each handler that has a request, Teardown from its lock to the end
of the process, the passing of time and the end of a connection that was silent for
`SilenceTime` are weakly fair: goroutines run, a RWMutex keeps no writer waiting behind
readers that come later, and the library's heartbeats end a silent connection. No request, no interrupt and no repair of
RabbitMQ has to come, so `RequestsAnswered` holds with RabbitMQ away for ever.

`ConsumePublish`: the loop's own steps, RabbitMQ's deliveries to a registered consumer,
CleanupFcn and the return after it are weakly fair. A POST need not be answered, since
http.Post has no timeout, and `KeepsUp` says so.

## Findings

1. `JobsLost` - a message can be lost by one reconnection (`amqp.go:655`). The old
   session's handler has received a delivery; the routine cleans the manifest; the old
   handler inserts its job; the redelivered copy is "already exists" and is nacked
   without requeue. The cleaned jobs "will be redelivered" (`amqp.go:250`), but the
   redelivery is thrown away. This lookup is the only way to it (`SelfDropHasCause`).
2. `JobsLeaked` - a handler of the old session whose Trigger fails deletes the job of
   the redelivered copy, which has the same id, and nacks its own dead delivery
   (`amqp.go:672`). The live delivery is then in no manifest: it cannot be
   acknowledged, does not time out and keeps a slot of the window. The same lookup is the only
   cause of leaks and of second settlements (`LeakHasCause`, `DoubleSettleHasCause`). A
   messageHandler that ends like one without a job when the job found is not of the delivery in
   hand, and that puts its delivery in place of the job of a closed session, has neither this
   defect nor that of finding 1 (`MendsSuffice`, about such a handler and not about the code).
3. `JobsOverload` - the stale job of finding 1 comes on top of the new session's window,
   past "the maximum amount of jobs that can run concurrently" (`config.go:25`).
4. `BrokerChannelLost` - a channel that closes, or a consumer cancelled by the server,
   is never noticed (`amqp.go:427`): Healthy stays true without a consumer.
5. `BrokerNeverReady` - readiness is decided once, after at most 30 s (`amps.go:63`), and
   never again.
6. `SendSwallowed` - SendEvent tests the err that json.Marshal left nil instead of
   PublishEvent's (`pkg/cloudevent/cloudevent.go:55`), so an event AMPS refused is
   reported as sent.

Seen while reading, with no run of their own:

- A leftover signal resets a good connection; `/healthz` answers 503 during a reconnection,
  which `KUBERNETES_HEALTH_CHECKS.md` describes otherwise; the backoff is 2 s to 30 s, not the
  1 s to 60 s of `AMQP_RESILIENCE.md`; a timed-out job is requeued, not "deleted from the
  queue" (`config.go:26`); a connection dialled while Teardown runs is left open.
- `/publish` answers 202 for an event written to a half-open connection or naming no queue:
  without confirms and with mandatory false nobody learns of it, although
  `AMQP_RESILIENCE.md:53` lists "could fail silently" as what was fixed. The "exponential
  backoff retries" of `amqp.go:492` are 1 s and 2 s. A publish channel closed alone is never
  reopened.
- publishWithRetry may sleep 3 s and wait for connMutex three times, each time for as long as a
  half-open connection stays silent (about 30 s): more than the 30 s WriteTimeout of the server it
  answers through (`amps.go:168`). `AnswersInTime` proves the bound and no more. Healthy takes
  the same mutex, so a probe waits there too.
- The sdk: the routing key of PublishRabbitmqNextStep names no queue, so every event is
  dropped and answered with 200; RabbitMQ goes on sending to a consumer whose loop has ended,
  and auto-ack forgets what it sends; response bodies are never closed; handlers share
  one err.
- WORKLOAD_RESPONSE_TIMEOUT=0 means no timeout: one silent call stops the consumer.
- `pkg/s3`: the upload's key is "path/file", the download's path and file run together;
  the compressing goroutine blocks for ever when an upload fails before the pipe is read
  (`s3.go:128`), and the error of the upload can be overwritten (`s3.go:108`).

## Proofs

Every safety property of a passing run is proved, for every value of the constants that the
named assumptions allow and, where the table says so, under one more hypothesis.

| Module | Theorem | Statement |
|---|---|---|
| `JobDeliveryProofs` | `JobsStandForUnacked`, `AcksFollowCompletion`, `SessionsBounded` | `Spec =>` always `ManifestBacked`, `AckedWasCompleted`, `SessionConcurrency` |
| | `NeverOverwritten` | `Spec => NoOverwrite` |
| | `Invariant` | `Spec => []IInv` |
| `JobContractProofs` | `ContractKept` | `Spec => ImplementsContract` |
| | `NothingVanishes` | every message is always in exactly one of queue, unacked, acked and dropped (`Conserved`), and the last two are final |
| `JobMetricsProofs` | `TypeCorrect`, `GaugeExact`, `DeletionsCounted` | always `TypeOK`, `GaugeExactWhenBusy`, `DeletedWereInserted` |
| `JobSteadyProofs` | `SettledOnce`, `NothingLeaks`, `DropsAreEarned` | always `NoDoubleSettle`, `NoLeakedDelivery`, `DiscardedWasRefused`, if `MaxConns = 1` |
| `JobCausesProofs` | `LeaksHaveCause`, `DoubleSettlesHaveCause`, `SelfDropsHaveCause` | `Spec =>` `LeakHasCause`, `DoubleSettleHasCause`, `SelfDropHasCause` |
| | `MendsSuffice` | `MendedSpec =>` always `NoDoubleSettle`, `NoLeakedDelivery`, `DiscardedWasRefused` |
| `BrokerConnectionProofs` | `TypeCorrect`, `WakeupsKept`, `NoPileUp`, `ChannelsEndWithTeardown` | always `TypeOK`, `NoLostWakeup`, `OneConnection`, `NoChannelAfterTeardown` |
| | `HealthyConsumes` | always `HealthyMeansConsumer`, if `~ChannelFaults` |
| `PublishingProofs` | `TypeCorrect`, `ErrorsLeaveNothing`, `AcceptedIsWritten`, `RedialBounded`, `AnswerBounded` | always `TypeOK`, `ErrorMeansNotQueued`, `AcceptedWasWritten`, `RedialsInTime`, `AnswersInTime` |
| | `OneFaultFailsNone` | `OneFaultSurvived`, if `RetriesOutlast` |
| `ConsumePublishProofs` | `TypeCorrect`, `PostsInOrder`, `NoConnectionLeaks`, `LossesHaveCause` | always `TypeOK`, `PostedInOrder`, `NoLeakedConnection`; `LossHasCause` |

Assumed are `MessagesAssumption` and `LimitsAssumption` (the ids are a function of the
messages; MAX_CONCURRENCY is any integer, negative ones and 0 included),
`BoundsAssumption` (at least one connection and one slot), `DelaysAssumption` (positive
attempts, base delay and silence, base at most cap, the pause and createChannels' sleeps within
the cap) and `ConstantsAssumption` of `ConsumePublish`. The bounds on sessions, deliveries,
faults and starts are any numbers.

**JobDelivery.** `ManifestBacked` is not inductive: Insert puts a delivery into the
manifest, so it must have been unacked in the handler's hands, and before that in
the inbox. `Backed` says so of all three (`Waiting` in the proofs). To keep it, an Ack
or Nack must not hit a delivery that still waits, which is `OneOwner`: inbox, handler,
manifest and pending settlements do not share deliveries, except that a handler keeps
the tag of the job it inserted until it has looked the job up. `OneOwner` in turn needs
`HandlerHolds` (handlers of two sessions hold different deliveries) and `KeysMatch` (the
manifest is injective, so deleting by id deletes the one job of that delivery).
`SessionsPast` is why Connect brings no old delivery back to life. `AcksEarned` carries the
workload's report from the unlock to the Ack. With `Prefetch`, the jobs of an open
session are a subset of a set the window bounds, which is `SessionConcurrency`. The lemma
`SettleEffect` says once what Ack and Nack do to every variable; the action proofs cite
it and never open `Settle`.

**The contract.** `ContractKept` adds two invariants to `IInv`. `OnePlace`: a message is in
the queue or in one unacked delivery, so taking a delivery out of unacked takes its message
out of the contract's `held`. `DiscardsEarned`: a delivery about to be nacked without requeue
is malformed, was refused, or found a job of its id, which by `OneOwner` is another delivery,
so that its id is `repeated`. Then `Deliver` is the contract's `Hand`; a dropped session, a
restart, a requeue and a watchdog tick are `Return`; the other settlements are `Ack` or
`Drop`, or `Return` when they break the session; a report is `Report`; all else moves no
message. What the theorem does not say is that a repeated id is another message: finding 1
is a legal `Drop` of the contract, and `DiscardedWasRefused` is the stronger statement that
fails. `NothingVanishes` draws the conclusion: the contract's steps only move messages from place
to place (`ContractConserves`), so the code's do.

**The metrics.** `IInv` keeps the types of a message's path, `PathType`; those of the metrics, the
rest of `TypeOK`, come with `MetricsInv`: only ids with a job age, deletions counted and jobs held do not
exceed insertions, and the gauge is exact or the manifest empty. Its proof is about
cardinalities: `InsertCounts` and `DeleteCounts` say what one insertion, and a tick's
deletions, do to map, counters and gauge; the cleanup only makes the map smaller.

**One session.** With `MaxConns = 1` neither end may drop the session, and what is left that would
close it is a second settlement. So `SoleSession`, that it stays open, and that nothing is settled
twice are proved together. `AllOwned` is an equation: unacked *equals* what inbox, handler, manifest and
pending settlements own; `<=` is that nothing leaks and `>=` that nothing is settled twice.
`OneReport` excludes two pending settlements of one delivery and says that a job the
handler finds after a failed Trigger is its own, which is what fails with two sessions
(finding 2). For `DropsAreEarned`, `DiscardsMeetAnother` says that the job a discarded delivery met
is of another message, by `OnePlace`, which finding 1 violates.

**Many sessions.** `JobCausesProofs` says what is left of the last three properties when sessions
come and go. It adds `OneSession` to the invariants: the client has no session from the
routine's close to its next dial, so a new session opens over none and a delivery of an open
session was one before (`LiveBefore`). Then each way of messageHandler, the endpoints and the
watchdog is followed by itself: a handler that gives up a delivery passes it on to the
manifest or settles it (`OwnersPassOn`), a settlement of an open delivery takes it out of
unacked (`SettleLive`), and what becomes due for a second settlement (`OverdueStep`) or is
dropped unearned (`MistakenShrinks`) was so already, but for the one step that looks a job up by
id and finds another. `OneSession` also makes a job of the client's session and a delivery of it
live together or not at all, so that only the job of a closed session can mistake a message.

`MendsSuffice` turns this round. `MendedSpec` is `Spec` with two steps replaced: where FailCheck
finds the job of another delivery the handler ends and touches neither (`LeavesForeign`), and where
HasJob meets the job of a session the client has closed the delivery takes its place
(`ReplacesStale`). It is a proposal and the only specification here that is not of the code. The
two new steps keep the whole inductive invariant (`LeavingKeeps`, `ReplacingKeeps`) and leave
`Leaked`, `Overdue` and `Mistaken` empty (`LeavingClean`, `ReplacingClean`); of all other steps the
three theorems about causes have said so.

**BrokerConnection.** `NoLostWakeup` needs `Signalled` at each step from the publication of the
channels on, and `Armed`: a connection that works has an armed watcher, so that whoever ends
it leaves "notified" behind. `OpenKnown` says which connection can be open at all, which
gives `OneConnection`; `LocalHeld` relates the routine's copy to what Teardown may have made of
it. `FlagsDown` and `Consumed` say when the three flags of Healthy are raised.
`HealthyConsumes` must assume that channels fail only with their connection, finding 4.
`SignalType` and `BystandersKeep` let the proofs of the many goroutines that only signal be one line.

**Publishing.** The routine's invariant bounds the time waited on a reachable RabbitMQ plus what is
left to sleep, `upFor + wait <= MaxBackoff`, which no tick changes. A request's invariant
says that the time it has slept is at most 1 + 2 + ... + attempt; as that sum is not linear the
proof goes through `Twice(n) == n * (n + 1)` and the two facts `TwiceStep` and `TwiceGrows`.
`LockInv` is the same for connMutex: a handler that waits for it has waited in this attempt for at
most as long as the connection has been silent (`Share`), since whoever holds it waits for that
connection; the release ends the wait of all (`StillWaits`), and the next attempt starts a share of
its own. Requests
are proved one by one (`OneRequest`), and a reset only makes copies stale (`ReplacedKeeps`).

`OneFaultFailsNone` is a race of two clocks. `Paced` is an equation: for a request that has not
been answered, the time it has slept is the sum of the delays of its attempts, so that a request
out of attempts is as old as all of them together, `AnswerTime`. `PhaseInv` follows the other clock through
the one fault: steady, half-open, lost, resetting, dialling while RabbitMQ is away, waiting for
the first backoff to end, opening channels. Each phase bounds how long a request that still waits
can have slept, at most the two base delays that the first backoff takes. `RetriesOutlast` asks
that these are within the cap and shorter than `AnswerTime`; the code's are 2 s, against a cap of
30 s and sleeps of 3 s. With two attempts, which sleep 1 s, the property is false.

**ConsumePublish.** `Order`: what was posted precedes what is in hand, that what is buffered, and
all of it was taken; `Count`: it is no more than was taken. `AppendIncreases` and
`TailIncreases` carry increasing sequences through a queue. `LossStep` compares `Lost` before and
after: a step that ends nothing moves messages between buffer, hand and `posted`.

Each inductive invariant was model-checked on the instance of its run, or a larger one,
before it was proved.

Only model-checked: the liveness properties (`DeliveriesSettle`, `Recovers`,
`ShutdownCompletes`, `RequestsAnswered`, `KeepsUp`, `InterruptEnds`), as TLAPS has no backend for
fairness and ENABLED. The hypotheses of the table are needed: TLC finds counterexamples to
`NoLeakedDelivery` and `DiscardedWasRefused` over a reconnection (Findings), to `NoDoubleSettle`
on the instance of `JobsLeaked.cfg`, where watchdog and handler nack one delivery, to
`HealthyMeansConsumer` with `ChannelFaults = TRUE` in `BrokerRecovery.cfg`, and to
`OneFaultSurvived` with two attempts in `PublishRetries.cfg`.

## Not modelled

- `pkg/s3`: I/O against S3 for workloads; two hazards of its upload are listed. The banner
  and the test server have no state.
- Configuration: how the environment is parsed. Its values are constants of the models, but for
  WORKLOAD_RESPONSE_TIMEOUT, which is assumed positive by the fairness of `JobDelivery`.
- Stop, and InsertJob without a delivery: the program never calls them.
- Teardown in `JobDelivery`: the process exits right after it, which `Restart` covers but for
  the 100 ms in which handlers may still run.
- The lifetime histogram, logs, Sentry, pprof, `/health/detailed`: they report only.
- In the sdk, `/acknowledge` and `/reject`, which log what they read.

## Plan

Done: `MessageContract`, `JobDelivery` with its metrics and limits, `BrokerConnection`, `Publishing`
and `ConsumePublish`, their runs, and proofs of all their safety properties. Left:

1. A composition of `BrokerConnection` with `JobDelivery` in which Reset, CleanManifest and
   Connect are the routine's own steps, shown to implement both, with shutdown under jobs
   in flight.
2. UploadToS3: the compressing goroutine, its pipe and the two errors it shares with the caller.
3. The consumer without a workload timeout (WORKLOAD_RESPONSE_TIMEOUT=0).
