---------------------------- MODULE JobDelivery ----------------------------
(***************************************************************************)
(* The path of a message through AMPS: from the RabbitMQ queue over a      *)
(* consumer session to messageHandler, into the job manifest, to the       *)
(* workload, and back through /acknowledge, /reject or the job watchdog    *)
(* to an ack or a nack.  Sessions come and go: amqpConnectRoutine closes   *)
(* one, cleans the manifest and dials the next while the consumer          *)
(* goroutine of the old session may still be inside messageHandler.        *)
(*                                                                         *)
(* A session is one connection with its consume channel.  The server's     *)
(* and the client's view of it are separate (srvOpen, cliOpen), since each *)
(* side learns late that the other has closed.  A delivery (a session and  *)
(* a delivery tag) is its index in deliv, the sequence of all deliveries.  *)
(***************************************************************************)
EXTENDS Integers, Sequences, FiniteSets

CONSTANTS Messages,        \* the messages published to BROKER_SUBJECT
          Ids,             \* CloudEvent ids, the keys of the manifest
          IdOf,            \* the id each message carries
          Malformed,       \* messages that are no CloudEvent
          MaxConcurrency,  \* MAX_CONCURRENCY, any integer of the environment
          JobTimeout,      \* whether JOB_TIMEOUT > 0
          MaxConns,        \* bound: sessions
          MaxDeliveries    \* bound: deliveries

ASSUME MessagesAssumption == /\ IdOf \in [Messages -> Ids]
                             /\ Malformed \subseteq Messages
ASSUME LimitsAssumption == /\ MaxConcurrency \in Int
                           /\ MaxConns \in Nat \ {0}
                           /\ MaxDeliveries \in Nat \ {0}
                           /\ JobTimeout \in BOOLEAN

\* The prefetch count on the wire, 16 bits; RabbitMQ takes 0 for no limit.
Window == MaxConcurrency % 65536

Conns == 1..MaxConns
Tags == 1..MaxDeliveries
None == 0
HandlerStates == {"off", "idle", "insert", "discard", "trigger", "posted", "fail", "requeue"}
Outcomes == {"ack", "requeue", "discard"}

VARIABLES
  \* RabbitMQ
  queue,      \* messages ready for delivery
  deliv,      \* every delivery made: its message and session
  unacked,    \* deliveries RabbitMQ waits to see settled
  acked, discarded,  \* messages gone from the queue
  srvOpen,    \* sessions the server holds open
  \* AMPS
  cliOpen,    \* sessions the client library holds open
  conn,       \* the latest session
  rpc,        \* amqpConnectRoutine: "up", "clean" or "dial"
  inbox,      \* deliveries in the client library, not yet received
  hpc, cur,   \* the consumer goroutine of each session and its delivery
  jobs,       \* the manifest: id -> delivery
  aged,       \* ids whose job is older than JobTimeout
  inserted, deleted, gauge,  \* amps_messages_inserted_total, _deleted_total, _count
  settling,   \* HTTP handlers between DeleteJob and Ack or Nack
  \* The workload
  started,    \* messages it received
  completed, refused  \* messages whose ack, or reject for good, AMPS took

server == <<queue, deliv, unacked, acked, discarded, srvOpen>>
handler == <<inbox, hpc, cur>>
metrics == <<inserted, deleted, gauge>>
manifest == <<jobs, aged, metrics>>
workload == <<started, completed, refused>>
vars == <<server, cliOpen, conn, rpc, handler, manifest, settling, workload>>

MsgOf(t) == deliv[t].msg
ConnOf(t) == deliv[t].conn
Id(t) == IdOf[MsgOf(t)]
Delivered == 1..Len(deliv)
MsgsOf(S) == {MsgOf(t) : t \in S}
OnConn(S, c) == {t \in S : ConnOf(t) = c}
Size == Cardinality({id \in Ids : jobs[id] # None})

Init ==
  /\ queue = Messages
  /\ deliv = <<>>
  /\ unacked = {} /\ acked = {} /\ discarded = {}
  /\ srvOpen = {} /\ cliOpen = {}
  /\ conn = 0
  /\ rpc = "dial"
  /\ inbox = {}
  /\ hpc = [c \in Conns |-> "off"]
  /\ cur = [c \in Conns |-> None]
  /\ jobs = [id \in Ids |-> None]
  /\ aged = {}
  /\ inserted = 0 /\ deleted = 0 /\ gauge = 0
  /\ settling = {}
  /\ started = {} /\ completed = {} /\ refused = {}

-----------------------------------------------------------------------------
(* RabbitMQ and the network *)

\* basic.deliver within the prefetch window.  On a session the client has
\* given up the delivery is lost on the wire but still counts as unacked.
Deliver(m, c) ==
  /\ m \in queue /\ c \in srvOpen
  /\ Window # 0 => Cardinality(OnConn(unacked, c)) < Window
  /\ Len(deliv) < MaxDeliveries
  /\ queue' = queue \ {m}
  /\ deliv' = Append(deliv, [msg |-> m, conn |-> c])
  /\ unacked' = unacked \cup {Len(deliv')}
  /\ inbox' = IF c \in cliOpen THEN inbox \cup {Len(deliv')} ELSE inbox
  /\ UNCHANGED <<acked, discarded, srvOpen, cliOpen, conn, rpc, hpc, cur,
                 manifest, settling, workload>>

\* The server ends sessions: what was unacked on them is ready again.
CloseAtServer(cs) ==
  LET back == {t \in unacked : ConnOf(t) \in cs}
  IN /\ srvOpen' = srvOpen \ cs
     /\ unacked' = unacked \ back
     /\ queue' = queue \cup MsgsOf(back)
     /\ UNCHANGED <<deliv, acked, discarded>>

\* A close, a lost connection or missed heartbeats, as the server sees it.
\* The last session of the bound is dropped only once the client left it.
ServerDrop(c) ==
  /\ c \in srvOpen
  /\ c < MaxConns \/ c \notin cliOpen
  /\ CloseAtServer({c})
  /\ UNCHANGED <<cliOpen, conn, rpc, handler, manifest, settling, workload>>

\* The client closes sessions: it drops the deliveries it still buffers.
CloseAtClient(cs) ==
  /\ cliOpen' = cliOpen \ cs
  /\ inbox' = {t \in inbox : ConnOf(t) \notin cs}

\* The client library finds the connection dead and shuts its channels.
ClientDrop(c) ==
  /\ c \in cliOpen /\ c < MaxConns
  /\ CloseAtClient({c})
  /\ UNCHANGED <<server, conn, rpc, hpc, cur, manifest, settling, workload>>

\* Delivery.Ack or Delivery.Nack on the deliveries S.  The client refuses it
\* on a session it knows closed and loses it on one only the server closed;
\* the server answers an unknown tag by closing the session.
Settle(S, how) ==
  LET live == {t \in S : ConnOf(t) \in cliOpen /\ ConnOf(t) \in srvOpen}
      ok == live \cap unacked
      broken == {ConnOf(t) : t \in live \ unacked}
      back == {t \in unacked \ ok : ConnOf(t) \in broken}
  IN /\ unacked' = unacked \ (ok \cup back)
     /\ queue' = queue \cup MsgsOf(back) \cup (IF how = "requeue" THEN MsgsOf(ok) ELSE {})
     /\ acked' = acked \cup (IF how = "ack" THEN MsgsOf(ok) ELSE {})
     /\ discarded' = discarded \cup (IF how = "discard" THEN MsgsOf(ok) ELSE {})
     /\ srvOpen' = srvOpen \ broken
     /\ CloseAtClient(broken)
     /\ UNCHANGED deliv

-----------------------------------------------------------------------------
(* amqpConnectRoutine *)

\* A reconnect signal, due or spurious, or the one after a failed attempt to
\* dial, open channels or consume: close channels and connection.
Reset ==
  /\ rpc \in {"up", "dial"} /\ conn < MaxConns
  /\ CloseAtClient({conn})
  /\ rpc' = "clean"
  /\ UNCHANGED <<server, conn, hpc, cur, manifest, settling, workload>>

\* "Remove stale jobs from manifest": every job that carries a delivery, from
\* the map itself and past its metrics.
CleanManifest ==
  /\ rpc = "clean"
  /\ jobs' = [id \in Ids |-> None]
  /\ aged' = {}
  /\ rpc' = "dial"
  /\ UNCHANGED <<server, cliOpen, conn, handler, metrics, settling, workload>>

\* Dial, createChannels and Start succeed: a new session with its consumer.
Connect ==
  /\ rpc = "dial" /\ conn < MaxConns
  /\ conn' = conn + 1
  /\ srvOpen' = srvOpen \cup {conn'}
  /\ cliOpen' = cliOpen \cup {conn'}
  /\ hpc' = [hpc EXCEPT ![conn'] = "idle"]
  /\ rpc' = "up"
  /\ UNCHANGED <<queue, deliv, unacked, acked, discarded, inbox, cur,
                 manifest, settling, workload>>

\* The process dies and is restarted: memory is lost, its sessions end.
\* The workload, a sibling container, keeps what it runs.
Restart ==
  /\ conn \in 1..(MaxConns - 1)
  /\ CloseAtServer(cliOpen)
  /\ CloseAtClient(Conns)
  /\ aged' = {} /\ settling' = {}
  /\ hpc' = [c \in Conns |-> "off"]
  /\ cur' = [c \in Conns |-> None]
  /\ jobs' = [id \in Ids |-> None]
  /\ inserted' = 0 /\ deleted' = 0 /\ gauge' = 0
  /\ rpc' = "dial"
  /\ UNCHANGED <<conn, workload>>

-----------------------------------------------------------------------------
(* messageHandler, run by the consumer goroutine of session c *)

Step(c, from, to) == hpc[c] = from /\ hpc' = [hpc EXCEPT ![c] = to]

\* The goroutine is back at its select.
Back(c, from) == Step(c, from, "idle") /\ cur' = [cur EXCEPT ![c] = None]

\* The select receives the oldest delivery.  Unmarshal decides where it goes.
Receive(c) ==
  \E t \in OnConn(inbox, c) :
    /\ \A u \in OnConn(inbox, c) : t <= u
    /\ Step(c, "idle", IF MsgOf(t) \in Malformed THEN "discard" ELSE "insert")
    /\ cur' = [cur EXCEPT ![c] = t]
    /\ inbox' = inbox \ {t}
    /\ UNCHANGED <<server, cliOpen, conn, rpc, manifest, settling, workload>>

InsertJobWithDelivery(id, t) ==
  /\ jobs' = [jobs EXCEPT ![id] = t]
  /\ inserted' = inserted + 1 /\ gauge' = Size'
  /\ UNCHANGED deleted

\* Mutant: no HasJob check.
InsertUnchecked(c) ==
  /\ Step(c, "insert", "trigger")
  /\ InsertJobWithDelivery(Id(cur[c]), cur[c])
  /\ UNCHANGED <<server, cliOpen, conn, rpc, inbox, cur, aged, settling, workload>>

\* HasJob and InsertJobWithDelivery under the manifest lock; an id already
\* there sends the delivery to Nack(false, false).
Insert(c) ==
  LET id == Id(cur[c])
  IN /\ hpc[c] = "insert"
     /\ \/ /\ jobs[id] # None
           /\ Step(c, "insert", "discard")
           /\ UNCHANGED <<jobs, metrics>>
        \/ /\ jobs[id] = None
           /\ Step(c, "insert", "trigger")
           /\ InsertJobWithDelivery(id, cur[c])
     /\ UNCHANGED <<server, cliOpen, conn, rpc, inbox, cur, aged, settling, workload>>

\* Mutant: a return without the Nack.
HandlerDiscardSilent(c) ==
  /\ Back(c, "discard")
  /\ UNCHANGED <<server, cliOpen, conn, rpc, inbox, manifest, settling, workload>>

\* Nack(false, false) of a malformed or duplicate delivery.
HandlerDiscard(c) ==
  /\ Back(c, "discard")
  /\ Settle({cur[c]}, "discard")
  /\ UNCHANGED <<conn, rpc, manifest, settling, workload>>

\* The POST of workload.Trigger reaches the workload ...
WorkloadReceives(c) ==
  /\ Step(c, "trigger", "posted")
  /\ started' = started \cup {MsgOf(cur[c])}
  /\ UNCHANGED <<server, cliOpen, conn, rpc, inbox, cur, manifest, settling,
                 completed, refused>>

\* ... and is answered, with whatever status code ...
TriggerOk(c) ==
  /\ Back(c, "posted")
  /\ UNCHANGED <<server, cliOpen, conn, rpc, inbox, manifest, settling, workload>>

\* ... or Trigger returns an error, before or after the workload got it.
TriggerFail(c) ==
  /\ Step(c, "trigger", "fail") \/ Step(c, "posted", "fail")
  /\ UNCHANGED <<server, cliOpen, conn, rpc, inbox, cur, manifest, settling, workload>>

\* Mutant: the gauge is set before the job is deleted.
CountDeletedEarly(n) == deleted' = deleted + n /\ gauge' = Size /\ UNCHANGED inserted

\* The metrics after n calls of DeleteJob.
CountDeleted(n) == deleted' = deleted + n /\ gauge' = Size' /\ UNCHANGED inserted

\* Mutant: the job stays.
WithoutKept(id) == /\ UNCHANGED <<jobs, metrics>>
                   /\ aged' = aged \ {id}

\* DeleteJob.
Without(id) == /\ jobs' = [jobs EXCEPT ![id] = None]
               /\ aged' = aged \ {id}
               /\ CountDeleted(1)

\* Mutant: no HasJob check after a failed Trigger.
FailCheckUnchecked(c) ==
  /\ Step(c, "fail", "requeue")
  /\ Without(Id(cur[c]))
  /\ UNCHANGED <<server, cliOpen, conn, rpc, inbox, cur, settling, workload>>

\* Under the manifest lock: a job that is gone ends the handler, one that is
\* there is deleted and the handler goes on to Nack its own delivery.
FailCheck(c) ==
  LET id == Id(cur[c])
  IN /\ hpc[c] = "fail"
     /\ \/ /\ jobs[id] = None
           /\ Back(c, "fail")
           /\ UNCHANGED manifest
        \/ /\ jobs[id] # None
           /\ Step(c, "fail", "requeue")
           /\ Without(id)
           /\ UNCHANGED cur
     /\ UNCHANGED <<server, cliOpen, conn, rpc, inbox, settling, workload>>

HandlerRequeue(c) ==
  /\ Back(c, "requeue")
  /\ Settle({cur[c]}, "requeue")
  /\ UNCHANGED <<conn, rpc, manifest, settling, workload>>

\* The deliveries channel of a closed session is closed: the goroutine returns.
Exit(c) ==
  /\ c \notin cliOpen
  /\ Step(c, "idle", "off")
  /\ UNCHANGED <<server, cliOpen, conn, rpc, inbox, cur, manifest, settling, workload>>

-----------------------------------------------------------------------------
(* HTTP handlers and the job watchdog *)

\* Mutant: no HasJob check before GetJob.
TakeJobUnchecked(m, how) ==
  /\ m \in started
  /\ settling' = settling \cup {[tag |-> jobs[IdOf[m]], how |-> how]}
  /\ Without(IdOf[m])
  /\ UNCHANGED <<server, cliOpen, conn, rpc, handler, started>>

\* JobAcknowledge and JobReject up to the unlock: find the job by id, delete
\* it, keep its delivery to settle.  An unknown id is answered with 400.
TakeJob(m, how) ==
  LET id == IdOf[m]
  IN /\ m \in started
     /\ jobs[id] # None
     /\ settling' = settling \cup {[tag |-> jobs[id], how |-> how]}
     /\ Without(id)
     /\ UNCHANGED <<server, cliOpen, conn, rpc, handler, started>>

\* Mutant: the reschedule flag is ignored.
JobAcknowledgeAlways(m) ==
  /\ TakeJob(m, "ack")
  /\ completed' \in {completed, completed \cup {m}}
  /\ UNCHANGED refused

JobAcknowledge(m) ==
  \/ /\ TakeJob(m, "ack")
     /\ completed' = completed \cup {m}
     /\ UNCHANGED refused
  \/ /\ TakeJob(m, "requeue")
     /\ UNCHANGED <<completed, refused>>

\* Mutant: the reschedule flag is inverted.
JobRejectInverted(m) ==
  \/ TakeJob(m, "requeue") /\ refused' = refused \cup {m} /\ UNCHANGED completed
  \/ TakeJob(m, "discard") /\ UNCHANGED <<completed, refused>>

JobReject(m) ==
  \/ /\ TakeJob(m, "discard")
     /\ refused' = refused \cup {m}
     /\ UNCHANGED completed
  \/ /\ TakeJob(m, "requeue")
     /\ UNCHANGED <<completed, refused>>

\* The Ack or Nack after the unlock.
HttpSettle(s) ==
  /\ s \in settling
  /\ settling' = settling \ {s}
  /\ Settle({s.tag}, s.how)
  /\ UNCHANGED <<conn, rpc, hpc, cur, manifest, workload>>

Age(id) ==
  /\ JobTimeout /\ jobs[id] # None /\ id \notin aged
  /\ aged' = aged \cup {id}
  /\ UNCHANGED <<server, cliOpen, conn, rpc, handler, jobs, metrics, settling, workload>>

\* Mutants: the tick nacks and keeps the jobs, or deletes them and nacks not.
WatchdogTickKeeps ==
  /\ aged # {} /\ aged' = {}
  /\ Settle({jobs[id] : id \in aged}, "requeue")
  /\ UNCHANGED <<conn, rpc, hpc, cur, jobs, metrics, settling, workload>>
WatchdogTickSilent ==
  /\ aged # {} /\ aged' = {}
  /\ jobs' = [id \in Ids |-> IF id \in aged THEN None ELSE jobs[id]]
  /\ CountDeleted(Cardinality(aged))
  /\ UNCHANGED <<server, cliOpen, conn, rpc, handler, settling, workload>>

\* One tick of Watchdog: it holds the manifest lock over every Nack and
\* DeleteJob, so no other step sees a job it has already returned.
WatchdogTick ==
  /\ aged # {}
  /\ Settle({jobs[id] : id \in aged}, "requeue")
  /\ jobs' = [id \in Ids |-> IF id \in aged THEN None ELSE jobs[id]]
  /\ aged' = {}
  /\ CountDeleted(Cardinality(aged))
  /\ UNCHANGED <<conn, rpc, hpc, cur, settling, workload>>

-----------------------------------------------------------------------------
Network == \E c \in Conns :
             ServerDrop(c) \/ ClientDrop(c) \/ \E m \in Messages : Deliver(m, c)
Routine == Reset \/ CleanManifest \/ Connect \/ Restart
Handler(c) ==
  \/ Receive(c) \/ Insert(c) \/ HandlerDiscard(c) \/ WorkloadReceives(c)
  \/ TriggerOk(c) \/ TriggerFail(c) \/ FailCheck(c) \/ HandlerRequeue(c) \/ Exit(c)
Http == \/ \E m \in Messages : JobAcknowledge(m) \/ JobReject(m)
        \/ \E s \in settling : HttpSettle(s)
JobWatchdog == WatchdogTick \/ \E id \in Ids : Age(id)

Next == Network \/ Routine \/ (\E c \in Conns : Handler(c)) \/ Http \/ JobWatchdog

Spec == Init /\ [][Next]_vars

\* Goroutines that can run do run, workload.Trigger returns (its client has
\* a timeout), time passes and a session only one side keeps is dropped in
\* the end.  Neither the workload nor RabbitMQ is obliged to do anything.
Fairness ==
  /\ \A c \in Conns : WF_vars(Handler(c))
  /\ \A t \in Tags, how \in Outcomes : WF_vars(HttpSettle([tag |-> t, how |-> how]))
  /\ \A id \in Ids : WF_vars(Age(id))
  /\ WF_vars(WatchdogTick)
  /\ \A c \in Conns : WF_vars(c \notin cliOpen /\ ServerDrop(c))

FairSpec == Spec /\ Fairness

-----------------------------------------------------------------------------
(* Properties *)

\* The types of what a message's path is made of.
PathType ==
  /\ queue \subseteq Messages
  /\ deliv \in Seq([msg : Messages, conn : Conns])
  /\ Len(deliv) <= MaxDeliveries
  /\ unacked \subseteq Delivered /\ inbox \subseteq Delivered
  /\ acked \subseteq Messages /\ discarded \subseteq Messages
  /\ srvOpen \subseteq Conns /\ cliOpen \subseteq Conns
  /\ conn \in 0..MaxConns
  /\ rpc \in {"up", "clean", "dial"}
  /\ hpc \in [Conns -> HandlerStates]
  /\ cur \in [Conns -> Delivered \cup {None}]
  /\ jobs \in [Ids -> Delivered \cup {None}]
  /\ aged \subseteq Ids
  /\ settling \subseteq [tag : Delivered, how : Outcomes]
  /\ started \subseteq Messages /\ completed \subseteq Messages /\ refused \subseteq Messages

\* The types of all variables, the manifest's metrics among them, in every
\* step of messageHandler, the endpoints, the watchdog and the routine.
TypeOK == PathType /\ {inserted, deleted, gauge} \subseteq Nat

Live(t) == ConnOf(t) \in cliOpen /\ ConnOf(t) \in srvOpen
JobTags == {jobs[id] : id \in Ids} \ {None}
SettlingTags == {s.tag : s \in settling}
InHand(states) == {cur[c] : c \in {k \in Conns : hpc[k] \in states}}

\* messageHandler, JobAcknowledge, JobReject and Watchdog: a job whose
\* session is still open stands for a message RabbitMQ still waits for, so
\* removing the job is what settles the message, and nothing else did.
ManifestBacked == \A t \in JobTags : Live(t) => t \in unacked

\* JobAcknowledge: RabbitMQ drops a message as done only after the workload
\* acknowledged a job with its id, over all reconnections, redeliveries and
\* late reports of earlier executions.
AckedWasCompleted ==
  \A m \in acked : \E k \in completed : IdOf[k] = IdOf[m]

\* createChannels sets the prefetch count to MAX_CONCURRENCY: the jobs held
\* for one open session never exceed what is left of it in 16 bits, unless
\* that is 0, whatever the reconnections left behind.
SessionConcurrency ==
  Window # 0 => \A c \in srvOpen \cap cliOpen : Cardinality(OnConn(JobTags, c)) <= Window

\* config.go on MAX_CONCURRENCY, "the maximum amount of jobs that can run
\* concurrently": the whole manifest stays within it.
ManifestConcurrency == Cardinality(JobTags) <= MaxConcurrency

\* messageHandler checks HasJob and inserts under one lock: a job leaves the
\* manifest before another takes its id, so no delivery is ever lost by
\* being overwritten.
NoOverwrite ==
  [][\A id \in Ids : jobs[id] # None => jobs'[id] \in {jobs[id], None}]_vars

\* Watchdog and DeleteJob: every settlement that reaches RabbitMQ is for a
\* delivery still unsettled.  A second one closes the channel (406), and
\* AMPS does not notice that its consumer is gone.
NoDoubleSettle ==
  \A t \in JobTags \cup SettlingTags \cup InHand({"discard", "requeue"}) :
    Live(t) => t \in unacked

\* messageHandler, "On error, NACKs and reschedules the job": a delivery
\* AMPS has not settled is somewhere it will be settled from.  One that is
\* nowhere stays unacked for the life of the session and costs a slot of
\* the prefetch window.
NoLeakedDelivery ==
  \A t \in unacked : Live(t) =>
    \/ t \in inbox \cup JobTags \cup SettlingTags
    \/ t \in InHand({"insert", "discard", "requeue"})

\* The message shares its id with another message that was delivered.
SharesId(m) == \E t \in Delivered : MsgOf(t) # m /\ Id(t) = IdOf[m]

\* amqp.go:250, "cleaned up ... stale jobs from manifest - they will be
\* redelivered": a message is dropped only if it is no CloudEvent, the
\* workload refused it for good or another message bears its id; it is never
\* taken for a duplicate of itself.
DiscardedWasRefused ==
  \A m \in discarded :
    m \in Malformed \/ (\E k \in refused : IdOf[k] = IdOf[m]) \/ SharesId(m)

\* What the two lookups by id can meet after a reconnection: FailCheck the job
\* of another delivery, HasJob that of a session the client has closed.
FindsForeign(c) == FailCheck(c) /\ jobs[Id(cur[c])] \notin {None, cur[c]}
FindsStale(c) ==
  Insert(c) /\ jobs[Id(cur[c])] # None /\ ConnOf(jobs[Id(cur[c])]) \notin cliOpen

\* messageHandler, "On error, NACKs and reschedules the job": over any number
\* of reconnections and restarts, a delivery of an open session is lost from
\* sight only by a FailCheck that takes the job of another delivery.
Leaked ==
  {t \in unacked : Live(t) /\ t \notin inbox \cup JobTags \cup SettlingTags
                                       \cup InHand({"insert", "discard", "requeue"})}
LeakHasCause == [][Leaked' \subseteq Leaked \/ \E c \in Conns : FindsForeign(c)]_vars

\* JobAcknowledge, JobReject, Watchdog and messageHandler: nothing else makes
\* a delivery due for two settlements, or for one it has had.
Overdue ==
  LET nacking == InHand({"discard", "requeue"})
  IN {t \in Delivered : Live(t) /\
        \/ t \notin unacked /\ t \in JobTags \cup SettlingTags \cup nacking
        \/ t \in nacking /\ t \in JobTags \cup SettlingTags
        \/ \E s, u \in settling : s # u /\ s.tag = t /\ u.tag = t}
DoubleSettleHasCause == [][Overdue' \subseteq Overdue \/ \E c \in Conns : FindsForeign(c)]_vars

\* amqp.go:655, "already exists": a message is dropped, or due to be, as a
\* duplicate of itself only once HasJob has met the job of a closed session.
Unearned(m) ==
  m \notin Malformed /\ ~SharesId(m) /\ \A k \in refused : IdOf[k] # IdOf[m]
Mistaken ==
  {m \in Messages : Unearned(m) /\
     (m \in discarded \/ \E c \in Conns : hpc[c] = "discard" /\ Live(cur[c]) /\ MsgOf(cur[c]) = m)}
SelfDropHasCause == [][Mistaken' \subseteq Mistaken \/ \E c \in Conns : FindsStale(c)]_vars

\* InsertJobWithDelivery, DeleteJob: after a cleanup amps_messages_count goes
\* on showing the jobs that are gone, but never once a job is there again.
GaugeExactWhenBusy == Size > 0 => gauge = Size

\* DeleteJob counts whatever it is given: its callers look first, so that
\* amps_messages_deleted_total, even with the jobs still held, never
\* overtakes amps_messages_inserted_total.
DeletedWereInserted == deleted + Size <= inserted

\* The promise to the owner of the queue, over reconnections and restarts: a
\* message is in one place, acked only after a completed job, and dropped
\* only when malformed, refused, or when its id was delivered before.
Handed == {Id(t) : t \in Delivered}
Repeated == {Id(t) : t \in {u \in Delivered : \E v \in 1..(u - 1) : Id(v) = Id(u)}}
Contract == INSTANCE MessageContract WITH
  ready <- queue, held <- MsgsOf(unacked), dropped <- discarded,
  handed <- Handed, repeated <- Repeated
ImplementsContract == Contract!Spec

\* Trigger's timeout, FailCheck and Watchdog together: every delivery of a
\* session that lasts is settled in the end, though the workload may stay
\* silent for ever.
DeliveriesSettle == \A t \in Tags : t \in unacked ~> t \notin unacked

-----------------------------------------------------------------------------
(* The inductive invariant of the safety proofs *)

Busy == HandlerStates \ {"off", "idle"}
\* A delivery in hand, and the session that made it.
HandlerHolds == \A c \in Conns : hpc[c] \in Busy => cur[c] # None /\ ConnOf(cur[c]) = c
\* The manifest's keys are the ids of its deliveries.
KeysMatch == \A id \in Ids : jobs[id] # None => Id(jobs[id]) = id
\* Sessions are numbered in the order they are made.
SessionsPast == /\ srvOpen \cup cliOpen \subseteq 1..conn
                /\ \A t \in Delivered : ConnOf(t) <= conn
\* A delivery has one owner, but for a job in the hands of its handler.
OneOwner ==
  /\ \A t \in inbox : /\ \A id \in Ids : jobs[id] # t
                      /\ \A s \in settling : s.tag # t
                      /\ \A c \in Conns : hpc[c] \in Busy => cur[c] # t
  /\ \A s \in settling, id \in Ids : jobs[id] # s.tag
  /\ \A c \in Conns : hpc[c] \in {"insert", "discard"} => \A s \in settling : s.tag # cur[c]
  /\ \A c \in Conns : hpc[c] \in {"insert", "discard", "requeue"} => \A id \in Ids : jobs[id] # cur[c]
\* What waits for its first settlement is unacked.
Backed ==
  /\ \A t \in inbox : Live(t) => t \in unacked
  /\ \A id \in Ids : jobs[id] # None /\ Live(jobs[id]) => jobs[id] \in unacked
  /\ \A c \in Conns : hpc[c] \in {"insert", "discard"} /\ Live(cur[c]) => cur[c] \in unacked
\* A pending ack is of a job the workload completed.
AcksEarned == \A s \in settling : s.how = "ack" => \E k \in completed : IdOf[k] = Id(s.tag)
\* The prefetch window.
Prefetch == Window # 0 => \A c \in Conns : Cardinality(OnConn(unacked, c)) <= Window

IInv == /\ PathType /\ HandlerHolds /\ KeysMatch /\ SessionsPast
        /\ OneOwner /\ Backed /\ AcksEarned /\ AckedWasCompleted /\ Prefetch
=============================================================================
