--------------------------- MODULE ConsumePublish ---------------------------
(***************************************************************************)
(* pkg/sdk: the stand-in for AMPS that a workload is developed against.    *)
(* One process consumes a queue with auto-ack and posts each message to    *)
(* the workload, one a second (consume), serves /publish on a connection   *)
(* per request (publishServer), and leaves on an interrupt once the        *)
(* caller's CleanupFcn has run (ConsumePublish).  Errors are logged and    *)
(* mostly not acted upon: some make a nil pointer panic later, which kills *)
(* the process in the consumer and one request in the server.              *)
(*                                                                         *)
(* The queue holds the messages 1..N in this order.  With auto-ack and no  *)
(* prefetch limit RabbitMQ forgets a message as it sends it, so `taken`    *)
(* says what the queue still holds.                                        *)
(***************************************************************************)
EXTENDS Integers, Sequences, SequencesExt

CONSTANTS N,           \* messages in the queue
          MalformedSets, \* which of them may be no CloudEvents
          Requests,    \* POSTs to /publish
          MaxRuns,     \* bound: times the process is started
          MaxFaults    \* bound: failures

ASSUME ConstantsAssumption == /\ N \in Nat /\ MalformedSets \subseteq SUBSET (1..N)
                              /\ MaxRuns \in Nat \ {0} /\ MaxFaults \in Nat

VARIABLES
  process,   \* "up", "cleanup" (interrupted), "returning" or "down"
  runs,      \* times it was started
  serving,   \* publishServer listens
  link,      \* consume's connection: "none", "ok", "dead" (half-open), "lost"
  loop,      \* consume and its goroutine
  buffer,    \* deliveries in the client library, not yet received
  cur,       \* the message in hand
  malformed, \* messages that are no CloudEvent, the same throughout
  taken,     \* messages RabbitMQ has sent
  posted,    \* messages the workload has received, in order
  pub,       \* each /publish handler, or how it ended
  pconns,    \* requests whose handler holds a connection
  faults

consumer == <<link, loop, buffer, cur>>
publisher == <<pub, pconns>>
vars == <<process, runs, serving, consumer, malformed, taken, posted, publisher, faults>>

None == 0
Over == {"ended", "stuck"}   \* the loop has returned, or ranges over a nil channel
Registered == {"range", "post", "answer", "sleep", "ended"}
Working == {"dial", "channel", "publish"}
Alive == process # "down"
Fault == faults < MaxFaults /\ faults' = faults + 1

Init ==
  /\ process = "up" /\ runs = 1 /\ serving = FALSE
  /\ link = "none" /\ loop = "dial" /\ buffer = <<>> /\ cur = None
  /\ malformed \in MalformedSets /\ taken = 0 /\ posted = <<>>
  /\ pub = [r \in Requests |-> "idle"] /\ pconns = {}
  /\ faults = 0

\* The process ends: what it had in hand is gone, its connections close.
Die ==
  /\ process' = "down" /\ serving' = FALSE
  /\ link' = "none" /\ loop' = "dial" /\ buffer' = <<>> /\ cur' = None
  /\ pub' = [r \in Requests |-> IF pub[r] \in Working THEN "aborted" ELSE pub[r]]
  /\ pconns' = {}
  /\ UNCHANGED <<runs, malformed, taken, posted>>

-----------------------------------------------------------------------------
(* consume *)

Go(from, to) == Alive /\ loop = from /\ loop' = to
OnlyConsumer == UNCHANGED <<process, runs, serving, malformed, publisher>>

Dial ==
  /\ Go("dial", "channel")
  /\ link' = "ok"
  /\ OnlyConsumer /\ UNCHANGED <<buffer, cur, taken, posted, faults>>

OpenChannel ==
  /\ Go("channel", "declare") /\ link = "ok"
  /\ OnlyConsumer /\ UNCHANGED <<link, buffer, cur, taken, posted, faults>>

\* A failed Dial or Channel is logged; the next call is on a nil pointer.
SetupPanics ==
  /\ Alive
  /\ \/ loop = "dial" /\ Fault
     \/ loop = "channel" /\ link = "lost" /\ UNCHANGED faults
     \/ loop = "channel" /\ link = "ok" /\ Fault
  /\ Die

\* QueueDeclare and Consume; after an error the goroutine ranges over nil.
Consume ==
  /\ \/ Go("declare", "range") /\ link = "ok" /\ UNCHANGED faults
     \/ Go("declare", "stuck") /\ link = "lost" /\ UNCHANGED faults
     \/ Go("declare", "stuck") /\ link = "ok" /\ Fault
  /\ OnlyConsumer /\ UNCHANGED <<link, buffer, cur, taken, posted>>

\* Mutant: no auto-ack, a window of one and never an ack.
DeliverUnacked ==
  /\ Alive /\ loop \in Registered /\ link = "ok" /\ taken = 0 /\ taken < N
  /\ taken' = taken + 1 /\ buffer' = Append(buffer, taken')
  /\ OnlyConsumer /\ UNCHANGED <<link, loop, cur, posted, faults>>

\* RabbitMQ sends the next message, whether the goroutine still ranges or
\* not; one sent on a half-open connection is lost.
Deliver ==
  /\ Alive /\ loop \in Registered /\ link \in {"ok", "dead"} /\ taken < N
  /\ taken' = taken + 1
  /\ buffer' = IF link = "ok" THEN Append(buffer, taken') ELSE buffer
  /\ OnlyConsumer /\ UNCHANGED <<link, loop, cur, posted, faults>>

\* Mutant: a malformed message is skipped.
ReceiveSkips ==
  /\ buffer # <<>>
  /\ Go("range", IF Head(buffer) \in malformed THEN "range" ELSE "post")
  /\ cur' = Head(buffer) /\ buffer' = Tail(buffer)
  /\ OnlyConsumer /\ UNCHANGED <<link, taken, posted, faults>>

\* The loop takes a message; one that is no CloudEvent ends it.
Receive ==
  /\ buffer # <<>>
  /\ Go("range", IF Head(buffer) \in malformed THEN "ended" ELSE "post")
  /\ cur' = Head(buffer) /\ buffer' = Tail(buffer)
  /\ OnlyConsumer /\ UNCHANGED <<link, taken, posted, faults>>

\* http.Post, with no timeout: the workload receives the message ...
Post ==
  /\ Go("post", "answer")
  /\ posted' = Append(posted, cur)
  /\ OnlyConsumer /\ UNCHANGED <<link, buffer, cur, taken, faults>>

\* ... and answers; a status other than 200 is logged.
PostAnswered ==
  /\ Go("answer", "sleep")
  /\ OnlyConsumer /\ UNCHANGED <<link, buffer, cur, taken, posted, faults>>

\* Mutant: the message is posted again.
PostFailsRetries ==
  /\ Go("post", "post") \/ Go("answer", "post")
  /\ Fault
  /\ OnlyConsumer /\ UNCHANGED <<link, buffer, cur, taken, posted>>

\* An error, before or after the workload has the message, ends the loop.
PostFails ==
  /\ Go("post", "ended") \/ Go("answer", "ended")
  /\ Fault
  /\ OnlyConsumer /\ UNCHANGED <<link, buffer, cur, taken, posted>>

SleepEnds ==
  /\ Go("sleep", "range")
  /\ cur' = None
  /\ OnlyConsumer /\ UNCHANGED <<link, buffer, taken, posted, faults>>

\* The library closes the channel of a lost connection: the loop is over.
RangeEnds ==
  /\ Go("range", "ended") /\ link = "lost"
  /\ OnlyConsumer /\ UNCHANGED <<link, buffer, cur, taken, posted, faults>>

\* The connection fails; once the library knows, it drops its buffer.
LinkFails ==
  /\ \/ link = "ok" /\ link' = "dead" /\ Fault /\ UNCHANGED buffer
     \/ link = "ok" /\ link' = "lost" /\ Fault /\ buffer' = <<>>
     \/ link = "dead" /\ link' = "lost" /\ UNCHANGED faults /\ buffer' = <<>>
  /\ OnlyConsumer /\ UNCHANGED <<loop, cur, taken, posted>>

Loop == \/ Dial \/ OpenChannel \/ SetupPanics \/ Consume \/ Receive \/ Post
        \/ PostAnswered \/ PostFails \/ SleepEnds \/ RangeEnds
-----------------------------------------------------------------------------
(* publishServer *)

OnlyPublisher == UNCHANGED <<process, runs, serving, consumer, malformed, taken, posted>>
Step(r, from, to) == Alive /\ pub[r] = from /\ pub' = [pub EXCEPT ![r] = to]

Listen ==
  /\ Alive /\ ~serving /\ serving' = TRUE
  /\ UNCHANGED <<process, runs, consumer, malformed, taken, posted, publisher, faults>>

\* log.Fatalf when the port is taken.
ListenFails == Alive /\ ~serving /\ Fault /\ Die

\* A body that is no CloudEvent is answered with 200 like any other.
PublishHandler(r) ==
  /\ serving
  /\ Step(r, "idle", "dial") \/ Step(r, "idle", "answered")
  /\ OnlyPublisher /\ UNCHANGED <<pconns, faults>>

DialPublish(r) ==
  /\ Step(r, "dial", "channel")
  /\ pconns' = pconns \cup {r}
  /\ OnlyPublisher /\ UNCHANGED faults

ChannelPublish(r) ==
  /\ Step(r, "channel", "publish")
  /\ OnlyPublisher /\ UNCHANGED <<pconns, faults>>

\* Mutant: conn.Close is not deferred.
PublishPanicsOpen(r) ==
  /\ Step(r, "dial", "aborted") \/ Step(r, "channel", "aborted")
  /\ Fault
  /\ OnlyPublisher /\ UNCHANGED pconns

\* After a failed Dial or Channel the nil pointer panics: the deferred Close
\* runs, net/http recovers, and the client gets no answer.
PublishPanics(r) ==
  /\ Step(r, "dial", "aborted") \/ Step(r, "channel", "aborted")
  /\ Fault
  /\ pconns' = pconns \ {r}
  /\ OnlyPublisher

\* The routing key is the name of a queue never declared: the default
\* exchange drops the event, and the answer is 200 even after an error.
PublishNextStep(r) ==
  /\ Step(r, "publish", "answered")
  /\ pconns' = pconns \ {r}
  /\ OnlyPublisher /\ UNCHANGED faults

Publish(r) == \/ PublishHandler(r) \/ DialPublish(r) \/ ChannelPublish(r)
              \/ PublishPanics(r) \/ PublishNextStep(r)
-----------------------------------------------------------------------------
(* ConsumePublish *)

OnlyProcess == UNCHANGED <<runs, serving, consumer, malformed, taken, posted, publisher, faults>>

Interrupt == process = "up" /\ process' = "cleanup" /\ OnlyProcess

\* Mutant: an error of CleanupFcn leaves the process waiting.
CleanupStops == /\ process = "cleanup" /\ process' \in {"returning", "up"}
                /\ OnlyProcess

\* CleanupFcn, if any, has run; its error is logged.
Cleanup == process = "cleanup" /\ process' = "returning" /\ OnlyProcess

\* ConsumePublish returns, and with it the program it is the body of.
Return == process = "returning" /\ Die /\ UNCHANGED faults

\* Started again by whoever runs it.
Start ==
  /\ process = "down" /\ runs < MaxRuns
  /\ process' = "up" /\ runs' = runs + 1
  /\ UNCHANGED <<serving, consumer, malformed, taken, posted, publisher, faults>>

Next == \/ Loop \/ Deliver \/ LinkFails \/ Listen \/ ListenFails
        \/ (\E r \in Requests : Publish(r))
        \/ Interrupt \/ Cleanup \/ Return \/ Start

Spec == Init /\ [][Next]_vars

\* Goroutines run, RabbitMQ delivers and CleanupFcn returns.  The workload
\* need not answer, since http.Post waits for ever.
FairSpec == /\ Spec
            /\ WF_vars(loop \notin {"post", "answer"} /\ Loop) /\ WF_vars(Deliver)
            /\ WF_vars(Cleanup) /\ WF_vars(Return)

-----------------------------------------------------------------------------
(* Properties *)

InHand == IF loop = "post" THEN {cur} ELSE {}
Held == ToSet(buffer) \cup InHand
Lost == (1..taken) \ (ToSet(posted) \cup Held)

\* The types of the variables; what was received was sent.
TypeOK ==
  /\ process \in {"up", "cleanup", "returning", "down"}
  /\ runs \in 1..MaxRuns /\ faults \in 0..MaxFaults /\ serving \in BOOLEAN
  /\ link \in {"none", "ok", "dead", "lost"}
  /\ loop \in {"dial", "channel", "declare"} \cup Registered \cup Over
  /\ cur \in 0..N /\ taken \in 0..N /\ malformed \subseteq 1..N
  /\ buffer \in Seq(1..N) /\ posted \in Seq(1..N)
  /\ Len(posted) + Len(buffer) <= taken
  /\ pub \in [Requests -> {"idle", "answered", "aborted"} \cup Working]
  /\ pconns \subseteq Requests

\* consume, with auto-ack, one goroutine and a return on every error: the
\* workload gets each message at most once and in the order of the queue,
\* over lost connections, failed POSTs and restarts.
Increasing(s) == \A i, j \in 1..Len(s) : i < j => s[i] < s[j]
PostedInOrder == Increasing(posted)

\* consume: while its loop runs on a connection that works no message is
\* lost; it takes a failure that ends loop, connection or process.
LossHasCause ==
  [][Lost' \subseteq Lost \/ link' # "ok" \/ loop' = "ended" \/ process' = "down"]_vars

\* PublishRabbitmqNextStep: the connection of a request never outlives its
\* handler, though every error in it ends in a panic.
NoLeakedConnection == \A r \in pconns : pub[r] \in {"channel", "publish"}

\* consume posts the whole queue, unless something ends it (a malformed
\* message, a failure or an interrupt) or a POST hangs.
KeepsUp == \/ <>(loop \in Over \/ link \in {"dead", "lost"} \/ process # "up")
           \/ <>[](loop \in {"post", "answer"})
           \/ <>(Len(posted) = N)

\* ConsumePublish: an interrupt ends the process in the end, whatever state
\* its goroutines are in and whether CleanupFcn succeeds or not.
InterruptEnds == process = "cleanup" ~> process = "down"

-----------------------------------------------------------------------------
(* The inductive invariant of the safety proofs *)

\* What was posted precedes what is in hand, and that what is buffered.
Order ==
  /\ Increasing(posted) /\ Increasing(buffer)
  /\ \A x \in ToSet(posted) \cup Held : x <= taken
  /\ \A x \in ToSet(posted), y \in Held : x < y
  /\ \A x \in InHand, y \in ToSet(buffer) : x < y
\* Each message that was sent is counted once.
Count ==
  /\ Len(posted) + Len(buffer) + (IF loop = "post" THEN 1 ELSE 0) <= taken
  /\ loop = "post" => cur # None

IInv == TypeOK /\ Order /\ Count
=============================================================================
