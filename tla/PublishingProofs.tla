-------------------------- MODULE PublishingProofs --------------------------
(* Proofs of the safety properties of Publishing for all its delays. *)
EXTENDS Publishing, TLAPS

-----------------------------------------------------------------------------
(* The inductive invariant: the routine, and each request for itself *)

\* Twice the sum of 1..n: the sleeps of publishWithRetry grow by a second.
Twice(n) == n * (n + 1)

\* What the waits of n attempts for connMutex add up to at most.
Share(n) == n * SilenceTime

RoutineType ==
  /\ up \in BOOLEAN /\ connected \in BOOLEAN
  /\ link \in {"none", "ok", "dead", "lost"} /\ channel \in {"none", "ok", "closed"}
  /\ rpc \in RoutineStates /\ tear \in {"no", "cancelled", "closing", "exit"}
  /\ delay \in BaseBackoff..MaxBackoff /\ wait \in 0..MaxBackoff
  /\ tries \in 0..ChannelRetries /\ silent \in 0..SilenceTime
  /\ outage \in 0..LongOutage /\ upFor \in Nat /\ faults \in 0..MaxFaults + 1

\* createChannels has an attempt left, and a sleep of amqpConnect that
\* outlasts the outage does not outlast maxBackoff.
RoutineInv ==
  /\ RoutineType
  /\ rpc = "channels" => tries < ChannelRetries
  /\ upFor <= MaxBackoff
  /\ rpc = "backoff" => upFor + wait <= MaxBackoff
  /\ ~up => upFor = 0

RequestStates == {"idle", "look", "lock", "read", "write", "stale", "sleep"} \cup Answers

RequestsType ==
  /\ pc \in [Requests -> RequestStates]
  /\ attempt \in [Requests -> 0..MaxRetries - 1] /\ sleep \in [Requests -> 0..MaxRetries - 1]
  /\ copies \in [Requests -> 0..1] /\ written \subseteq Requests
  /\ slept \in [Requests -> Nat] /\ blocked \in [Requests -> Nat]

\* Only an accepted event may be in a queue, and it was written; the sleeps
\* so far are those of the attempts so far, and none follows the last; each
\* attempt adds its share to the waits.
RequestInv(r) ==
  /\ copies[r] > 0 => pc[r] = "accepted"
  /\ pc[r] = "accepted" => r \in written
  /\ pc[r] = "idle" => attempt[r] = 0 /\ slept[r] = 0 /\ blocked[r] = 0
  /\ pc[r] \in {"look", "lock", "read", "write", "stale"} => 2 * slept[r] <= Twice(attempt[r])
  /\ pc[r] = "sleep" => /\ attempt[r] + 1 < MaxRetries
                        /\ 2 * (slept[r] + sleep[r]) <= Twice(attempt[r] + 1)
  /\ 2 * slept[r] <= Twice(MaxRetries - 1)
  /\ pc[r] = "look" => blocked[r] <= Share(attempt[r])
  /\ blocked[r] <= Share(attempt[r] + 1)

RequestsInv == RequestsType /\ \A r \in Requests : RequestInv(r)

\* Who holds connMutex waits for one connection, and lets the handlers in
\* before there can be another.
Silence == IF ~LockHeld \/ link \in {"none", "ok"} THEN 0
           ELSE IF link = "dead" THEN silent ELSE SilenceTime
LockInv == \A r \in Requests : pc[r] = "lock" => blocked[r] <= Share(attempt[r]) + Silence

IInv == RoutineInv /\ RequestsInv /\ LockInv

-----------------------------------------------------------------------------
(* Sums of sleeps *)

LEMMA TwiceType == \A n \in Nat : Twice(n) \in Nat
  BY DEF Twice

LEMMA TwiceStep == \A n \in Nat : Twice(n + 1) = Twice(n) + 2 * (n + 1)
  BY DEF Twice

LEMMA TwiceGrows == ASSUME NEW m \in Nat, NEW n \in Nat, m <= n PROVE Twice(m) <= Twice(n)
  <1>1. m * m <= n * n
    <2>1. m * m <= m * n /\ m * n <= n * n
      OBVIOUS
    <2> QED
      BY <2>1
  <1> QED
    BY <1>1 DEF Twice

LEMMA ShareStep == \A n \in Nat : Share(n) \in Nat /\ Share(n + 1) = Share(n) + SilenceTime
  BY DelaysAssumption DEF Share

-----------------------------------------------------------------------------
(* publishWithRetry *)

\* The handler of one request changes nothing of another.
LEMMA OneRequest ==
  ASSUME RequestsInv, NEW r \in Requests, RequestsType', RequestInv(r)',
         \A q \in Requests \ {r} :
           /\ pc'[q] = pc[q] /\ attempt'[q] = attempt[q] /\ sleep'[q] = sleep[q]
           /\ copies'[q] = copies[q] /\ slept'[q] = slept[q] /\ blocked'[q] = blocked[q]
           /\ q \in written => q \in written'
  PROVE  RequestsInv'
  <1> SUFFICES ASSUME NEW q \in Requests, q # r PROVE RequestInv(q)'
    BY DEF RequestsInv
  <1> QED
    BY DEF RequestsInv, RequestInv

\* A failed attempt is followed by a sleep that is one second longer than
\* the last, or by an error.
LEMMA AttemptFailedKeeps ==
  ASSUME RequestsInv, NEW r \in Requests, pc[r] \in {"lock", "read", "write", "stale"},
         AttemptFailed(r), UNCHANGED <<attempt, copies, written, slept, blocked>>
  PROVE  RequestsInv'
  <1>1. /\ attempt[r] \in Nat /\ slept[r] \in Nat /\ attempt[r] <= MaxRetries - 1
        /\ MaxRetries \in Nat \ {0}
    BY DelaysAssumption DEF RequestsInv, RequestsType
  <1>2. RequestsType'
    BY <1>1 DEF AttemptFailed, RequestsInv, RequestsType, RequestStates, Answers
  <1>3. pc'[r] = (IF attempt[r] = MaxRetries - 1 THEN "failed" ELSE "sleep")
        /\ sleep'[r] = (IF attempt[r] = MaxRetries - 1 THEN 0 ELSE attempt[r] + 1)
    BY DEF AttemptFailed, RequestsInv, RequestsType
  <1>4. Twice(attempt[r] + 1) = Twice(attempt[r]) + 2 * (attempt[r] + 1) /\ Twice(attempt[r]) \in Nat
    BY <1>1, TwiceStep, TwiceType
  <1>5. 2 * slept[r] <= Twice(attempt[r])
    BY DEF RequestsInv, RequestInv
  <1>6. 2 * (slept[r] + (attempt[r] + 1)) <= Twice(attempt[r] + 1)
    BY <1>1, <1>4, <1>5
  <1>7. RequestInv(r)'
    BY <1>1, <1>3, <1>6 DEF RequestsInv, RequestInv
  <1> QED
    BY <1>2, <1>7, OneRequest DEF AttemptFailed, RequestsInv, RequestsType

\* Receive, Look, Snapshot, WriteOk, WriteFails and WakeUp of one request.
LEMMA HandlerKeeps == ASSUME RequestsInv, NEW r \in Requests, Handler(r) PROVE RequestsInv'
  <1>1. /\ attempt[r] \in 0..MaxRetries - 1 /\ slept[r] \in Nat /\ MaxRetries \in Nat \ {0}
        /\ copies[r] \in 0..1 /\ RequestInv(r) /\ RequestsType /\ blocked[r] \in Nat
    BY DelaysAssumption DEF RequestsInv, RequestsType
  <1>2. CASE Receive(r)
    <2>1. RequestsType'
      BY <1>1, <1>2 DEF Receive, RequestsType, RequestStates, Answers
    <2>2. 0 <= Share(attempt[r])
      BY <1>1, ShareStep
    <2>3. RequestInv(r)'
      BY <1>1, <1>2, <2>2, TwiceType DEF Receive, RequestsType, RequestInv, Answers
    <2> QED
      BY <1>2, <2>1, <2>3, OneRequest DEF Receive, RequestsInv, RequestsType
  <1>3. CASE (Snapshot(r) /\ AttemptFailed(r)) \/ WriteFails(r)
    BY <1>3, AttemptFailedKeeps DEF Snapshot, WriteFails
  <1>4. CASE Look(r) \/ (Snapshot(r) /\ ~AttemptFailed(r))
    <2>1. UNCHANGED <<sleep, attempt, copies, written, slept, blocked>>
          /\ pc[r] \in {"look", "lock", "read"}
          /\ \E next \in {"refused", "lock", "write"} : pc' = [pc EXCEPT ![r] = next]
      BY <1>4 DEF Look, Snapshot
    <2>2. RequestsType' /\ RequestInv(r)'
      BY <1>1, <2>1 DEF RequestsType, RequestInv, RequestStates, Answers
    <2> QED
      BY <2>1, <2>2, OneRequest DEF RequestsInv, RequestsType
  <1>5. CASE WriteOk(r)
    <2>1. copies[r] = 0
      BY <1>1, <1>5 DEF WriteOk, RequestInv
    <2>2. RequestsType' /\ RequestInv(r)'
      BY <1>1, <1>5, <2>1 DEF WriteOk, RequestsType, RequestInv, RequestStates, Answers
    <2> QED
      BY <1>5, <2>2, OneRequest DEF WriteOk, RequestsInv, RequestsType
  <1>6. CASE WakeUp(r)
    <2>1. RequestsType'
      BY <1>1, <1>6 DEF WakeUp, RequestsType, RequestInv, RequestStates
    <2>2. 2 * slept[r] <= Twice(attempt[r] + 1) /\ pc'[r] = "look" /\ attempt'[r] = attempt[r] + 1
      BY <1>1, <1>6 DEF WakeUp, RequestsType, RequestInv
    <2>3. Share(attempt[r] + 1) \in Nat /\ Share(attempt[r] + 1 + 1) = Share(attempt[r] + 1) + SilenceTime
      BY <1>1, ShareStep
    <2>4. blocked[r] <= Share(attempt[r] + 1) /\ blocked[r] <= Share(attempt[r] + 1 + 1)
      BY <1>1, <2>3, DelaysAssumption DEF RequestInv
    <2>5. RequestInv(r)'
      BY <1>1, <1>6, <2>2, <2>4 DEF WakeUp, RequestInv
    <2> QED
      BY <1>6, <2>1, <2>5, OneRequest DEF WakeUp, RequestsInv, RequestsType
  <1> QED
    BY <1>2, <1>3, <1>4, <1>5, <1>6 DEF Handler

\* CloseAll makes copies of the channel stale, its end and Start's let in the
\* handlers that wait; the end of the process aborts the handlers at work.
LEMMA ReplacedKeeps ==
  ASSUME RequestsInv, UNCHANGED <<attempt, sleep, copies, written, slept, blocked>>,
         \/ pc' = Unlocked(pc)
         \/ pc' = [r \in Requests |-> IF pc[r] = "write" THEN "stale" ELSE Unlocked(pc)[r]]
         \/ pc' = [r \in Requests |-> IF pc[r] \in Answers \cup {"idle"} THEN pc[r] ELSE "aborted"]
  PROVE  RequestsInv'
  <1>1. RequestsType'
    BY DEF RequestsInv, RequestsType, RequestStates, Answers, Unlocked
  <1>2. ASSUME NEW r \in Requests PROVE RequestInv(r)'
    BY DEF RequestsInv, RequestsType, RequestInv, Answers, Unlocked
  <1> QED
    BY <1>1, <1>2 DEF RequestsInv

\* A second passes for who sleeps or waits for connMutex, and only there.
LEMMA TickCounts ==
  ASSUME RequestsType, Tick, NEW r \in Requests
  PROVE  /\ sleep'[r] = (IF sleep[r] > 0 THEN sleep[r] - 1 ELSE 0)
         /\ pc[r] # "sleep" => slept'[r] = slept[r]
         /\ slept'[r] \in {slept[r], slept[r] + 1}
         /\ pc[r] = "sleep" => sleep[r] > 0
         /\ pc[r] = "sleep" /\ slept[r] <= AnswerTime => slept'[r] = slept[r] + 1
         /\ pc[r] # "lock" => blocked'[r] = blocked[r]
         /\ blocked'[r] \in {blocked[r], blocked[r] + 1}
         /\ pc[r] = "lock" => LockHeld /\ link = "dead"
         /\ pc[r] \in Answers \cup {"idle", "sleep", "lock"}
  <1>1. /\ slept' = Counted(slept, [q \in Requests |-> pc[q] = "sleep"], AnswerTime)
        /\ blocked' = Counted(blocked, [q \in Requests |-> pc[q] = "lock"], MaxRetries * SilenceTime)
        /\ sleep' = [q \in Requests |-> Less(sleep[q])] /\ Idle
    BY DEF Tick
  <1>2. \A n, m : Counted(n, [q \in Requests |-> pc[q] = "sleep"], m)[r]
                  = (IF pc[r] = "sleep" /\ n[r] <= m THEN n[r] + 1 ELSE n[r])
    BY DEF Counted
  <1>3. \A n, m : Counted(n, [q \in Requests |-> pc[q] = "lock"], m)[r]
                  = (IF pc[r] = "lock" /\ n[r] <= m THEN n[r] + 1 ELSE n[r])
    BY DEF Counted
  <1>4. /\ slept'[r] = (IF pc[r] = "sleep" /\ slept[r] <= AnswerTime THEN slept[r] + 1 ELSE slept[r])
        /\ blocked'[r] = (IF pc[r] = "lock" /\ blocked[r] <= MaxRetries * SilenceTime
                          THEN blocked[r] + 1 ELSE blocked[r])
        /\ sleep'[r] = Less(sleep[r])
    BY <1>1, <1>2, <1>3
  <1>5. /\ pc[r] = "sleep" => sleep[r] > 0
        /\ pc[r] = "lock" => LockHeld /\ link = "dead"
        /\ pc[r] \in Answers \cup {"idle", "sleep", "lock"}
    BY <1>1 DEF Idle, LockHeld, Answers
  <1> QED
    BY <1>4, <1>5 DEF Less

LEMMA TickRequests == ASSUME RoutineInv, RequestsInv, LockInv, Tick PROVE RequestsInv'
  <1>1. /\ UNCHANGED <<pc, attempt, copies, written>> /\ RequestsType /\ MaxRetries \in Nat \ {0}
        /\ silent \in Nat /\ (link = "dead" => silent < SilenceTime) /\ SilenceTime \in Nat
    BY DelaysAssumption DEF Tick, Idle, RequestsInv, RoutineInv, RoutineType
  <1>2. \A r \in Requests :
          /\ sleep'[r] = (IF sleep[r] > 0 THEN sleep[r] - 1 ELSE 0)
          /\ pc[r] # "sleep" => slept'[r] = slept[r]
          /\ slept'[r] \in {slept[r], slept[r] + 1}
          /\ pc[r] = "sleep" => sleep[r] > 0
          /\ pc[r] # "lock" => blocked'[r] = blocked[r]
          /\ blocked'[r] \in {blocked[r], blocked[r] + 1}
          /\ pc[r] = "lock" => LockHeld /\ link = "dead"
          /\ pc[r] # "look"
    BY <1>1, TickCounts DEF Answers
  <1>3. sleep' \in [Requests -> 0..MaxRetries - 1]
    BY <1>1 DEF Tick, Less, RequestsType
  <1>4. slept' \in [Requests -> Nat] /\ blocked' \in [Requests -> Nat]
    BY <1>1 DEF Tick, Counted, RequestsType
  <1>5. RequestsType'
    BY <1>1, <1>3, <1>4 DEF RequestsType
  <1>8. ASSUME NEW r \in Requests PROVE blocked'[r] <= Share(attempt[r] + 1)
    <2>1. /\ blocked[r] \in Nat /\ attempt[r] \in Nat /\ Share(attempt[r]) \in Nat
          /\ Share(attempt[r] + 1) = Share(attempt[r]) + SilenceTime
          /\ blocked[r] <= Share(attempt[r] + 1)
      BY <1>1, ShareStep DEF RequestsType, RequestsInv, RequestInv
    <2>2. CASE pc[r] = "lock"
      <3>1. blocked[r] <= Share(attempt[r]) + silent
        BY <1>2, <2>2 DEF LockInv, Silence
      <3>2. silent + 1 <= SilenceTime
        BY <1>1, <1>2, <2>2
      <3> QED
        BY <1>1, <1>2, <2>1, <3>1, <3>2
    <2> QED
      BY <1>2, <2>1, <2>2
  <1>6. ASSUME NEW r \in Requests PROVE RequestInv(r)'
    <2>1. /\ RequestInv(r) /\ attempt[r] \in Nat /\ sleep[r] \in Nat /\ slept[r] \in Nat
          /\ attempt[r] + 1 \in Nat /\ MaxRetries - 1 \in Nat
      BY <1>1 DEF RequestsInv, RequestsType
    <2>2. CASE pc[r] # "sleep"
      BY <1>1, <1>2, <1>8, <2>1, <2>2 DEF RequestInv
    <2>3. CASE pc[r] = "sleep"
      <3>1. sleep'[r] = sleep[r] - 1 /\ slept'[r] \in {slept[r], slept[r] + 1}
        BY <1>2, <2>3
      <3>2. attempt[r] + 1 < MaxRetries /\ 2 * (slept[r] + sleep[r]) <= Twice(attempt[r] + 1)
        BY <2>1, <2>3 DEF RequestInv
      <3>3. 2 * (slept'[r] + sleep'[r]) <= Twice(attempt[r] + 1) /\ 2 * slept'[r] <= Twice(attempt[r] + 1)
        BY <1>2, <2>1, <2>3, <3>1, <3>2, TwiceType
      <3>4. Twice(attempt[r] + 1) <= Twice(MaxRetries - 1)
        BY <1>1, <2>1, <3>2, TwiceGrows
      <3>5. Twice(attempt[r] + 1) \in Nat /\ Twice(MaxRetries - 1) \in Nat
        BY <2>1, TwiceType
      <3>6. 2 * slept'[r] <= Twice(MaxRetries - 1)
        BY <2>1, <3>1, <3>3, <3>4, <3>5
      <3>7. copies[r] > 0 => pc[r] = "accepted"
        BY <2>1 DEF RequestInv
      <3> QED
        BY <1>1, <1>8, <2>3, <3>2, <3>3, <3>6, <3>7 DEF RequestInv
    <2> QED
      BY <2>2, <2>3
  <1> QED
    BY <1>5, <1>6 DEF RequestsInv

-----------------------------------------------------------------------------
(* amqpConnectRoutine, failures and time *)

\* A connection that is replaced or given up is silent no more.
LEMMA SilentType == ASSUME RoutineInv, silent' \in {0, silent} PROVE silent' \in 0..SilenceTime
  BY DelaysAssumption DEF RoutineInv, RoutineType

\* createChannels: a failed attempt is counted, and the next is made only
\* while fewer than ChannelRetries have failed.
LEMMA ChannelsKeep ==
  ASSUME RoutineInv, OpenChannels \/ OpenFails \/ OpenAgain \/ GiveUp \/ StartLocks \/ StartOk \/ StartFails
  PROVE  RoutineInv'
  <1> USE DEF OpenChannels, OpenFails, OpenAgain, GiveUp, StartLocks, StartOk, StartFails, Go,
     history
  <1>1. tries' \in 0..ChannelRetries /\ wait' \in 0..MaxBackoff /\ faults' \in 0..MaxFaults + 1
    BY DelaysAssumption DEF Fault, RoutineInv, RoutineType
  <1>2. UNCHANGED <<up, link, silent, tear, delay, outage, upFor>>
    BY DEF broker
  <1>3. connected' \in BOOLEAN /\ channel' \in {"none", "ok", "closed"}
    BY DEF RoutineInv, RoutineType, broker
  <1>4. rpc' \in RoutineStates /\ rpc' # "backoff" /\ (rpc' = "channels" => tries' < ChannelRetries)
    BY DelaysAssumption DEF RoutineInv, RoutineType, RoutineStates
  <1>5. RoutineType'
    BY <1>1, <1>2, <1>3, <1>4 DEF RoutineInv, RoutineType
  <1> QED
    BY <1>2, <1>4, <1>5 DEF RoutineInv

\* The reset and the dial loop of amqpConnect: a backoff starts while
\* RabbitMQ is out.
LEMMA DialsKeep ==
  ASSUME RoutineInv,
         Wake \/ ResetLocks \/ Reset \/ DialOk \/ DialFail \/ BackoffEnds \/ PauseEnds \/ Quit \/ LeftoverSignal
  PROVE  RoutineInv'
  <1> USE DEF Wake, ResetLocks, Reset, CloseAll, DialOk, DialFail, BackoffEnds, PauseEnds, Quit,
     LeftoverSignal, Go, history
  <1>1. /\ delay' \in BaseBackoff..MaxBackoff /\ wait' \in 0..MaxBackoff
        /\ tries' \in 0..ChannelRetries /\ upFor' \in {0, upFor} /\ faults' \in 0..MaxFaults + 1
    BY DelaysAssumption DEF Fault, RoutineInv, RoutineType
  <1>2. UNCHANGED <<up, tear, outage>>
    OBVIOUS
  <1>3. connected' \in BOOLEAN /\ channel' \in {"none", "ok", "closed"} /\ link' \in {"none", "ok", "dead", "lost"}
    BY DEF RoutineInv, RoutineType, broker
  <1>4. rpc' \in RoutineStates /\ (rpc' = "channels" => tries' < ChannelRetries)
    BY DelaysAssumption DEF RoutineInv, RoutineType, RoutineStates
  <1>5. rpc' = "backoff" => upFor' = 0
    BY DEF RoutineInv
  <1>6. RoutineType'
    <2>1. silent' \in {0, silent}
      BY DEF broker
    <2> QED
      BY <1>1, <1>2, <1>3, <1>4, <2>1, SilentType DEF RoutineInv, RoutineType
  <1>7. MaxBackoff \in Nat /\ upFor' <= MaxBackoff
    BY <1>1, DelaysAssumption DEF RoutineInv
  <1>8. rpc' = "backoff" => upFor' + wait' <= MaxBackoff
    <2>1. \A m, w \in Nat : w <= m => 0 + w <= m
      OBVIOUS
    <2>2. wait' \in Nat /\ wait' <= MaxBackoff
      BY <1>1, <1>7
    <2> QED
      BY <1>5, <1>7, <2>1, <2>2
  <1>9. ~up' => upFor' = 0
    BY <1>1, <1>2 DEF RoutineInv
  <1> QED
    BY <1>4, <1>6, <1>7, <1>8, <1>9 DEF RoutineInv

\* Outages, other failures and the shutdown.
LEMMA FailuresKeep ==
  ASSUME RoutineInv,
         OutageBegins \/ OutageEnds \/ Notice \/ ChannelFails \/ Interrupt \/ TeardownLocks \/ ProcessEnds
  PROVE  RoutineInv'
  <1> USE DEF OutageBegins, OutageEnds, Notice, ChannelFails, Interrupt, TeardownLocks, ProcessEnds,
     routine, history
  <1>1. /\ UNCHANGED <<delay, tries, outage>> /\ faults' \in 0..MaxFaults + 1 /\ upFor' \in {0, upFor}
        /\ (UNCHANGED <<rpc, wait>> \/ (rpc' = "exit" /\ wait' = 0))
    BY DelaysAssumption DEF Fault, RoutineInv, RoutineType
  <1>2. /\ up' \in BOOLEAN /\ connected' \in BOOLEAN /\ tear' \in {"no", "cancelled", "closing", "exit"}
        /\ channel' \in {"none", "ok", "closed"} /\ link' \in {"none", "ok", "dead", "lost"}
    BY DEF broker, RoutineInv, RoutineType
  <1>3. ~up' => upFor' = 0
    BY DEF RoutineInv
  <1>4. RoutineType'
    <2>1. silent' \in {0, silent}
      BY DEF broker
    <2> QED
      BY <1>1, <1>2, <2>1, SilentType, DelaysAssumption DEF RoutineInv, RoutineType, RoutineStates
  <1>5. upFor' <= MaxBackoff /\ (rpc' = "backoff" => upFor' + wait' <= MaxBackoff)
    <2>1. upFor \in Nat /\ wait \in Nat /\ MaxBackoff \in Nat
      BY DelaysAssumption DEF RoutineInv, RoutineType
    <2> QED
      BY <1>1, <2>1 DEF RoutineInv
  <1>6. rpc' = "channels" => tries' < ChannelRetries
    BY <1>1 DEF RoutineInv
  <1> QED
    BY <1>3, <1>4, <1>5, <1>6 DEF RoutineInv

\* A second passes: the sleep gets shorter as upFor gets longer.
LEMMA TickRoutine == ASSUME RoutineInv, Tick PROVE RoutineInv'
  <1>1. /\ UNCHANGED <<up, link, channel, connected, rpc, delay, tries, tear, faults>>
        /\ wait' = (IF wait > 0 THEN wait - 1 ELSE 0)
        /\ upFor' = (IF up /\ rpc = "backoff" THEN upFor + 1 ELSE 0)
        /\ rpc = "backoff" => wait > 0
    BY DEF Tick, Less, Idle, broker
  <1>2. outage' \in 0..LongOutage /\ silent' \in 0..SilenceTime
    BY DelaysAssumption DEF Tick, Idle, RoutineInv, RoutineType, LongOutage
  <1>3. RoutineType'
    BY <1>1, <1>2, DelaysAssumption DEF RoutineInv, RoutineType
  <1>4. /\ upFor' <= MaxBackoff
        /\ rpc = "backoff" => upFor' + wait' <= MaxBackoff
    BY <1>1, DelaysAssumption DEF RoutineInv, RoutineType
  <1>5. rpc' = "channels" => tries' < ChannelRetries
    BY <1>1 DEF RoutineInv
  <1>6. ~up' => upFor' = 0
    BY <1>1
  <1> QED
    BY <1>1, <1>3, <1>4, <1>5, <1>6 DEF RoutineInv

-----------------------------------------------------------------------------
(* connMutex *)

\* Who waits for the lock still waits for the same hold of it.
LEMMA StillWaits ==
  ASSUME LockInv, RequestsType, RoutineType, Silence' \in Nat, Silence <= Silence',
         \A r \in Requests : pc'[r] = "lock" =>
           /\ pc[r] = "lock" /\ attempt'[r] = attempt[r] /\ blocked'[r] = blocked[r]
  PROVE  LockInv'
  <1> SUFFICES ASSUME NEW r \in Requests, pc'[r] = "lock"
               PROVE  blocked'[r] <= Share(attempt[r]) + Silence' /\ attempt'[r] = attempt[r]
    BY DEF LockInv, Share
  <1>1. blocked[r] \in Nat /\ Share(attempt[r]) \in Nat /\ Silence \in Nat
    BY ShareStep, DelaysAssumption DEF RequestsType, Silence, RoutineType
  <1> QED
    BY <1>1 DEF LockInv

\* Neither the lock nor the connection under it changes hands unnoticed.
LEMMA LockKeeps ==
  ASSUME IInv, [Next]_vars, RoutineType' PROVE LockInv'
  <1>0. /\ LockInv /\ RequestsType /\ RoutineType /\ Silence \in Nat /\ Silence' \in Nat
        /\ silent \in 0..SilenceTime /\ SilenceTime \in Nat
    <2>1. RoutineType /\ RequestsType /\ LockInv
      BY DEF IInv, RoutineInv, RequestsInv
    <2>2. Silence \in Nat /\ Silence' \in Nat
      BY <2>1, DelaysAssumption DEF Silence, RoutineType
    <2> QED
      BY <2>1, <2>2, DelaysAssumption DEF RoutineType
  <1>1. CASE \E r \in Requests : Handler(r)
    <2> PICK r \in Requests : Handler(r)
      BY <1>1
    <2>1. UNCHANGED <<link, silent, rpc, tear>> /\ \A q \in Requests \ {r} :
            pc'[q] = pc[q] /\ attempt'[q] = attempt[q] /\ blocked'[q] = blocked[q]
      BY <1>0 DEF Handler, Receive, Look, Snapshot, WriteOk, WriteFails, WakeUp, AttemptFailed,
         RequestsType, broker, routine
    <2>2. Silence' = Silence
      BY <2>1 DEF Silence, LockHeld
    <2>3. CASE Look(r)
      <3>1. attempt'[r] = attempt[r] /\ blocked'[r] = blocked[r] /\ blocked[r] <= Share(attempt[r])
        BY <2>3 DEF Look, IInv, RequestsInv, RequestInv
      <3>2. blocked[r] \in Nat /\ Share(attempt[r]) \in Nat
        BY <1>0, ShareStep DEF RequestsType
      <3>3. blocked'[r] <= Share(attempt'[r]) + Silence'
        BY <1>0, <3>1, <3>2 DEF Share
      <3> QED
        BY <1>0, <2>1, <2>2, <3>3 DEF LockInv, Share
    <2>4. CASE ~Look(r)
      <3>1. pc'[r] # "lock"
        BY <1>0, <2>4 DEF Handler, Receive, Snapshot, WriteOk, WriteFails, WakeUp, AttemptFailed,
           RequestsType
      <3> QED
        BY <1>0, <2>1, <2>2, <3>1, StillWaits
    <2> QED
      BY <2>3, <2>4
  <1>2. CASE Reset \/ StartOk \/ StartFails \/ ProcessEnds
    <2>1. \A r \in Requests : pc'[r] # "lock"
      BY <1>0, <1>2 DEF Reset, CloseAll, StartOk, StartFails, ProcessEnds, Unlocked, Answers
    <2> QED
      BY <2>1 DEF LockInv
  <1>3. CASE \/ ResetLocks \/ StartLocks \/ TeardownLocks \/ DialOk
    <2>1. Silence = 0 /\ UNCHANGED requests
      BY <1>3 DEF ResetLocks, StartLocks, TeardownLocks, DialOk, WriteLock, Silence, LockHeld, Go,
         Cancelled
    <2> QED
      BY <1>0, <2>1, StillWaits DEF requests
  <1>4. CASE \/ Wake \/ DialFail \/ BackoffEnds \/ OpenChannels \/ OpenFails \/ OpenAgain \/ GiveUp
             \/ PauseEnds \/ Quit \/ LeftoverSignal \/ Interrupt
    <2>1. /\ LockHeld' = LockHeld /\ UNCHANGED <<link, silent>> /\ UNCHANGED requests
      BY <1>4 DEF Wake, DialFail, BackoffEnds, OpenChannels, OpenFails, OpenAgain, GiveUp,
         PauseEnds, Quit, LeftoverSignal, Interrupt, LockHeld, Go, broker, routine
    <2>2. Silence' = Silence
      BY <2>1 DEF Silence
    <2> QED
      BY <1>0, <2>1, <2>2, StillWaits DEF requests
  <1>5. CASE OutageBegins \/ OutageEnds \/ Notice \/ ChannelFails
    <2>1. LockHeld' = LockHeld /\ UNCHANGED requests
      BY <1>5 DEF OutageBegins, OutageEnds, Notice, ChannelFails, LockHeld, routine
    <2>2. link \in {"none", "ok"} \/ (UNCHANGED link /\ UNCHANGED silent) \/ (link = "dead" /\ link' = "lost")
      BY <1>5 DEF OutageBegins, OutageEnds, Notice, ChannelFails, broker
    <2>3. Silence <= Silence'
      <3>1. CASE link \in {"none", "ok"}
        BY <1>0, <3>1 DEF Silence
      <3>2. CASE UNCHANGED link /\ UNCHANGED silent
        <4>1. Silence' = Silence
          BY <2>1, <3>2 DEF Silence
        <4> QED
          BY <1>0, <4>1
      <3>3. CASE link = "dead" /\ link' = "lost"
        BY <1>0, <2>1, <3>3 DEF Silence
      <3> QED
        BY <2>2, <3>1, <3>2, <3>3
    <2> QED
      BY <1>0, <2>1, <2>3, StillWaits DEF requests
  <1>6. CASE Tick
    <2> SUFFICES ASSUME NEW r \in Requests, pc[r] = "lock"
                 PROVE  blocked'[r] <= Share(attempt[r]) + Silence'
      BY <1>6 DEF Tick, LockInv, Share
    <2>1. LockHeld /\ link = "dead" /\ blocked'[r] \in {blocked[r], blocked[r] + 1}
      BY <1>0, <1>6, TickCounts
    <2>2. Silence = silent /\ Silence' = silent + 1
      BY <1>6, <2>1 DEF Tick, Silence, LockHeld
    <2>3. blocked[r] \in Nat /\ Share(attempt[r]) \in Nat
      BY <1>0, ShareStep DEF RequestsType
    <2>4. blocked[r] <= Share(attempt[r]) + silent
      BY <2>2, <1>0 DEF LockInv
    <2> QED
      BY <1>0, <2>1, <2>2, <2>3, <2>4
  <1>7. CASE UNCHANGED vars
    BY <1>0, <1>7, StillWaits DEF vars, broker, routine, requests, Silence, LockHeld
  <1> QED
    BY <1>1, <1>2, <1>3, <1>4, <1>5, <1>6, <1>7 DEF Next, Routine, Failures

-----------------------------------------------------------------------------
(* The theorems *)

\* A process starts with no event sent and no delay run down.
LEMMA InductiveInit == Init => IInv
  <1> SUFFICES ASSUME Init PROVE IInv
    OBVIOUS
  <1>1. RoutineInv
    <2>1. delay \in BaseBackoff..MaxBackoff /\ tries \in 0..ChannelRetries /\ wait \in 0..MaxBackoff
      BY DelaysAssumption DEF Init
    <2>2. outage \in 0..LongOutage /\ upFor \in Nat /\ upFor <= MaxBackoff /\ faults \in 0..MaxFaults + 1
          /\ silent \in 0..SilenceTime
      BY DelaysAssumption DEF Init, LongOutage
    <2>3. /\ up \in BOOLEAN /\ connected \in BOOLEAN /\ link \in {"none", "ok"} /\ channel \in {"none", "ok"}
          /\ rpc \in {"dial", "select"} /\ tear = "no" /\ upFor = 0
      BY DEF Init
    <2> QED
      BY <2>1, <2>2, <2>3 DEF RoutineInv, RoutineType, RoutineStates
  <1>2. RequestsType
    BY DelaysAssumption DEF Init, RequestsType, RequestStates
  <1>3. Twice(0) = 0 /\ Twice(MaxRetries - 1) \in Nat /\ Share(0) = 0 /\ Share(1) \in Nat
    BY TwiceType, ShareStep, DelaysAssumption DEF Twice, Share
  <1>4. ASSUME NEW r \in Requests PROVE RequestInv(r)
    BY <1>3 DEF Init, RequestInv
  <1>5. LockInv
    BY DEF Init, LockInv
  <1> QED
    BY <1>1, <1>2, <1>4, <1>5 DEF IInv, RequestsInv

\* Handlers leave the routine alone, and the routine the handlers, but for
\* the channel it closes under them and the lock it lets them have.
LEMMA InductiveStep == IInv /\ [Next]_vars => IInv'
  <1> SUFFICES ASSUME RoutineInv, RequestsInv, LockInv, [Next]_vars
               PROVE  RoutineInv' /\ RequestsInv'
    BY LockKeeps DEF IInv, RoutineInv
  <1>1. ASSUME UNCHANGED requests PROVE RequestsInv'
    BY <1>1 DEF requests, RequestsInv, RequestsType, RequestInv
  <1>2. ASSUME UNCHANGED <<up, broker, routine, tear, history, faults>> PROVE RoutineInv'
    BY <1>2 DEF broker, routine, history, RoutineInv, RoutineType
  <1>3. CASE \E r \in Requests : Handler(r)
    <2>1. UNCHANGED <<up, broker, routine, tear, history, faults>>
      BY <1>3 DEF Handler, Receive, Look, Snapshot, WriteOk, WriteFails, WakeUp
    <2> QED
      BY <1>2, <1>3, <2>1, HandlerKeeps
  <1>4. CASE Routine
    <2>1. RoutineInv'
      BY <1>4, ChannelsKeep, DialsKeep DEF Routine
    <2>2. UNCHANGED requests \/ Reset \/ StartOk \/ StartFails
      BY <1>4 DEF Routine, Wake, ResetLocks, DialOk, DialFail, BackoffEnds, OpenChannels, OpenFails,
                  OpenAgain, GiveUp, StartLocks, PauseEnds, Quit
    <2> QED
      BY <1>1, <2>1, <2>2, ReplacedKeeps DEF Reset, CloseAll, StartOk, StartFails
  <1>5. CASE Interrupt \/ TeardownLocks \/ Failures
    <2>1. UNCHANGED requests
      BY <1>5 DEF Failures, Interrupt, TeardownLocks, OutageBegins, OutageEnds, Notice,
         ChannelFails, LeftoverSignal
    <2> QED
      BY <1>1, <1>5, <2>1, FailuresKeep, DialsKeep DEF Failures
  <1>6. CASE ProcessEnds
    BY <1>6, FailuresKeep, ReplacedKeeps DEF ProcessEnds
  <1>7. CASE Tick
    BY <1>7, TickRoutine, TickRequests
  <1>8. CASE UNCHANGED vars
    BY <1>1, <1>2, <1>8 DEF vars
  <1> QED
    BY <1>3, <1>4, <1>5, <1>6, <1>7, <1>8 DEF Next

\* The invariant of routine and handlers, in every reachable state.
THEOREM Invariant == Spec => []IInv
  BY InductiveInit, InductiveStep, PTL DEF Spec

\* An event whose POST was answered with an error is in no queue, and none
\* is ever in its queue twice, for any number of attempts and requests.
THEOREM ErrorsLeaveNothing == Spec => []ErrorMeansNotQueued
  <1>1. ASSUME IInv, NEW r \in Requests
        PROVE  copies[r] <= (IF pc[r] \in Answers \ {"accepted", "aborted"} THEN 0 ELSE 1)
    <2>1. copies[r] \in 0..1 /\ (copies[r] > 0 => pc[r] = "accepted")
      BY <1>1 DEF IInv, RequestsInv, RequestsType, RequestInv
    <2> QED
      BY <2>1
  <1>2. IInv => ErrorMeansNotQueued
    BY <1>1 DEF ErrorMeansNotQueued
  <1> QED
    BY Invariant, <1>2, PTL

\* An event answered with 202 was written to a connection.
THEOREM AcceptedIsWritten == Spec => []AcceptedWasWritten
  <1>1. IInv => AcceptedWasWritten
    BY DEF IInv, RequestsInv, RequestInv, AcceptedWasWritten
  <1> QED
    BY Invariant, <1>1, PTL

\* amqpConnect dials within maxBackoff of RabbitMQ's return.
THEOREM RedialBounded == Spec => []RedialsInTime
  <1>1. IInv => RedialsInTime
    BY DEF IInv, RoutineInv, RedialsInTime
  <1> QED
    BY Invariant, <1>1, PTL

\* The sleeps of publishWithRetry add up to no more than AnswerTime.
LEMMA InTime == ASSUME IInv, NEW r \in Requests PROVE slept[r] <= AnswerTime
  <1>1. slept[r] \in Nat /\ MaxRetries \in Nat \ {0} /\ 2 * slept[r] <= Twice(MaxRetries - 1)
    BY DelaysAssumption DEF IInv, RequestsInv, RequestsType, RequestInv
  <1>2. Twice(MaxRetries - 1) = MaxRetries * (MaxRetries - 1) /\ Twice(MaxRetries - 1) \in Nat
    BY <1>1, TwiceType DEF Twice
  <1>3. \A e, n \in Nat : 2 * e <= n => e <= n \div 2
    OBVIOUS
  <1> QED
    BY <1>1, <1>2, <1>3 DEF AnswerTime

\* publishWithRetry sleeps no longer than the sum of its delays between
\* MaxRetries attempts, and waits for connMutex no longer than one silence an
\* attempt, whatever happens meanwhile.
THEOREM AnswerBounded == Spec => []AnswersInTime
  <1>1. ASSUME IInv PROVE AnswersInTime
    BY <1>1, InTime DEF AnswersInTime, IInv, RequestsInv, RequestInv, Share
  <1> QED
    BY Invariant, <1>1, PTL

\* The types of the variables, the bounds of every delay included.
THEOREM TypeCorrect == Spec => []TypeOK
  <1>1. ASSUME IInv, AnswersInTime PROVE TypeOK
    <2>1. \A r \in Requests : slept[r] <= AnswerTime /\ blocked[r] <= Share(attempt[r] + 1)
      BY <1>1 DEF AnswersInTime, Share
    <2>2. /\ AnswerTime \in Int /\ slept \in [Requests -> Nat] /\ blocked \in [Requests -> Nat]
          /\ attempt \in [Requests -> 0..MaxRetries - 1] /\ MaxRetries \in Nat \ {0}
          /\ MaxRetries * SilenceTime \in Nat
      BY <1>1, DelaysAssumption DEF AnswerTime, IInv, RequestsInv, RequestsType
    <2>3. slept \in [Requests -> 0..AnswerTime + 1]
      BY <2>1, <2>2
    <2>4. ASSUME NEW n \in 1..MaxRetries PROVE Share(n) \in Nat /\ Share(n) <= MaxRetries * SilenceTime
      BY <2>2, DelaysAssumption DEF Share
    <2>5. \A r \in Requests : blocked[r] \in 0..MaxRetries * SilenceTime + 1
      <3> TAKE r \in Requests
      <3>1. attempt[r] + 1 \in 1..MaxRetries /\ blocked[r] \in Nat
        BY <2>2
      <3> QED
        BY <2>1, <2>2, <2>4, <3>1
    <2>6. blocked \in [Requests -> 0..MaxRetries * SilenceTime + 1]
      BY <2>2, <2>5
    <2> QED
      BY <1>1, <2>3, <2>6 DEF IInv, RoutineInv, RoutineType, RequestsInv, RequestsType,
         RequestStates, TypeOK
  <1> QED
    BY Invariant, AnswerBounded, <1>1, PTL

-----------------------------------------------------------------------------
(* One fault *)

\* A handler between two sleeps has slept exactly the sum of its delays.
Paced(r) ==
  /\ pc[r] \in {"look", "lock", "read", "write", "stale"} => 2 * slept[r] = Twice(attempt[r])
  /\ pc[r] = "sleep" => 2 * (slept[r] + sleep[r]) = Twice(attempt[r] + 1)
PacedInv == \A r \in Requests : Paced(r)

\* publishWithRetry keeps the count of its attempts and of its sleeps in step.
LEMMA NextPaced == ASSUME IInv, PacedInv, [Next]_vars PROVE PacedInv'
  <1> SUFFICES ASSUME NEW q \in Requests PROVE Paced(q)'
    BY DEF PacedInv
  <1>0. /\ Paced(q) /\ RequestInv(q) /\ RequestsType
        /\ attempt[q] \in 0..MaxRetries - 1 /\ sleep[q] \in Nat /\ slept[q] \in Nat
        /\ MaxRetries \in Nat \ {0} /\ slept[q] <= AnswerTime
    BY InTime, DelaysAssumption DEF PacedInv, IInv, RequestsInv, RequestsType
  <1>1. ASSUME pc'[q] = pc[q] \/ pc'[q] \in Answers \/ (/\ pc[q] \in {"look", "lock", "read", "write"}
                           /\ pc'[q] \in {"lock", "read", "write", "stale"}),
               attempt'[q] = attempt[q], sleep'[q] = sleep[q], slept'[q] = slept[q]
        PROVE  Paced(q)'
    BY <1>0, <1>1 DEF Paced, Answers
  <1>2. ASSUME NEW r \in Requests, Handler(r) PROVE Paced(q)'
    <2>1. CASE r # q
      <3>1. UNCHANGED <<pc[q], attempt[q], sleep[q], slept[q]>>
        BY <1>0, <1>2, <2>1 DEF Handler, Receive, Look, Snapshot, WriteOk, WriteFails, WakeUp,
           AttemptFailed, RequestsType
      <3> QED
        BY <1>1, <3>1
    <2>2. CASE Receive(q)
      BY <1>0, <2>2 DEF Receive, Paced, RequestInv, RequestsType, Twice
    <2>3. CASE pc[q] \in {"look", "lock", "read", "write", "stale"} /\ AttemptFailed(q) /\ UNCHANGED <<attempt, slept>>
      <3>1. /\ pc'[q] = (IF attempt[q] = MaxRetries - 1 THEN "failed" ELSE "sleep")
            /\ sleep'[q] = (IF attempt[q] = MaxRetries - 1 THEN 0 ELSE attempt[q] + 1)
        BY <1>0, <2>3 DEF AttemptFailed, RequestsType
      <3>2. Twice(attempt[q] + 1) = Twice(attempt[q]) + 2 * (attempt[q] + 1)
        BY <1>0, TwiceStep
      <3>3. 2 * slept[q] = Twice(attempt[q]) /\ Twice(attempt[q]) \in Nat
        BY <1>0, <2>3, TwiceType DEF Paced
      <3>4. 2 * (slept[q] + (attempt[q] + 1)) = Twice(attempt[q] + 1)
        BY <1>0, <3>2, <3>3
      <3> QED
        BY <2>3, <3>1, <3>4 DEF Paced
    <2>4. CASE WakeUp(q)
      BY <1>0, <2>4 DEF WakeUp, Paced, RequestsType
    <2>5. CASE Look(q) \/ (Snapshot(q) /\ ~AttemptFailed(q)) \/ WriteOk(q)
      BY <1>0, <1>1, <2>5 DEF Look, Snapshot, WriteOk, RequestsType, Answers
    <2> QED
      BY <1>2, <2>1, <2>2, <2>3, <2>4, <2>5 DEF Handler, Snapshot, WriteFails
  <1>3. CASE Tick
    <2>1. /\ pc[q] = "sleep" => sleep[q] > 0 /\ sleep'[q] = sleep[q] - 1 /\ slept'[q] = slept[q] + 1
          /\ pc[q] # "sleep" => slept'[q] = slept[q]
      BY <1>0, <1>3, TickCounts
    <2>2. pc' = pc /\ attempt' = attempt
      BY <1>3 DEF Tick
    <2> QED
      BY <1>0, <2>1, <2>2 DEF Paced
  <1>4. CASE Reset \/ StartOk \/ StartFails \/ ProcessEnds
    BY <1>0, <1>1, <1>4 DEF Reset, CloseAll, StartOk, StartFails, ProcessEnds, Unlocked,
       RequestsType, Answers
  <1>5. CASE UNCHANGED requests
    BY <1>1, <1>5 DEF requests
  <1>6. (\E r \in Requests : Handler(r)) \/ Tick \/ Reset \/ StartOk \/ StartFails \/ ProcessEnds
        \/ UNCHANGED requests
    BY DEF Next, Routine, Wake, ResetLocks, DialOk, DialFail, BackoffEnds, OpenChannels, OpenFails,
       OpenAgain, GiveUp, StartLocks, PauseEnds, Quit, Interrupt, TeardownLocks, Failures,
       OutageBegins, OutageEnds, Notice, ChannelFails, LeftoverSignal, vars
  <1> QED
    BY <1>2, <1>3, <1>4, <1>5, <1>6

\* A request between its arrival and its answer, and how long any has slept.
Pending(r) == pc[r] \in {"look", "lock", "read", "write", "stale", "sleep"}
Slow(n) == \A r \in Requests : Pending(r) => slept[r] <= n
\* Nobody waits, nor is about to.
Calm == \A r \in Requests : pc[r] \notin {"stale", "sleep"} /\ (Pending(r) => slept[r] = 0)

\* The phases of one fault: none yet, or repaired; a half-open connection; a
\* lost one; the reset of one that works; the dial; the backoff; the rest of
\* amqpConnect.
Steady == /\ rpc \in {"select", "exit"} /\ up /\ link = "ok" /\ connected
          /\ channel = "ok" \/ (channel = "closed" /\ faults = 1)
          /\ faults = 0 => Calm
          /\ \A r \in Requests : pc[r] = "stale" => slept[r] <= LongOutage
HalfOpen == rpc \in {"select", "exit"} /\ link = "dead" /\ channel = "ok" /\ connected /\ Calm
Lost == rpc \in {"select", "exit", "reset", "close"} /\ link = "lost" /\ Slow(0)
Resetting == rpc \in {"reset", "close"} /\ up /\ link = "ok" /\ Slow(LongOutage)
Down == /\ rpc \in {"dial", "exit"} /\ link = "none" /\ channel = "none" /\ Slow(LongOutage)
        /\ rpc = "dial" /\ ~up => Slow(0) /\ delay = BaseBackoff
Waiting == /\ rpc = "backoff" /\ link = "none" /\ channel = "none" /\ wait <= LongOutage
           /\ \A r \in Requests : Pending(r) => slept[r] + wait <= LongOutage
           /\ ~up => outage + wait >= LongOutage
Opening == /\ rpc \in {"channels", "start", "consume", "pause", "exit"} /\ up /\ link = "ok"
           /\ Slow(LongOutage)
           /\ rpc = "pause" => Cancelled
           /\ rpc \in {"start", "consume"} => channel = "ok" /\ connected
Troubled == HalfOpen \/ Lost \/ Resetting \/ Down \/ Waiting \/ Opening

\* One fault so far, and no long outage.
OneFault == faults <= 1 /\ outage < LongOutage /\ tear # "exit"
PhaseInv == /\ rpc = "exit" => Cancelled
            /\ tear = "exit" => \A r \in Requests : ~Pending(r)
            /\ OneFault => Steady \/ (faults = 1 /\ Troubled)

\* The first backoff is the base delay doubled, which maxBackoff does not cut
\* short, and the sleeps of publishWithRetry outlast it.
RetriesOutlast == 2 * BaseBackoff <= MaxBackoff /\ 2 * BaseBackoff < AnswerTime

\* What OneFault says of the state before: faults and outages only add up.
LEMMA OneFaultBefore ==
  ASSUME IInv, [Next]_vars, OneFault'
  PROVE  /\ OneFault /\ faults \in Nat /\ outage \in Nat /\ faults <= faults'
         /\ (tear' = tear \/ Interrupt \/ TeardownLocks)
  <1>1. /\ faults \in Nat /\ outage \in Nat /\ tear \in {"no", "cancelled", "closing", "exit"}
        /\ LongOutage \in Nat /\ MaxFaults \in Nat
    BY DelaysAssumption DEF IInv, RoutineInv, RoutineType, LongOutage
  <1>2. faults' \in {faults, faults + 1}
    BY DEF Next, Handler, Receive, Look, Snapshot, WriteOk, WriteFails, WakeUp, Routine, Wake,
       ResetLocks, Reset, DialOk, DialFail, BackoffEnds, OpenChannels, OpenFails, OpenAgain, GiveUp,
       StartLocks, StartOk, StartFails, PauseEnds, Quit, Interrupt, TeardownLocks, ProcessEnds,
       Failures, OutageBegins, OutageEnds, Notice, ChannelFails, LeftoverSignal, Tick, Fault, vars
  <1>3. outage' \in {outage, outage + 1}
    BY DEF Next, Handler, Receive, Look, Snapshot, WriteOk, WriteFails, WakeUp, Routine, Wake,
       ResetLocks, Reset, DialOk, DialFail, BackoffEnds, OpenChannels, OpenFails, OpenAgain, GiveUp,
       StartLocks, StartOk, StartFails, PauseEnds, Quit, Interrupt, TeardownLocks, ProcessEnds,
       Failures, OutageBegins, OutageEnds, Notice, ChannelFails, LeftoverSignal, Tick, history, vars
  <1>4. tear' = tear \/ Interrupt \/ TeardownLocks \/ tear' = "exit"
    BY DEF Next, Handler, Receive, Look, Snapshot, WriteOk, WriteFails, WakeUp, Routine, Wake,
       ResetLocks, Reset, DialOk, DialFail, BackoffEnds, OpenChannels, OpenFails, OpenAgain, GiveUp,
       StartLocks, StartOk, StartFails, PauseEnds, Quit, ProcessEnds, Failures, OutageBegins,
       OutageEnds, Notice, ChannelFails, LeftoverSignal, Tick, vars
  <1> QED
    BY <1>1, <1>2, <1>3, <1>4 DEF OneFault, Interrupt, TeardownLocks

\* A handler at work takes no time, and starts with none taken; what it finds
\* in a calm system sends it to no sleep.
LEMMA HandlerTakesNoTime ==
  ASSUME IInv, NEW r \in Requests, Handler(r)
  PROVE  /\ \A q \in Requests : /\ slept'[q] = slept[q]
                                /\ Pending(q)' => Pending(q) \/ slept[q] = 0
                                /\ pc'[q] = "stale" => pc[q] = "stale"
         /\ Calm /\ connected /\ channel = "ok" /\ link \in {"ok", "dead"} => Calm'
  <1>0. RequestsType /\ RequestInv(r)
    BY DEF IInv, RequestsInv
  <1>1. slept' = slept /\ \A q \in Requests \ {r} : pc'[q] = pc[q]
    BY <1>0 DEF Handler, Receive, Look, Snapshot, WriteOk, WriteFails, WakeUp, AttemptFailed,
       RequestsType
  <1>2. Pending(r)' => Pending(r) \/ slept[r] = 0
    BY <1>0 DEF Handler, Receive, Look, Snapshot, WriteOk, WriteFails, WakeUp, Pending, RequestInv
  <1>3. pc'[r] # "stale"
    BY <1>0 DEF Handler, Receive, Look, Snapshot, WriteOk, WriteFails, WakeUp, AttemptFailed,
       RequestsType
  <1>4. ASSUME Calm, connected, channel = "ok", link \in {"ok", "dead"}
        PROVE  Calm'
    <2>1. pc[r] \notin {"stale", "sleep"}
      BY <1>4 DEF Calm
    <2>2. pc'[r] # "sleep"
      BY <1>0, <1>4, <2>1 DEF Handler, Receive, Look, Snapshot, WriteOk, WriteFails, WakeUp,
         AttemptFailed, RequestsType
    <2>3. Pending(r)' => slept'[r] = 0
      BY <1>1, <1>2, <1>4 DEF Calm
    <2> QED
      BY <1>1, <1>3, <1>4, <2>2, <2>3 DEF Calm, Pending
  <1> QED
    BY <1>1, <1>2, <1>3, <1>4 DEF Pending

\* Handlers leave the phase what it is.
LEMMA HandlerPhase ==
  ASSUME IInv, PhaseInv, OneFault, NEW r \in Requests, Handler(r)
  PROVE  PhaseInv'
  <1>1. UNCHANGED <<up, link, channel, connected, rpc, delay, tries, wait, tear, outage, upFor, faults>>
    BY DEF Handler, Receive, Look, Snapshot, WriteOk, WriteFails, WakeUp, broker, routine, history
  <1>2. /\ LongOutage \in Nat /\ wait \in Nat /\ faults \in Nat
        /\ slept \in [Requests -> Nat]
    BY DelaysAssumption DEF IInv, RoutineInv, RoutineType, RequestsInv, RequestsType, LongOutage
  <1>3. \A n \in Nat : Slow(n) => Slow(n)'
    BY <1>2, HandlerTakesNoTime DEF Slow
  <1>4. Steady => Steady'
    BY <1>1, <1>2, HandlerTakesNoTime DEF Steady, LongOutage
  <1>5. HalfOpen => HalfOpen'
    BY <1>1, HandlerTakesNoTime DEF HalfOpen
  <1>6. (Lost => Lost') /\ (Resetting => Resetting') /\ (Down => Down') /\ (Opening => Opening')
    BY <1>1, <1>2, <1>3 DEF Lost, Resetting, Down, Opening, Cancelled, LongOutage
  <1>7. Waiting => Waiting'
    BY <1>1, <1>2, HandlerTakesNoTime DEF Waiting, LongOutage
  <1> QED
    BY <1>1, <1>4, <1>5, <1>6, <1>7 DEF PhaseInv, Troubled, Cancelled, OneFault

\* What no step of the routine, failure or interrupt takes from the requests.
LEMMA SlowStays ==
  ASSUME \A r \in Requests : slept'[r] = slept[r] /\ (Pending(r)' => Pending(r))
  PROVE  \A n : Slow(n) => Slow(n)'
  BY DEF Slow

\* Calm allows every phase its lateness.
LEMMA CalmIsSlow == ASSUME IInv, Calm, NEW n \in Nat PROVE Slow(n)
  BY DEF Calm, Slow

\* A dial that fails: the first one, since RabbitMQ came back before the end
\* of the first backoff.
LEMMA DialFailPhase ==
  ASSUME RetriesOutlast, IInv, PhaseInv, OneFault, DialFail PROVE PhaseInv'
  <1>1. /\ rpc = "dial" /\ rpc' = "backoff" /\ ~up /\ up' = up
        /\ wait' = IF 2 * delay < MaxBackoff THEN 2 * delay ELSE MaxBackoff
        /\ UNCHANGED <<link, channel, faults, outage, tear, pc, slept>>
    BY DEF DialFail, Go, broker, requests, history
  <1>2. Down /\ faults = 1 /\ Slow(0) /\ delay = BaseBackoff
    BY <1>1 DEF PhaseInv, Steady, Troubled, HalfOpen, Lost, Resetting, Down, Waiting, Opening
  <1>3. wait' = LongOutage /\ LongOutage \in Nat /\ outage \in Nat
    BY <1>1, <1>2, DelaysAssumption DEF RetriesOutlast, LongOutage, IInv, RoutineInv, RoutineType
  <1>4. LongOutage' = LongOutage
    BY DEF LongOutage
  <1>5. \A r \in Requests : Pending(r)' => slept'[r] + wait' <= LongOutage
    <2>1. slept \in [Requests -> Nat]
      BY DEF IInv, RequestsInv, RequestsType
    <2> QED
      BY <1>1, <1>2, <1>3, <2>1 DEF Slow, Pending
  <1>6. Waiting'
    BY <1>1, <1>2, <1>3, <1>4, <1>5 DEF Waiting, Down
  <1> QED
    BY <1>1, <1>2, <1>6 DEF PhaseInv, Troubled, OneFault

\* amqpConnectRoutine goes from phase to phase.
LEMMA RoutinePhase ==
  ASSUME RetriesOutlast, IInv, PhaseInv, OneFault, Routine, OneFault' PROVE PhaseInv'
  <1>0. /\ LongOutage \in Nat /\ wait \in Nat /\ faults \in Nat /\ outage \in Nat
        /\ slept \in [Requests -> Nat] /\ delay \in Nat /\ LongOutage' = LongOutage
    BY DelaysAssumption DEF IInv, RoutineInv, RoutineType, RequestsInv, RequestsType, LongOutage
  <1>1. Calm => Slow(0) /\ Slow(LongOutage)
    BY <1>0, CalmIsSlow
  <1>2. Slow(0) => Slow(LongOutage)
    BY <1>0 DEF Slow
  <1>3. Waiting => Slow(LongOutage)
    BY <1>0 DEF Waiting, Slow
  <1> USE DEF PhaseInv, Troubled, Steady, HalfOpen, Lost, Resetting, Down, Waiting, Opening, Go,
     broker, requests, history, Cancelled, OneFault
  <1>4. ASSUME UNCHANGED requests PROVE \A n : (Slow(n) => Slow(n)') /\ (Calm => Calm')
    BY <1>4 DEF Slow, Calm, Pending
  <1>5. CASE Wake \/ ResetLocks \/ StartLocks
    BY <1>0, <1>4, <1>5 DEF Wake, ResetLocks, StartLocks
  <1>6. CASE Reset
    <2>1. \A n : Slow(n) => Slow(n)'
      BY <1>6, SlowStays DEF Reset, CloseAll, Unlocked, Pending, IInv, RequestsInv, RequestsType
    <2> QED
      BY <1>0, <1>2, <1>6, <2>1 DEF Reset, CloseAll
  <1>7. CASE DialOk
    BY <1>0, <1>4, <1>7 DEF DialOk
  <1>8. CASE DialFail
    BY <1>8, DialFailPhase
  <1>9. CASE BackoffEnds
    BY <1>0, <1>3, <1>4, <1>9 DEF BackoffEnds
  <1>10. CASE OpenChannels \/ OpenFails \/ OpenAgain \/ GiveUp
    BY <1>0, <1>4, <1>10 DEF OpenChannels, OpenFails, OpenAgain, GiveUp, Fault
  <1>11. CASE StartOk \/ StartFails
    <2>1. StartOk /\ Opening /\ faults = 1 /\ UNCHANGED <<up, link, channel, connected, faults, slept>>
      BY <1>0, <1>11 DEF StartOk, StartFails, Fault
    <2>2. \A r \in Requests : pc'[r] = "stale" => slept'[r] <= LongOutage
      BY <2>1 DEF StartOk, Unlocked, Slow, Pending
    <2> QED
      BY <1>0, <2>1, <2>2 DEF StartOk
  <1>12. CASE PauseEnds
    BY <1>0, <1>4, <1>12 DEF PauseEnds
  <1>13. CASE Quit
    <2>1. /\ Cancelled' /\ UNCHANGED <<up, link, channel, connected, faults, outage, requests>>
          /\ \/ rpc \in {"select", "dial", "backoff", "pause"} /\ rpc' = "exit"
             \/ rpc = "channels" /\ rpc' = "pause"
      BY <1>13 DEF Quit
    <2>2. \A r \in Requests : pc'[r] = "stale" /\ pc[r] = "stale" => slept'[r] = slept[r]
      BY <2>1
    <2> QED
      BY <1>0, <1>1, <1>2, <1>3, <1>4, <2>1, <2>2
  <1> QED
    BY <1>5, <1>6, <1>7, <1>8, <1>9, <1>10, <1>11, <1>12, <1>13 DEF Routine

\* The one fault ends the calm; a second is none of OneFault.
LEMMA FailurePhase ==
  ASSUME IInv, PhaseInv, OneFault, Failures \/ Interrupt \/ TeardownLocks, OneFault' PROVE PhaseInv'
  <1>0. /\ LongOutage \in Nat /\ faults \in Nat /\ LongOutage' = LongOutage
        /\ UNCHANGED <<wait, delay, outage, requests>>
    BY DelaysAssumption DEF IInv, RoutineInv, RoutineType, LongOutage, Failures, Interrupt,
       TeardownLocks, OutageBegins, OutageEnds, Notice, ChannelFails, LeftoverSignal, routine,
       history
  <1>1. Calm => Slow(0) /\ Slow(LongOutage)
    BY <1>0, CalmIsSlow
  <1>2. \A n : (Slow(n) => Slow(n)') /\ (Calm => Calm')
    BY <1>0 DEF requests, Slow, Calm, Pending
  <1>3. \A r \in Requests : pc'[r] = pc[r] /\ slept'[r] = slept[r] /\ (Pending(r)' <=> Pending(r))
    BY <1>0 DEF requests, Pending
  <1> USE DEF PhaseInv, Troubled, Steady, HalfOpen, Lost, Resetting, Down, Waiting, Opening, Go,
     broker, Cancelled, OneFault, routine
  <1>4. CASE OutageBegins
    BY <1>0, <1>1, <1>2, <1>3, <1>4 DEF OutageBegins, Fault
  <1>5. CASE OutageEnds
    BY <1>0, <1>2, <1>3, <1>5 DEF OutageEnds
  <1>6. CASE Notice
    BY <1>0, <1>1, <1>2, <1>3, <1>6 DEF Notice
  <1>7. CASE ChannelFails
    BY <1>0, <1>1, <1>2, <1>3, <1>7 DEF ChannelFails, Fault, Calm
  <1>8. CASE LeftoverSignal
    BY <1>0, <1>1, <1>2, <1>3, <1>8 DEF LeftoverSignal, Fault
  <1>9. CASE Interrupt \/ TeardownLocks
    BY <1>0, <1>2, <1>3, <1>9 DEF Interrupt, TeardownLocks
  <1> QED
    BY <1>4, <1>5, <1>6, <1>7, <1>8, <1>9 DEF Failures

\* A second passes only in the steady phase, with the connection half-open,
\* or in the backoff, where what the handlers have slept and what the routine
\* has left to sleep stay within its first delay.
LEMMA TickPhase ==
  ASSUME IInv, PhaseInv, OneFault, Tick, OneFault' PROVE PhaseInv'
  <1>0. /\ LongOutage \in Nat /\ wait \in Nat /\ outage \in Nat /\ LongOutage' = LongOutage
        /\ slept \in [Requests -> Nat] /\ tear \in {"no", "cancelled", "closing", "exit"}
    BY DelaysAssumption DEF IInv, RoutineInv, RoutineType, RequestsInv, RequestsType, LongOutage
  <1>1. /\ UNCHANGED <<up, link, channel, connected, rpc, tear, pc, faults>>
        /\ wait' = Less(wait)
        /\ outage' = IF (~up \/ link = "dead") /\ outage < LongOutage THEN outage + 1 ELSE outage
        /\ \A r \in Requests : /\ pc[r] # "sleep" => slept'[r] = slept[r]
                               /\ slept'[r] \in {slept[r], slept[r] + 1}
    BY TickCounts DEF Tick, IInv, RequestsInv
  <1>2. /\ rpc \notin {"dial", "exit"} \/ link = "dead"
        /\ rpc \in {"reset", "close", "channels", "start", "consume"} => link = "dead"
        /\ rpc = "select" => link # "lost"
        /\ rpc = "backoff" => wait > 0
        /\ rpc # "dial"
        /\ rpc \in {"select", "backoff", "pause"} => ~Cancelled
        /\ Cancelled => link = "dead"
    BY <1>0 DEF Tick, Idle, LockHeld, PhaseInv, OneFault, Cancelled
  <1>3. Calm => Calm'
    BY <1>1 DEF Calm, Pending
  <1>4. Steady => Steady'
    BY <1>0, <1>1, <1>3 DEF Steady
  <1>5. HalfOpen => HalfOpen'
    BY <1>1, <1>3 DEF HalfOpen
  <1>6. ~Lost /\ ~Resetting /\ ~Down /\ ~Opening
    BY <1>2 DEF Lost, Resetting, Down, Opening, Cancelled
  <1>7. Waiting => Waiting'
    BY <1>0, <1>1, <1>2 DEF Waiting, Less, Pending, OneFault
  <1> QED
    BY <1>1, <1>4, <1>5, <1>6, <1>7 DEF PhaseInv, Troubled, Cancelled, OneFault

\* One fault takes the system through its phases and back to the steady one.
LEMMA NextPhase == ASSUME RetriesOutlast, IInv, PhaseInv, [Next]_vars PROVE PhaseInv'
  <1>1. rpc' = "exit" => Cancelled'
    <2>1. Cancelled => Cancelled'
      BY DEF Next, Handler, Receive, Look, Snapshot, WriteOk, WriteFails, WakeUp, Routine, Wake,
         ResetLocks, Reset, DialOk, DialFail, BackoffEnds, OpenChannels, OpenFails, OpenAgain,
         GiveUp, StartLocks, StartOk, StartFails, PauseEnds, Quit, Interrupt, TeardownLocks,
         ProcessEnds, Failures, OutageBegins, OutageEnds, Notice, ChannelFails, LeftoverSignal,
         Tick, vars, Cancelled
    <2>2. rpc' = "exit" => rpc = "exit" \/ Quit \/ ProcessEnds
      BY DEF Next, Handler, Receive, Look, Snapshot, WriteOk, WriteFails, WakeUp, Routine, Wake,
         ResetLocks, Reset, DialOk, DialFail, BackoffEnds, OpenChannels, OpenFails, OpenAgain,
         GiveUp, StartLocks, StartOk, StartFails, PauseEnds, Interrupt, TeardownLocks, Failures,
         OutageBegins, OutageEnds, Notice, ChannelFails, LeftoverSignal, Tick, vars, routine, Go
    <2> QED
      BY <2>1, <2>2 DEF PhaseInv, Quit, ProcessEnds, Cancelled
  <1>3. ASSUME tear' = "exit", NEW r \in Requests PROVE ~Pending(r)'
    <2>1. CASE ProcessEnds
      BY <2>1 DEF ProcessEnds, Pending, Answers
    <2>2. CASE ~ProcessEnds
      <3>1. tear = "exit" /\ \A q \in Requests : ~Pending(q)
        BY <1>3, <2>2 DEF PhaseInv, Next, Handler, Receive, Look, Snapshot, WriteOk, WriteFails,
           WakeUp, Routine, Wake, ResetLocks, Reset, DialOk, DialFail, BackoffEnds, OpenChannels,
           OpenFails, OpenAgain, GiveUp, StartLocks, StartOk, StartFails, PauseEnds, Quit,
           Interrupt, TeardownLocks, Failures, OutageBegins, OutageEnds, Notice, ChannelFails,
           LeftoverSignal, Tick, vars
      <3>2. ~\E q \in Requests : Handler(q)
        BY <3>1 DEF Handler, Receive, Look, Snapshot, WriteOk, WriteFails, WakeUp, Pending
      <3>3. pc' = pc \/ pc' = Unlocked(pc)
            \/ pc' = [q \in Requests |-> IF pc[q] = "write" THEN "stale" ELSE Unlocked(pc)[q]]
        BY <2>2, <3>2 DEF Next, Routine, Wake, ResetLocks, Reset, CloseAll, DialOk, DialFail,
           BackoffEnds, OpenChannels, OpenFails, OpenAgain, GiveUp, StartLocks, StartOk, StartFails,
           PauseEnds, Quit, Interrupt, TeardownLocks, Failures, OutageBegins, OutageEnds, Notice,
           ChannelFails, LeftoverSignal, Tick, vars, requests
      <3> QED
        BY <3>1, <3>3 DEF Pending, Unlocked
    <2> QED
      BY <2>1, <2>2
  <1>2. ASSUME OneFault' PROVE PhaseInv'
    <2>1. OneFault
      BY <1>2, OneFaultBefore
    <2>2. ~ProcessEnds
      BY <1>2 DEF ProcessEnds, OneFault
    <2>3. CASE UNCHANGED vars
      BY <2>3 DEF vars, broker, routine, requests, history, PhaseInv, Troubled, Steady, HalfOpen,
         Lost, Resetting, Down, Waiting, Opening, OneFault, Slow, Calm, Pending, Cancelled,
         LongOutage
    <2> QED
      BY <1>2, <2>1, <2>2, <2>3, HandlerPhase, RoutinePhase, FailurePhase, TickPhase DEF Next
  <1> QED
    BY <1>1, <1>2, <1>3 DEF PhaseInv

\* A handler that fails has slept all its delays.
LEMMA FailedSleptAll ==
  ASSUME IInv, PacedInv, NEW r \in Requests, Handler(r), NEW q \in Requests,
         pc[q] # "failed", pc'[q] = "failed"
  PROVE  /\ q = r /\ (Snapshot(q) \/ WriteFails(q)) /\ Pending(q)
         /\ slept[q] = AnswerTime /\ AnswerTime \in Nat
  <1>0. /\ RequestsType /\ Paced(q) /\ slept[q] \in Nat /\ attempt[q] \in Nat
        /\ MaxRetries \in Nat \ {0}
    BY DelaysAssumption DEF IInv, RequestsInv, RequestsType, PacedInv
  <1>1. q = r
    BY <1>0 DEF Handler, Receive, Look, Snapshot, WriteOk, WriteFails, WakeUp, AttemptFailed,
       RequestsType
  <1>2. (Snapshot(q) \/ WriteFails(q)) /\ AttemptFailed(q) /\ pc[q] \in {"lock", "read", "write", "stale"}
    BY <1>0, <1>1 DEF Handler, Receive, Look, Snapshot, WriteOk, WriteFails, WakeUp, RequestsType
  <1>3. attempt[q] = MaxRetries - 1
    BY <1>0, <1>2 DEF AttemptFailed, RequestsType
  <1>4. 2 * slept[q] = MaxRetries * (MaxRetries - 1)
    BY <1>0, <1>2, <1>3 DEF Paced, Twice
  <1>5. \A e, n \in Nat : 2 * e = n => n \div 2 = e
    OBVIOUS
  <1>6. MaxRetries * (MaxRetries - 1) \in Nat
    BY <1>0, <1>4
  <1> QED
    BY <1>0, <1>1, <1>2, <1>4, <1>5, <1>6 DEF AnswerTime, Pending

\* AMQP_RESILIENCE.md, "Publishing failures: Retry logic": one outage shorter
\* than the first backoff, or one other failure, fails no publish, for any
\* number of attempts and any delays that let the attempts outlast that
\* backoff, as the three attempts and the second of the code do.
THEOREM OneFaultFailsNone ==
  ASSUME RetriesOutlast
  PROVE  Spec => OneFaultSurvived
  <1>1. Init => PacedInv /\ PhaseInv
    <2> SUFFICES ASSUME Init PROVE PacedInv /\ PhaseInv
      OBVIOUS
    <2>1. PacedInv
      BY DEF Init, PacedInv, Paced
    <2>2. Calm /\ Slow(0) /\ \A n \in Nat : Slow(n)
      BY DEF Init, Calm, Slow, Pending
    <2>3. LongOutage \in Nat
      BY DelaysAssumption DEF LongOutage
    <2> QED
      BY <2>1, <2>2, <2>3 DEF Init, PhaseInv, Steady, Troubled, Down, Calm
  <1>2. ASSUME IInv, PacedInv, PhaseInv, [Next]_vars,
               NEW r \in Requests, pc[r] # "failed", pc'[r] = "failed"
        PROVE  outage >= LongOutage \/ faults > 1 \/ channel = "closed"
    <2> SUFFICES ASSUME outage < LongOutage, faults <= 1, channel # "closed"
                 PROVE  FALSE
      <3>1. outage \in Nat /\ LongOutage \in Nat /\ faults \in Nat
        BY <1>2, DelaysAssumption DEF IInv, RoutineInv, RoutineType, LongOutage
      <3> QED
        BY <3>1
    <2>1. PICK q \in Requests : Handler(q)
      <3>1. pc \in [Requests -> RequestStates]
        BY <1>2 DEF IInv, RequestsInv, RequestsType
      <3>2. ~Reset /\ ~StartOk /\ ~StartFails /\ ~ProcessEnds
        BY <1>2, <3>1 DEF Reset, CloseAll, StartOk, StartFails, Unlocked, ProcessEnds
      <3> QED
        BY <1>2, <3>2 DEF Next, Routine, Wake, ResetLocks, DialOk,
         DialFail, BackoffEnds, OpenChannels, OpenFails, OpenAgain, GiveUp, StartLocks,
         PauseEnds, Quit, Interrupt, TeardownLocks, Failures, OutageBegins, OutageEnds, Notice,
         ChannelFails, LeftoverSignal, Tick, requests, vars
    <2>2. /\ Snapshot(r) \/ WriteFails(r)
          /\ Pending(r) /\ slept[r] = AnswerTime /\ AnswerTime \in Nat
      BY <1>2, <2>1, FailedSleptAll
    <2>3. slept[r] > LongOutage /\ slept[r] > 0 /\ LongOutage \in Nat /\ wait \in Nat
      BY <1>2, <2>2, DelaysAssumption DEF RetriesOutlast, LongOutage, IInv, RoutineInv, RoutineType
    <2>4. tear # "exit"
      BY <1>2, <2>2 DEF PhaseInv
    <2>5. Steady \/ Troubled
      BY <1>2, <2>4 DEF PhaseInv, OneFault
    <2>6. Steady
      <3>1. ~Calm /\ ~Slow(0) /\ ~Slow(LongOutage)
        BY <2>2, <2>3 DEF Calm, Slow
      <3>2. ~Waiting
        BY <2>2, <2>3 DEF Waiting
      <3> QED
        BY <2>5, <3>1, <3>2 DEF Troubled, HalfOpen, Lost, Resetting, Down, Opening
    <2>7. channel = "ok" /\ link = "ok" /\ connected /\ pc[r] # "stale"
      BY <2>2, <2>3, <2>6 DEF Steady
    <2>8. pc \in [Requests -> RequestStates]
      BY <1>2 DEF IInv, RequestsInv, RequestsType
    <2> QED
      BY <1>2, <2>2, <2>7, <2>8 DEF Snapshot, WriteFails
  <1>3. IInv /\ PacedInv /\ PhaseInv /\ [Next]_vars => PacedInv' /\ PhaseInv'
    BY NextPaced, NextPhase
  <1>4. IInv /\ PacedInv /\ PhaseInv /\ [Next]_vars
        => [(\E r \in Requests : pc[r] # "failed" /\ pc'[r] = "failed") =>
              outage >= LongOutage \/ faults > 1 \/ channel = "closed"]_vars
    BY <1>2
  <1> QED
    BY <1>1, <1>3, <1>4, Invariant, PTL DEF Spec, OneFaultSurvived
=============================================================================
