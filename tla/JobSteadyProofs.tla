--------------------------- MODULE JobSteadyProofs ---------------------------
(* Proofs of what holds while one session lasts (MaxConns = 1): every       *)
(* delivery has exactly one owner, who settles it exactly once.            *)
EXTENDS JobContractProofs, JobMetricsProofs

-----------------------------------------------------------------------------
(* The inductive invariant *)

\* Before Connect there is no session; after it the session stays open at
\* both ends and the routine waits at its select.
SoleSession ==
  /\ cliOpen = srvOpen
  /\ \/ conn = 0 /\ srvOpen = {} /\ hpc[1] = "off"
     \/ conn = 1 /\ srvOpen = {1} /\ rpc = "up"

\* What RabbitMQ waits for is what AMPS has yet to settle.
Hand == IF hpc[1] \in {"insert", "discard", "requeue"} THEN {cur[1]} ELSE {}
Owned == inbox \cup JobTags \cup SettlingTags \cup Hand
AllOwned == unacked = Owned

\* No delivery is about to be settled twice, and the job the handler finds
\* after a failed Trigger is its own.
OneReport ==
  /\ \A s, u \in settling : s.tag = u.tag => s = u
  /\ hpc[1] = "requeue" => cur[1] \notin SettlingTags
  /\ hpc[1] \in {"trigger", "posted", "fail"} => jobs[Id(cur[1])] \in {None, cur[1]}

SteadyInv == SoleSession /\ AllOwned /\ OneReport

\* All that is known of a state while one session lasts.
Known == IInv /\ OnePlace /\ DiscardsEarned /\ MetricsInv

-----------------------------------------------------------------------------
(* What single operators do *)

\* With one session there is one handler.
LEMMA OneHandler ==
  ASSUME MaxConns = 1
  PROVE  Conns = {1} /\ \A X : InHand(X) = IF hpc[1] \in X THEN {cur[1]} ELSE {}
  BY DEF Conns, InHand

\* Before the first connection nothing was delivered.
LEMMA NothingYet ==
  ASSUME MaxConns = 1, IInv, MetricsInv, conn = 0
  PROVE  /\ Delivered = {} /\ unacked = {} /\ inbox = {} /\ settling = {} /\ aged = {}
         /\ \A id \in Ids : jobs[id] = None
  <1>1. Delivered = {}
    <2> SUFFICES ASSUME NEW t \in Delivered PROVE FALSE
      OBVIOUS
    <2>1. ConnOf(t) \in Conns /\ ConnOf(t) <= 0
      BY DeliveryTypes DEF IInv, SessionsPast
    <2> QED
      BY <2>1 DEF Conns
  <1>2. unacked = {} /\ inbox = {} /\ settling = {} /\ \A id \in Ids : jobs[id] = None
    BY <1>1 DEF IInv, PathType
  <1> QED
    BY <1>1, <1>2 DEF MetricsInv, Keys

\* Ack or Nack of unacked deliveries settles these and breaks nothing.
LEMMA SettleSole ==
  ASSUME MaxConns = 1, PathType, cliOpen = {1}, srvOpen = {1},
         NEW S \in SUBSET unacked, NEW how, Settle(S, how)
  PROVE  /\ unacked' = unacked \ S
         /\ UNCHANGED <<inbox, cliOpen, srvOpen, deliv>>
         /\ discarded' = discarded \cup (IF how = "discard" THEN MsgsOf(S) ELSE {})
  <1>1. \A t \in S : ConnOf(t) = 1
    BY DeliveryTypes, OneHandler DEF PathType
  <1> DEFINE live == {t \in S : ConnOf(t) \in cliOpen /\ ConnOf(t) \in srvOpen}
             ok == live \cap unacked
             broken == {ConnOf(t) : t \in live \ unacked}
             back == {t \in unacked \ ok : ConnOf(t) \in broken}
  <1>2. live = S /\ ok = S /\ broken = {} /\ back = {}
    BY <1>1
  <1>3. /\ unacked' = unacked \ (ok \cup back)
        /\ discarded' = discarded \cup (IF how = "discard" THEN MsgsOf(ok) ELSE {})
        /\ srvOpen' = srvOpen \ broken /\ cliOpen' = cliOpen \ broken
        /\ inbox' = {t \in inbox : ConnOf(t) \notin broken} /\ deliv' = deliv
    BY DEF Settle, CloseAtClient
  <1> QED
    BY <1>2, <1>3

\* An Ack or Nack takes from unacked what it takes from its owner.
LEMMA SettleSteady ==
  ASSUME MaxConns = 1, PathType, SoleSession, AllOwned, conn = 1,
         NEW S, NEW how, Settle(S, how), S \subseteq Owned, UNCHANGED <<conn, rpc>>,
         JobTags' \cup SettlingTags' \cup Hand' = (JobTags \cup SettlingTags \cup Hand) \ S,
         S \cap inbox = {}
  PROVE  SoleSession' /\ AllOwned'
  <1>1. cliOpen = {1} /\ srvOpen = {1} /\ rpc = "up" /\ S \in SUBSET unacked
    BY DEF SoleSession, AllOwned
  <1>2. unacked' = unacked \ S /\ UNCHANGED <<inbox, cliOpen, srvOpen>>
    BY <1>1, SettleSole
  <1>3. Owned' = Owned \ S
    BY <1>2 DEF Owned
  <1> QED
    BY <1>1, <1>2, <1>3 DEF SoleSession, AllOwned

-----------------------------------------------------------------------------
(* Each step hands a delivery from one owner to the next *)

\* The first connection: nothing is owned before or after.
LEMMA StartSteady ==
  ASSUME MaxConns = 1, IInv, MetricsInv, SteadyInv, conn = 0, Next
  PROVE  SteadyInv'
  <1> USE DEF server, handler, manifest, workload
  <1>1. /\ Delivered = {} /\ unacked = {} /\ inbox = {} /\ settling = {} /\ aged = {}
        /\ \A id \in Ids : jobs[id] = None
    BY NothingYet
  <1>2. cliOpen = {} /\ srvOpen = {} /\ hpc[1] = "off" /\ Conns = {1}
    BY OneHandler DEF SteadyInv, SoleSession
  <1>3. Reset \/ CleanManifest \/ Connect
    <2>1. ~Network
      BY <1>2 DEF Network, Deliver, ServerDrop, ClientDrop
    <2>2. ~Restart
      BY DEF Restart
    <2>3. ~\E c \in Conns : Handler(c)
      BY <1>2 DEF Handler, Receive, Insert, HandlerDiscard, WorkloadReceives, TriggerOk,
                  TriggerFail, FailCheck, HandlerRequeue, Exit, Step, Back
    <2>4. ~Http
      BY <1>1, MessagesAssumption DEF Http, JobAcknowledge, JobReject, TakeJob
    <2>5. ~JobWatchdog
      BY <1>1 DEF JobWatchdog, WatchdogTick, Age
    <2> QED
      BY <2>1, <2>2, <2>3, <2>4, <2>5 DEF Next, Routine
  <1>4. /\ unacked' = {} /\ inbox' = {} /\ settling' = {} /\ \A id \in Ids : jobs'[id] = None
        /\ hpc'[1] \in {"off", "idle"}
    BY <1>1, <1>2, <1>3 DEF Reset, CloseAtClient, CleanManifest, Connect, IInv, PathType
  <1>5. SoleSession'
    <2>1. CASE Connect
      <3>1. conn' = 1 /\ rpc' = "up" /\ srvOpen' = {1} /\ cliOpen' = {1}
        BY <1>2, <2>1 DEF Connect
      <3> QED
        BY <3>1 DEF SoleSession
    <2>2. CASE Reset \/ CleanManifest
      <3>1. conn' = 0 /\ srvOpen' = {} /\ cliOpen' = {} /\ hpc'[1] = "off"
        BY <1>2, <2>2 DEF Reset, CloseAtClient, CleanManifest
      <3> QED
        BY <3>1 DEF SoleSession
    <2> QED
      BY <1>3, <2>1, <2>2
  <1>6. Owned' = {}
    BY <1>4 DEF Owned, JobTags, SettlingTags, Hand
  <1>7. AllOwned' /\ OneReport'
    BY <1>4, <1>6 DEF AllOwned, OneReport
  <1> QED
    BY <1>5, <1>7 DEF SteadyInv

\* basic.deliver: a new delivery is unacked, and waits in the client library.
LEMMA DeliverSteady ==
  ASSUME MaxConns = 1, IInv, SteadyInv, conn = 1, NEW m \in Messages, Deliver(m, 1)
  PROVE  SteadyInv'
  <1>1. /\ unacked' = unacked \cup {Len(deliv')} /\ inbox' = inbox \cup {Len(deliv')}
        /\ UNCHANGED <<srvOpen, cliOpen, conn, rpc, hpc, cur, jobs, settling>>
    BY DEF Deliver, SteadyInv, SoleSession, manifest
  <1>2. JobTags' = JobTags /\ SettlingTags' = SettlingTags /\ Hand' = Hand
    BY <1>1 DEF JobTags, SettlingTags, Hand
  <1>3. AllOwned' /\ SoleSession'
    BY <1>1, <1>2 DEF SteadyInv, SoleSession, AllOwned, Owned
  <1>4. hpc[1] \in {"trigger", "posted", "fail"} => Id(cur[1])' = Id(cur[1])
    <2>1. ASSUME hpc[1] \in {"trigger", "posted", "fail"} PROVE cur[1] \in Delivered
      BY <2>1, OneHandler DEF IInv, PathType, HandlerHolds, Busy, HandlerStates
    <2>2. \A t \in Delivered : deliv'[t] = deliv[t]
      BY OneHandler, DeliverAppends DEF IInv
    <2> QED
      BY <1>1, <2>1, <2>2 DEF Id, MsgOf
  <1>5. OneReport'
    BY <1>1, <1>2, <1>4 DEF SteadyInv, OneReport
  <1> QED
    BY <1>3, <1>5 DEF SteadyInv

\* messageHandler up to its own Nack.
LEMMA HandlerSteady ==
  ASSUME MaxConns = 1, IInv, SteadyInv, conn = 1,
         Receive(1) \/ Insert(1) \/ WorkloadReceives(1) \/ TriggerOk(1) \/ TriggerFail(1)
           \/ FailCheck(1) \/ Exit(1)
  PROVE  SteadyInv'
  <1> USE DEF server, handler, manifest, workload
  <1>1. 1 \in Conns /\ hpc \in [Conns -> HandlerStates] /\ cur \in [Conns -> Delivered \cup {None}]
        /\ jobs \in [Ids -> Delivered \cup {None}] /\ inbox \subseteq Delivered
    BY OneHandler DEF IInv, PathType
  <1>2. UNCHANGED <<unacked, srvOpen, cliOpen, conn, rpc, deliv>>
    BY DEF Receive, Insert, WorkloadReceives, TriggerOk, TriggerFail, FailCheck, Exit
  <1>3. SoleSession'
    BY <1>2 DEF SteadyInv, SoleSession
  <1>4. \A t : Id(t)' = Id(t)
    BY <1>2 DEF Id, MsgOf
  <1>5. hpc[1] \in Busy => cur[1] \in Delivered /\ Id(cur[1]) \in Ids
    BY <1>1, HeldIds DEF IInv, HandlerHolds
  <1>6. CASE Receive(1)
    <2>1. PICK t \in inbox : /\ hpc[1] = "idle" /\ hpc'[1] \in {"discard", "insert"}
                             /\ cur'[1] = t /\ inbox' = inbox \ {t} /\ UNCHANGED <<jobs, settling>>
      BY <1>1, <1>6 DEF Receive, OnConn, Step
    <2>2. JobTags' = JobTags /\ SettlingTags' = SettlingTags /\ Hand = {} /\ Hand' = {t}
      BY <2>1 DEF JobTags, SettlingTags, Hand
    <2>3. AllOwned'
      BY <1>2, <2>1, <2>2 DEF SteadyInv, AllOwned, Owned
    <2>4. OneReport'
      BY <2>1, <2>2 DEF SteadyInv, OneReport
    <2> QED
      BY <1>3, <2>3, <2>4 DEF SteadyInv
  <1>7. CASE Insert(1)
    <2>1. /\ hpc[1] = "insert" /\ UNCHANGED <<inbox, cur, settling>>
          /\ \/ hpc'[1] = "discard" /\ jobs' = jobs
             \/ /\ hpc'[1] = "trigger" /\ jobs[Id(cur[1])] = None
                /\ jobs' = [jobs EXCEPT ![Id(cur[1])] = cur[1]]
      BY <1>1, <1>7 DEF Insert, Step, InsertJobWithDelivery, metrics
    <2>2. cur[1] \in Delivered /\ cur[1] # None /\ Id(cur[1]) \in Ids
      BY <1>5, <2>1, <1>1 DEF Busy, HandlerStates, IInv, HandlerHolds
    <2>3. JobTags' \cup Hand' = JobTags \cup Hand
      <3>1. CASE hpc'[1] = "discard" /\ jobs' = jobs
        BY <2>1, <3>1 DEF JobTags, Hand
      <3>2. CASE hpc'[1] = "trigger" /\ jobs[Id(cur[1])] = None
                 /\ jobs' = [jobs EXCEPT ![Id(cur[1])] = cur[1]]
        <4>1. JobTags' = JobTags \cup {cur[1]}
          BY <1>1, <2>2, <3>2 DEF JobTags
        <4> QED
          BY <2>1, <3>2, <4>1 DEF Hand
      <3> QED
        BY <2>1, <3>1, <3>2
    <2>4. AllOwned'
      BY <1>2, <2>1, <2>3 DEF SteadyInv, AllOwned, Owned, SettlingTags
    <2>5. OneReport'
      BY <1>1, <1>4, <2>1, <2>2 DEF SteadyInv, OneReport
    <2> QED
      BY <1>3, <2>4, <2>5 DEF SteadyInv
  <1>8. CASE WorkloadReceives(1) \/ TriggerFail(1) \/ TriggerOk(1) \/ Exit(1)
    <2>1. /\ hpc[1] \in {"trigger", "posted", "idle"} /\ hpc'[1] \in {"posted", "fail", "idle", "off"}
          /\ hpc'[1] \in {"posted", "fail"} => hpc[1] \in {"trigger", "posted"} /\ cur' = cur
          /\ UNCHANGED <<inbox, jobs, settling>>
      BY <1>1, <1>8 DEF WorkloadReceives, TriggerFail, TriggerOk, Exit, Step, Back
    <2>2. JobTags' = JobTags /\ SettlingTags' = SettlingTags /\ Hand = {} /\ Hand' = {}
      BY <2>1 DEF JobTags, SettlingTags, Hand
    <2>3. AllOwned'
      BY <1>2, <2>1, <2>2 DEF SteadyInv, AllOwned, Owned
    <2>4. OneReport'
      BY <1>4, <2>1, <2>2 DEF SteadyInv, OneReport
    <2> QED
      BY <1>3, <2>3, <2>4 DEF SteadyInv
  <1>9. CASE FailCheck(1)
    <2> DEFINE id == Id(cur[1])
    <2>1. /\ hpc[1] = "fail" /\ UNCHANGED <<inbox, settling>>
          /\ \/ jobs[id] = None /\ hpc'[1] = "idle" /\ jobs' = jobs
             \/ jobs[id] # None /\ hpc'[1] = "requeue" /\ cur' = cur /\ jobs' = [jobs EXCEPT ![id] = None]
      BY <1>1, <1>9 DEF FailCheck, Step, Back, Without
    <2>2. id \in Ids /\ jobs[id] \in {None, cur[1]} /\ cur[1] # None
      BY <1>5, <1>1, <2>1 DEF Busy, HandlerStates, SteadyInv, OneReport, IInv, HandlerHolds
    <2> HIDE DEF id
    <2>3. JobTags' \cup Hand' = JobTags \cup Hand
      <3>1. CASE jobs[id] = None /\ hpc'[1] = "idle" /\ jobs' = jobs
        BY <2>1, <3>1 DEF JobTags, Hand
      <3>2. CASE jobs[id] # None /\ hpc'[1] = "requeue" /\ cur' = cur /\ jobs' = [jobs EXCEPT ![id] = None]
        <4>1. jobs[id] = cur[1] /\ Hand = {} /\ Hand' = {cur[1]}
          BY <2>1, <2>2, <3>2 DEF Hand
        <4>2. \A k \in Ids : jobs[k] = cur[1] => k = id
          BY <2>2, <4>1 DEF IInv, KeysMatch
        <4>3. JobTags' = JobTags \ {cur[1]} /\ cur[1] \in JobTags
          BY <1>1, <2>2, <3>2, <4>1, <4>2 DEF JobTags
        <4> QED
          BY <4>1, <4>3
      <3> QED
        BY <2>1, <3>1, <3>2
    <2>4. AllOwned'
      BY <1>2, <2>1, <2>3 DEF SteadyInv, AllOwned, Owned, SettlingTags
    <2>5. hpc'[1] = "requeue" => cur'[1] \notin SettlingTags'
      BY <2>1, <2>2 DEF IInv, OneOwner, SettlingTags
    <2>6. OneReport'
      BY <2>1, <2>5 DEF SteadyInv, OneReport
    <2> QED
      BY <1>3, <2>4, <2>6 DEF SteadyInv
  <1> QED
    BY <1>6, <1>7, <1>8, <1>9

\* The handler's own Nack settles the delivery in its hand, once.
LEMMA NackSteady ==
  ASSUME MaxConns = 1, IInv, SteadyInv, conn = 1, HandlerDiscard(1) \/ HandlerRequeue(1)
  PROVE  SteadyInv'
  <1> USE DEF manifest
  <1>1. PICK how : Settle({cur[1]}, how)
    BY DEF HandlerDiscard, HandlerRequeue
  <1>2. /\ hpc[1] \in {"discard", "requeue"} /\ hpc'[1] = "idle" /\ cur[1] # None
        /\ UNCHANGED <<jobs, settling, conn, rpc>>
    BY OneHandler DEF HandlerDiscard, HandlerRequeue, Back, Step, IInv, PathType, HandlerHolds,
                      Busy, HandlerStates
  <1>3. Hand = {cur[1]} /\ Hand' = {} /\ JobTags' = JobTags /\ SettlingTags' = SettlingTags
    BY <1>2 DEF Hand, JobTags, SettlingTags
  <1>4. cur[1] \notin inbox \cup JobTags \cup SettlingTags
    BY <1>2, OneHandler DEF IInv, OneOwner, JobTags, SettlingTags, SteadyInv, OneReport, Busy,
       HandlerStates
  <1>5. SoleSession' /\ AllOwned'
    BY <1>1, <1>2, <1>3, <1>4, SettleSteady DEF IInv, SteadyInv, Owned
  <1>6. OneReport'
    BY <1>2, <1>3 DEF SteadyInv, OneReport
  <1> QED
    BY <1>5, <1>6 DEF SteadyInv

\* JobAcknowledge and JobReject take the job's delivery out of the manifest.
LEMMA TakeSteady ==
  ASSUME MaxConns = 1, IInv, SteadyInv, conn = 1, NEW m \in Messages, NEW how, TakeJob(m, how)
  PROVE  SteadyInv'
  <1> DEFINE id == IdOf[m]
             t == jobs[id]
  <1>1. /\ id \in Ids /\ t # None /\ jobs \in [Ids -> Delivered \cup {None}]
        /\ jobs' = [jobs EXCEPT ![id] = None] /\ settling' = settling \cup {[tag |-> t, how |-> how]}
        /\ UNCHANGED <<queue, deliv, unacked, srvOpen, cliOpen, conn, rpc, inbox, hpc, cur>>
    BY MessagesAssumption DEF TakeJob, Without, IInv, PathType, server, handler
  <1>2. \A k \in Ids : jobs[k] = t => k = id
    BY <1>1 DEF IInv, KeysMatch
  <1>3. t \notin SettlingTags /\ (hpc[1] \in {"insert", "discard", "requeue"} => cur[1] # t)
    BY <1>1, OneHandler DEF IInv, OneOwner, SettlingTags
  <1>4. JobTags' = JobTags \ {t} /\ t \in JobTags
    BY <1>1, <1>2 DEF JobTags
  <1>5. SettlingTags' = SettlingTags \cup {t} /\ Hand' = Hand
    <2>1. [tag |-> t, how |-> how].tag = t
      OBVIOUS
    <2> HIDE DEF t
    <2>2. SettlingTags' = SettlingTags \cup {t}
      BY <1>1, <2>1 DEF SettlingTags
    <2> QED
      BY <1>1, <2>2 DEF Hand
  <1>6. AllOwned' /\ SoleSession'
    BY <1>1, <1>4, <1>5 DEF SteadyInv, AllOwned, Owned, SoleSession
  <1>7. \A s, u \in settling' : s.tag = u.tag => s = u
    BY <1>1, <1>3 DEF SteadyInv, OneReport, SettlingTags
  <1>8. hpc'[1] \in {"trigger", "posted", "fail"} => jobs'[Id(cur[1])'] \in {None, cur'[1]}
    <2>1. SUFFICES ASSUME hpc[1] \in {"trigger", "posted", "fail"} PROVE jobs'[Id(cur[1])] \in {None, cur[1]}
      BY <1>1 DEF Id, MsgOf
    <2>2. jobs[Id(cur[1])] \in {None, cur[1]} /\ Id(cur[1]) \in Ids
      BY <2>1, OneHandler, HeldIds DEF SteadyInv, OneReport, IInv, Busy, HandlerStates
    <2> QED
      BY <1>1, <2>2
  <1>9. OneReport'
    BY <1>1, <1>3, <1>5, <1>7, <1>8 DEF SteadyInv, OneReport
  <1> QED
    BY <1>6, <1>9 DEF SteadyInv

\* The Ack or Nack of an endpoint settles what it took, once.
LEMMA HttpSteady ==
  ASSUME MaxConns = 1, IInv, SteadyInv, conn = 1, NEW s \in settling, HttpSettle(s)
  PROVE  SteadyInv'
  <1> USE DEF manifest
  <1>1. /\ Settle({s.tag}, s.how) /\ settling' = settling \ {s}
        /\ UNCHANGED <<jobs, conn, rpc, hpc, cur>>
    BY DEF HttpSettle
  <1>2. SettlingTags' = SettlingTags \ {s.tag} /\ s.tag \in SettlingTags
    BY <1>1 DEF SettlingTags, SteadyInv, OneReport
  <1>3. JobTags' = JobTags /\ Hand' = Hand
    BY <1>1 DEF JobTags, Hand
  <1>4. s.tag \notin inbox \cup JobTags \cup Hand
    BY OneHandler DEF IInv, OneOwner, JobTags, Hand, SteadyInv, OneReport, SettlingTags
  <1>5. SoleSession' /\ AllOwned'
    BY <1>1, <1>2, <1>3, <1>4, SettleSteady DEF IInv, SteadyInv, Owned
  <1>6. deliv' = deliv
    BY <1>1 DEF Settle
  <1>7. OneReport'
    BY <1>1, <1>2, <1>6 DEF SteadyInv, OneReport, Id, MsgOf
  <1> QED
    BY <1>5, <1>7 DEF SteadyInv

\* A tick of the watchdog settles the jobs it deletes.
LEMMA TickSteady ==
  ASSUME MaxConns = 1, IInv, MetricsInv, SteadyInv, conn = 1, WatchdogTick
  PROVE  SteadyInv'
  <1> DEFINE S == {jobs[id] : id \in aged}
  <1>1. /\ Settle(S, "requeue") /\ jobs' = [id \in Ids |-> IF id \in aged THEN None ELSE jobs[id]]
        /\ UNCHANGED <<conn, rpc, hpc, cur, settling>>
    BY DEF WatchdogTick
  <1>2. \A id \in aged : id \in Ids /\ jobs[id] # None
    BY DEF MetricsInv, Keys
  <1>3. \A id, k \in Ids : jobs[id] # None /\ jobs[id] = jobs[k] => id = k
    BY DEF IInv, KeysMatch
  <1>4. JobTags' = JobTags \ S /\ S \subseteq JobTags
    BY <1>1, <1>2, <1>3 DEF JobTags
  <1> HIDE DEF S
  <1>5. SettlingTags' = SettlingTags /\ Hand' = Hand
    BY <1>1 DEF SettlingTags, Hand
  <1>6. S \cap (inbox \cup SettlingTags \cup Hand) = {}
    <2>1. JobTags \cap (inbox \cup SettlingTags \cup Hand) = {}
      BY OneHandler DEF IInv, OneOwner, JobTags, Hand, SettlingTags
    <2> QED
      BY <1>4, <2>1
  <1>7. SoleSession' /\ AllOwned'
    BY <1>1, <1>4, <1>5, <1>6, SettleSteady DEF IInv, SteadyInv, Owned
  <1>8. deliv' = deliv
    BY <1>1 DEF Settle
  <1>9. hpc[1] \in {"trigger", "posted", "fail"} => Id(cur[1]) \in Ids
    BY OneHandler, HeldIds DEF IInv, Busy, HandlerStates
  <1>10. OneReport'
    BY <1>1, <1>5, <1>8, <1>9 DEF SteadyInv, OneReport, Id, MsgOf
  <1> QED
    BY <1>7, <1>10 DEF SteadyInv

\* No step of the session it lasts for breaks the ownership.
LEMMA NextSteady ==
  ASSUME MaxConns = 1, IInv, MetricsInv, SteadyInv, [Next]_vars
  PROVE  SteadyInv'
  <1>1. CASE UNCHANGED vars
    BY <1>1 DEF vars, server, handler, manifest, SteadyInv, SoleSession, AllOwned, Owned, JobTags,
                SettlingTags, Hand, OneReport, Id, MsgOf
  <1>2. CASE Next /\ conn = 0
    BY <1>2, StartSteady
  <1>3. CASE Next /\ conn = 1
    <2>1. Conns = {1} /\ cliOpen = {1} /\ srvOpen = {1} /\ rpc = "up"
      BY <1>3, OneHandler DEF SteadyInv, SoleSession
    <2>2. ~Routine
      BY <1>3, <2>1 DEF Routine, Reset, CleanManifest, Connect, Restart
    <2>3. CASE Network
      <3>1. PICK m \in Messages : Deliver(m, 1)
        BY <2>1, <2>3 DEF Network, ServerDrop, ClientDrop
      <3> QED
        BY <1>3, <3>1, DeliverSteady
    <2>4. CASE \E c \in Conns : Handler(c)
      <3>1. Handler(1)
        BY <2>1, <2>4
      <3> QED
        BY <1>3, <3>1, HandlerSteady, NackSteady DEF Handler
    <2>5. CASE Http
      BY <1>3, <2>5, TakeSteady, HttpSteady DEF Http, JobAcknowledge, JobReject
    <2>6. CASE WatchdogTick
      BY <1>3, <2>6, TickSteady
    <2>7. ASSUME NEW id \in Ids, Age(id) PROVE SteadyInv'
      BY <2>7 DEF Age, server, handler, SteadyInv, SoleSession, AllOwned, Owned, JobTags,
                  SettlingTags, Hand, OneReport, Id, MsgOf
    <2> QED
      BY <1>3, <2>2, <2>3, <2>4, <2>5, <2>6, <2>7 DEF Next, JobWatchdog
  <1> QED
    BY <1>1, <1>2, <1>3 DEF SteadyInv, SoleSession

-----------------------------------------------------------------------------
(* Messages that are dropped *)

\* A delivery the handler is about to drop is malformed or meets the job of
\* another message with its id.
DiscardsMeetAnother ==
  hpc[1] = "discard" => MsgOf(cur[1]) \in Malformed \/ SharesId(MsgOf(cur[1]))

DropInv == DiscardsMeetAnother /\ DiscardedWasRefused

\* What shares its id with a delivered message goes on to.
LEMMA SharesLasts ==
  ASSUME PathType, [Next]_vars, NEW m, SharesId(m)
  PROVE  SharesId(m)'
  BY DeliveriesLast DEF SharesId, Id, MsgOf

\* messageHandler finds the job of another message: its own message is in one
\* unacked delivery only, and so is that of the job.
LEMMA DuplicateIsAnother ==
  ASSUME MaxConns = 1, IInv, OnePlace, SteadyInv, hpc[1] = "insert", jobs[Id(cur[1])] # None
  PROVE  SharesId(MsgOf(cur[1]))
  <1> DEFINE u == jobs[Id(cur[1])]
  <1>1. 1 \in Conns /\ cur[1] \in Delivered /\ Id(cur[1]) \in Ids
    BY OneHandler, HeldIds DEF IInv, PathType, HandlerHolds, Busy, HandlerStates
  <1>2. u # cur[1] /\ u \in JobTags /\ cur[1] \in Hand /\ u \in Delivered /\ Id(u) = Id(cur[1])
    BY <1>1 DEF IInv, PathType, OneOwner, KeysMatch, JobTags, Hand
  <1> HIDE DEF u
  <1>3. u \in unacked /\ cur[1] \in unacked
    BY <1>2 DEF SteadyInv, AllOwned, Owned
  <1>4. MsgOf(u) # MsgOf(cur[1])
    BY <1>2, <1>3 DEF OnePlace
  <1> QED
    BY <1>2, <1>4 DEF SharesId, Id

\* Only the handler's Nack and an endpoint's drop a message.
LEMMA DropSteps ==
  ASSUME MaxConns = 1, IInv, MetricsInv, SteadyInv, [Next]_vars
  PROVE  \/ discarded' = discarded
         \/ HandlerDiscard(1) /\ discarded' = discarded \cup {MsgOf(cur[1])}
         \/ \E s \in settling : s.how = "discard" /\ discarded' = discarded \cup {MsgOf(s.tag)}
  <1>1. CASE conn = 0 \/ UNCHANGED vars
    <2>1. CASE UNCHANGED vars
      BY <2>1 DEF vars, server
    <2>2. CASE conn = 0 /\ Next
      <3>1. settling = {} /\ aged = {} /\ hpc[1] = "off" /\ Conns = {1}
        BY <2>2, NothingYet, OneHandler DEF SteadyInv, SoleSession
      <3> QED
        BY <2>2, <3>1 DEF Next, Network, Deliver, ServerDrop, ClientDrop, CloseAtServer, Routine,
           Reset, CleanManifest, Connect, Restart, Handler, Receive, Insert, HandlerDiscard,
           WorkloadReceives, TriggerOk, TriggerFail, FailCheck, HandlerRequeue, Exit, Step, Back,
           Http, JobAcknowledge, JobReject, TakeJob, JobWatchdog, WatchdogTick, Age, server
    <2> QED
      BY <1>1, <2>1, <2>2
  <1>2. CASE conn = 1 /\ Next
    <2>1. Conns = {1} /\ cliOpen = {1} /\ srvOpen = {1} /\ PathType
      BY <1>2, OneHandler DEF SteadyInv, SoleSession, IInv
    <2>2. \A t : MsgsOf({t}) = {MsgOf(t)}
      BY DEF MsgsOf
    <2>3. CASE HandlerDiscard(1)
      <3>1. {cur[1]} \in SUBSET unacked /\ Settle({cur[1]}, "discard")
        BY <2>3 DEF HandlerDiscard, Back, Step, SteadyInv, AllOwned, Owned, Hand
      <3> QED
        BY <2>1, <2>2, <2>3, <3>1, SettleSole
    <2>4. CASE HandlerRequeue(1) \/ WatchdogTick
      BY <2>4 DEF HandlerRequeue, WatchdogTick, Settle
    <2>5. ASSUME NEW s \in settling, HttpSettle(s)
          PROVE  \/ discarded' = discarded
                 \/ s.how = "discard" /\ discarded' = discarded \cup {MsgOf(s.tag)}
      <3>1. {s.tag} \in SUBSET unacked /\ Settle({s.tag}, s.how)
        BY <2>5 DEF HttpSettle, SteadyInv, AllOwned, Owned, SettlingTags
      <3>2. discarded' = discarded \cup (IF s.how = "discard" THEN MsgsOf({s.tag}) ELSE {})
        BY <2>1, <3>1, SettleSole
      <3>3. CASE s.how = "discard"
        BY <2>2, <3>2, <3>3
      <3>4. CASE s.how # "discard"
        BY <3>2, <3>4
      <3> QED
        BY <3>3, <3>4
    <2>6. \/ HandlerDiscard(1) \/ HandlerRequeue(1) \/ WatchdogTick
          \/ (\E s \in settling : HttpSettle(s)) \/ discarded' = discarded
      BY <1>2, <2>1 DEF Next, Network, Deliver, ServerDrop, ClientDrop, CloseAtServer, Routine,
         Reset, CleanManifest, Connect, Restart, CloseAtServer, Handler, Receive, Insert,
         WorkloadReceives, TriggerOk, TriggerFail, FailCheck, Exit, Http, JobAcknowledge,
         JobReject, TakeJob, JobWatchdog, Age, server
    <2> QED
      BY <2>3, <2>4, <2>5, <2>6
  <1> QED
    BY <1>1, <1>2 DEF SteadyInv, SoleSession

\* No message is dropped for a job of its own.
LEMMA NextDrops ==
  ASSUME MaxConns = 1, Known, SteadyInv, DropInv, [Next]_vars
  PROVE  DropInv'
  <1> USE DEF Known
  <1>1. \A t \in Delivered : MsgOf(t)' = MsgOf(t)
    BY DeliveriesLast DEF IInv, MsgOf
  <1>2. \A m : SharesId(m) => SharesId(m)'
    BY SharesLasts DEF IInv
  <1>3. refused \subseteq refused'
    BY DiscardsPend DEF IInv
  <1>4. DiscardsMeetAnother'
    <2> SUFFICES ASSUME hpc'[1] = "discard"
                 PROVE  (MsgOf(cur[1]) \in Malformed \/ SharesId(MsgOf(cur[1])))'
      BY DEF DiscardsMeetAnother
    <2>0. 1 \in Conns /\ Conns = {1} /\ PathType
      BY OneHandler DEF IInv
    <2>1. (hpc[1] = "discard" /\ cur'[1] = cur[1]) \/ Receive(1) \/ Insert(1)
      BY <2>0, DiscardsFrom
    <2>2. CASE hpc[1] = "discard" /\ cur'[1] = cur[1]
      <3>1. cur[1] \in Delivered
        BY <2>0, <2>2 DEF IInv, HandlerHolds, Busy, HandlerStates, PathType
      <3>2. MsgOf(cur[1])' = MsgOf(cur[1])
        BY <1>1, <2>2, <3>1 DEF MsgOf
      <3> QED
        BY <1>2, <2>2, <3>2 DEF DropInv, DiscardsMeetAnother, SharesId
    <2>3. CASE Receive(1)
      <3>1. PICK t \in inbox : /\ hpc' = [hpc EXCEPT ![1] = IF MsgOf(t) \in Malformed
                                                            THEN "discard" ELSE "insert"]
                               /\ cur' = [cur EXCEPT ![1] = t]
        BY <2>3 DEF Receive, Step, OnConn
      <3>2. MsgOf(t) \in Malformed /\ cur'[1] = t /\ t \in Delivered
        BY <2>0, <3>1 DEF PathType
      <3> QED
        BY <1>1, <3>2 DEF MsgOf
    <2>4. CASE Insert(1)
      <3>1. hpc[1] = "insert" /\ cur' = cur /\ jobs[Id(cur[1])] # None /\ deliv' = deliv
        BY <2>0, <2>4 DEF Insert, Step, PathType, server
      <3>2. SharesId(MsgOf(cur[1]))
        BY <3>1, DuplicateIsAnother
      <3>3. MsgOf(cur[1])' = MsgOf(cur[1]) /\ \A m : SharesId(m)' = SharesId(m)
        BY <3>1 DEF MsgOf, SharesId, Id, Delivered
      <3> QED
        BY <3>2, <3>3
    <2> QED
      BY <2>1, <2>2, <2>3, <2>4
  <1>5. DiscardedWasRefused'
    <2> SUFFICES ASSUME NEW m \in discarded'
                 PROVE  m \in Malformed \/ (\E k \in refused' : IdOf[k] = IdOf[m]) \/ SharesId(m)'
      BY DEF DiscardedWasRefused
    <2>1. CASE m \in discarded
      BY <1>2, <1>3, <2>1 DEF DropInv, DiscardedWasRefused
    <2>2. CASE HandlerDiscard(1) /\ m = MsgOf(cur[1])
      BY <1>2, <2>2 DEF HandlerDiscard, Back, Step, DropInv, DiscardsMeetAnother
    <2>3. ASSUME NEW s \in settling, s.how = "discard", m = MsgOf(s.tag)
          PROVE  \E k \in refused' : IdOf[k] = IdOf[m]
      BY <1>3, <2>3 DEF DiscardsEarned, Id
    <2> QED
      BY <2>1, <2>2, <2>3, DropSteps
  <1> QED
    BY <1>4, <1>5 DEF DropInv

-----------------------------------------------------------------------------
(* The theorems *)

\* With one session every state satisfies all the invariants.
THEOREM SteadyInvariant ==
  ASSUME MaxConns = 1
  PROVE  Spec => [](Known /\ SteadyInv /\ DropInv)
  <1>1. Init => Known /\ SteadyInv /\ DropInv
    <2> SUFFICES ASSUME Init PROVE Known /\ SteadyInv /\ DropInv
      OBVIOUS
    <2>1. Known
      BY InitInvariant, InitRefines, InitMetrics DEF Known
    <2>2. JobTags = {} /\ SettlingTags = {} /\ hpc[1] = "off"
      BY OneHandler DEF Init, JobTags, SettlingTags
    <2>3. SteadyInv
      BY <2>2 DEF Init, SteadyInv, SoleSession, AllOwned, Owned, Hand, OneReport
    <2>4. DropInv
      BY <2>2 DEF Init, DropInv, DiscardsMeetAnother, DiscardedWasRefused
    <2> QED
      BY <2>1, <2>3, <2>4
  <1>2. Known /\ SteadyInv /\ DropInv /\ [Next]_vars => (Known /\ SteadyInv /\ DropInv)'
    <2> SUFFICES ASSUME Known, SteadyInv, DropInv, [Next]_vars PROVE (Known /\ SteadyInv /\ DropInv)'
      OBVIOUS
    <2>1. IInv' /\ DiscardsEarned'
      BY NextInvariant, NextDiscards DEF Known
    <2>2. OnePlace'
      BY NextRefines DEF Known, RInv
    <2>3. MetricsInv'
      BY NextMetrics DEF Known, IInv
    <2> QED
      BY <2>1, <2>2, <2>3, NextSteady, NextDrops DEF Known
  <1> QED
    BY <1>1, <1>2, PTL DEF Spec

\* While one session lasts nothing is settled twice: every Ack and Nack finds
\* its delivery unacked.
THEOREM SettledOnce == ASSUME MaxConns = 1 PROVE Spec => []NoDoubleSettle
  <1>1. SteadyInv => NoDoubleSettle
    BY OneHandler DEF SteadyInv, AllOwned, Owned, Hand, NoDoubleSettle
  <1> QED
    BY SteadyInvariant, <1>1, PTL

\* While one session lasts no unacked delivery is forgotten.
THEOREM NothingLeaks == ASSUME MaxConns = 1 PROVE Spec => []NoLeakedDelivery
  <1>1. SteadyInv => NoLeakedDelivery
    BY OneHandler DEF SteadyInv, AllOwned, Owned, Hand, NoLeakedDelivery
  <1> QED
    BY SteadyInvariant, <1>1, PTL

\* While one session lasts a message is dropped for what it is, what the
\* workload said of it or what another message is, never for its own job.
THEOREM DropsAreEarned == ASSUME MaxConns = 1 PROVE Spec => []DiscardedWasRefused
  <1>1. DropInv => DiscardedWasRefused
    BY DEF DropInv
  <1> QED
    BY SteadyInvariant, <1>1, PTL

=============================================================================
