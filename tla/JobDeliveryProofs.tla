-------------------------- MODULE JobDeliveryProofs --------------------------
(* Proofs of the safety properties of JobDelivery for all its constants. *)
EXTENDS JobDelivery, FiniteSetTheorems, SequenceTheorems, TLAPS

-----------------------------------------------------------------------------
(* What single operators do *)

\* Every delivery is of a message, on a session.
LEMMA DeliveryTypes ==
  ASSUME PathType, NEW t \in Delivered
  PROVE  MsgOf(t) \in Messages /\ ConnOf(t) \in Conns /\ Id(t) \in Ids
  <1>1. deliv[t] \in [msg : Messages, conn : Conns]
    BY ElementOfSeq DEF PathType, Delivered
  <1> QED
    BY <1>1, MessagesAssumption DEF MsgOf, ConnOf, Id

\* basic.deliver appends to deliv: earlier deliveries keep their index.
LEMMA DeliverAppends ==
  ASSUME PathType, NEW m \in Messages, NEW c \in Conns, Deliver(m, c)
  PROVE  /\ deliv' \in Seq([msg : Messages, conn : Conns])
         /\ Len(deliv') = Len(deliv) + 1
         /\ Len(deliv) \in Nat
         /\ \A t \in Delivered : deliv'[t] = deliv[t]
         /\ deliv'[Len(deliv')] = [msg |-> m, conn |-> c]
  BY SMT DEF PathType, Deliver, Delivered

\* Ack and Nack only take away: deliveries from unacked, sessions, and
\* buffered deliveries; an unacked delivery they were not called on stays
\* unacked unless its session breaks.
LEMMA SettleEffect ==
  ASSUME PathType, NEW S, NEW how, Settle(S, how)
  PROVE  /\ deliv' = deliv
         /\ unacked' \subseteq unacked
         /\ queue' \subseteq Messages /\ acked' \subseteq Messages /\ discarded' \subseteq Messages
         /\ srvOpen' \subseteq srvOpen /\ cliOpen' \subseteq cliOpen /\ inbox' \subseteq inbox
         /\ \A t \in unacked \ S :
              ConnOf(t) \in srvOpen' /\ ConnOf(t) \in cliOpen' => t \in unacked'
         /\ \A m \in acked' : m \in acked \/ (how = "ack" /\ \E t \in S \cap unacked : m = MsgOf(t))
  <1> DEFINE live == {t \in S : ConnOf(t) \in cliOpen /\ ConnOf(t) \in srvOpen}
             ok == live \cap unacked
             broken == {ConnOf(t) : t \in live \ unacked}
             back == {t \in unacked \ ok : ConnOf(t) \in broken}
  <1>1. /\ unacked' = unacked \ (ok \cup back)
        /\ queue' = queue \cup MsgsOf(back) \cup (IF how = "requeue" THEN MsgsOf(ok) ELSE {})
        /\ acked' = acked \cup (IF how = "ack" THEN MsgsOf(ok) ELSE {})
        /\ discarded' = discarded \cup (IF how = "discard" THEN MsgsOf(ok) ELSE {})
        /\ srvOpen' = srvOpen \ broken
        /\ cliOpen' = cliOpen \ broken
        /\ inbox' = {t \in inbox : ConnOf(t) \notin broken}
        /\ deliv' = deliv
    BY DEF Settle, CloseAtClient
  <1>2. ok \subseteq S \cap unacked /\ back \subseteq unacked
    OBVIOUS
  <1>3. \A U : U \subseteq unacked => MsgsOf(U) \subseteq Messages
    BY DeliveryTypes DEF PathType, MsgsOf
  <1>4. queue' \subseteq Messages /\ acked' \subseteq Messages /\ discarded' \subseteq Messages
    <2>1. MsgsOf(ok) \subseteq Messages /\ MsgsOf(back) \subseteq Messages
      BY <1>2, <1>3
    <2> QED
      BY <1>1, <2>1 DEF PathType
  <1>5. \A t \in unacked \ S :
          ConnOf(t) \in srvOpen' /\ ConnOf(t) \in cliOpen' => t \in unacked'
    BY <1>1, <1>2
  <1>6. \A m \in acked' : m \in acked \/ (how = "ack" /\ \E t \in S \cap unacked : m = MsgOf(t))
    BY <1>1, <1>2 DEF MsgsOf
  <1> QED
    BY <1>1, <1>4, <1>5, <1>6

-----------------------------------------------------------------------------
(* Type correctness *)

\* A fresh queue and a fresh process have the types.
LEMMA InitTyped == Init => PathType
  <1> SUFFICES ASSUME Init PROVE PathType
    OBVIOUS
  <1>1. deliv \in Seq([msg : Messages, conn : Conns]) /\ Len(deliv) = 0
    BY EmptySeq DEF Init
  <1> QED
    BY <1>1, LimitsAssumption, SMT DEF Init, PathType, Delivered, HandlerStates, Conns, None

\* Ack and Nack keep the types.
LEMMA SettleTyped ==
  ASSUME PathType, NEW S, NEW how, Settle(S, how),
         conn' = conn, rpc' = rpc, hpc' \in [Conns -> HandlerStates],
         cur' \in [Conns -> Delivered \cup {None}],
         jobs' \in [Ids -> Delivered \cup {None}], aged' \subseteq Ids,
         settling' \subseteq settling, UNCHANGED workload
  PROVE  PathType'
  BY SettleEffect DEF PathType, Delivered, workload

\* Every action keeps the types; messageHandler's because it holds a delivery.
LEMMA NextTyped == PathType /\ HandlerHolds /\ [Next]_vars => PathType'
  <1> SUFFICES ASSUME PathType, HandlerHolds, [Next]_vars PROVE PathType'
    OBVIOUS
  <1> USE DEF server, handler, manifest, workload
  <1>1. ASSUME NEW m \in Messages, NEW c \in Conns, Deliver(m, c) PROVE PathType'
    <2>1. Len(deliv) < MaxDeliveries
      BY <1>1 DEF Deliver
    <2>0. Len(deliv') = Len(deliv) + 1 /\ Len(deliv) \in Nat
      BY <1>1, DeliverAppends
    <2>2. Delivered \subseteq Delivered' /\ Len(deliv') \in Delivered' /\ Len(deliv') <= MaxDeliveries
      BY <2>0, <2>1, LimitsAssumption DEF Delivered
    <2> QED
      BY <1>1, <2>2, DeliverAppends DEF Deliver, PathType
  <1>2. ASSUME NEW c \in Conns, ServerDrop(c) PROVE PathType'
    <2>1. MsgsOf({t \in unacked : ConnOf(t) \in {c}}) \subseteq Messages
      BY DeliveryTypes DEF PathType, MsgsOf
    <2> QED
      BY <1>2, <2>1 DEF ServerDrop, CloseAtServer, PathType, Delivered
  <1>3. ASSUME NEW c \in Conns, ClientDrop(c) PROVE PathType'
    BY <1>3 DEF ClientDrop, CloseAtClient, PathType, Delivered
  <1>4. ASSUME Reset PROVE PathType'
    BY <1>4 DEF Reset, CloseAtClient, PathType, Delivered
  <1>5. ASSUME CleanManifest PROVE PathType'
    BY <1>5 DEF CleanManifest, PathType, Delivered
  <1>6. ASSUME Connect PROVE PathType'
    BY <1>6, LimitsAssumption DEF Connect, PathType, Delivered, Conns, HandlerStates
  <1>7. ASSUME Restart PROVE PathType'
    <2>1. MsgsOf({t \in unacked : ConnOf(t) \in cliOpen}) \subseteq Messages
      BY DeliveryTypes DEF PathType, MsgsOf
    <2> QED
      BY <1>7, <2>1 DEF Restart, CloseAtServer, CloseAtClient, PathType, Delivered, HandlerStates
  <1>8. ASSUME NEW c \in Conns, Receive(c) PROVE PathType'
    BY <1>8 DEF Receive, Step, OnConn, PathType, Delivered, HandlerStates
  <1>9. ASSUME NEW c \in Conns, Insert(c) PROVE PathType'
    BY <1>9 DEF Insert, InsertJobWithDelivery, Step, PathType, Delivered, HandlerStates
  <1>10. ASSUME NEW c \in Conns, HandlerDiscard(c) PROVE PathType'
    <2>1. /\ hpc' \in [Conns -> HandlerStates] /\ cur' \in [Conns -> Delivered \cup {None}]
          /\ Settle({cur[c]}, "discard")
      BY <1>10 DEF HandlerDiscard, Back, Step, PathType, HandlerStates
    <2> QED
      BY <1>10, <2>1, SettleTyped DEF HandlerDiscard, PathType
  <1>11. ASSUME NEW c \in Conns, WorkloadReceives(c) PROVE PathType'
    <2>1. cur[c] \in Delivered
      BY <1>11 DEF WorkloadReceives, Step, HandlerHolds, Busy, HandlerStates, PathType
    <2>2. MsgOf(cur[c]) \in Messages
      BY <2>1, DeliveryTypes
    <2> QED
      BY <1>11, <2>2 DEF WorkloadReceives, Step, PathType, Delivered, HandlerStates
  <1>12. ASSUME NEW c \in Conns, TriggerOk(c) PROVE PathType'
    BY <1>12 DEF TriggerOk, Back, Step, PathType, Delivered, HandlerStates
  <1>13. ASSUME NEW c \in Conns, TriggerFail(c) PROVE PathType'
    BY <1>13 DEF TriggerFail, Step, PathType, Delivered, HandlerStates
  <1>14. ASSUME NEW c \in Conns, FailCheck(c) PROVE PathType'
    BY <1>14 DEF FailCheck, Without, Back, Step, PathType, Delivered, HandlerStates
  <1>15. ASSUME NEW c \in Conns, HandlerRequeue(c) PROVE PathType'
    <2>1. /\ hpc' \in [Conns -> HandlerStates] /\ cur' \in [Conns -> Delivered \cup {None}]
          /\ Settle({cur[c]}, "requeue")
      BY <1>15 DEF HandlerRequeue, Back, Step, PathType, HandlerStates
    <2> QED
      BY <1>15, <2>1, SettleTyped DEF HandlerRequeue, PathType
  <1>16. ASSUME NEW c \in Conns, Exit(c) PROVE PathType'
    BY <1>16 DEF Exit, Step, PathType, Delivered, HandlerStates
  <1>17. ASSUME NEW m \in Messages, JobAcknowledge(m) \/ JobReject(m) PROVE PathType'
    <2>1. PICK how \in Outcomes : TakeJob(m, how)
      BY <1>17 DEF JobAcknowledge, JobReject, Outcomes
    <2>2. IdOf[m] \in Ids /\ jobs[IdOf[m]] \in Delivered
      BY <2>1, MessagesAssumption DEF TakeJob, PathType
    <2>3. settling' \subseteq [tag : Delivered, how : Outcomes]
      BY <2>1, <2>2 DEF TakeJob, PathType
    <2>4. jobs' \in [Ids -> Delivered \cup {None}] /\ aged' \subseteq Ids
      BY <2>1 DEF TakeJob, Without, PathType
    <2>5. completed' \subseteq Messages /\ refused' \subseteq Messages
      BY <1>17 DEF JobAcknowledge, JobReject, PathType
    <2> QED
      BY <2>1, <2>3, <2>4, <2>5 DEF TakeJob, PathType, Delivered
  <1>18. ASSUME NEW s \in settling, HttpSettle(s) PROVE PathType'
    BY <1>18, SettleTyped DEF HttpSettle, PathType
  <1>19. ASSUME NEW id \in Ids, Age(id) PROVE PathType'
    BY <1>19 DEF Age, PathType, Delivered
  <1>20. ASSUME WatchdogTick PROVE PathType'
    <2>1. /\ jobs' \in [Ids -> Delivered \cup {None}]
          /\ Settle({jobs[id] : id \in aged}, "requeue")
      BY <1>20 DEF WatchdogTick, PathType
    <2> QED
      BY <1>20, <2>1, SettleTyped DEF WatchdogTick, PathType
  <1>21. CASE UNCHANGED vars
    BY <1>21 DEF vars, PathType, Delivered
  <1> QED
    BY <1>1, <1>2, <1>3, <1>4, <1>5, <1>6, <1>7, <1>8, <1>9, <1>10, <1>11, <1>12, <1>13,
       <1>14, <1>15, <1>16, <1>17, <1>18, <1>19, <1>20, <1>21
       DEF Next, Network, Routine, Handler, Http, JobWatchdog

\* A handler at work holds a delivery of its own session.
LEMMA NextHolds == PathType /\ HandlerHolds /\ [Next]_vars => HandlerHolds'
  <1> SUFFICES ASSUME PathType, HandlerHolds, [Next]_vars,
                      NEW k \in Conns, (hpc[k] \in Busy)'
               PROVE  (cur[k] # None /\ ConnOf(cur[k]) = k)'
    BY DEF HandlerHolds
  <1> USE DEF Busy, HandlerStates, ConnOf, server, handler, manifest, workload
  <1>1. ASSUME hpc'[k] = hpc[k], cur'[k] = cur[k], deliv' = deliv
        PROVE  (cur[k] # None /\ ConnOf(cur[k]) = k)'
    BY <1>1 DEF HandlerHolds
  <1>2. ASSUME NEW m \in Messages, NEW c \in Conns, Deliver(m, c)
        PROVE  (cur[k] # None /\ ConnOf(cur[k]) = k)'
    <2>1. hpc' = hpc /\ cur' = cur
      BY <1>2 DEF Deliver
    <2>2. cur[k] \in Delivered /\ ConnOf(cur[k]) = k /\ cur[k] # None
      BY <2>1 DEF HandlerHolds, PathType
    <2>3. deliv'[cur[k]] = deliv[cur[k]]
      BY <1>2, <2>2, DeliverAppends
    <2> QED
      BY <2>1, <2>2, <2>3
  <1>3. ASSUME NEW c \in Conns, Handler(c)
        PROVE  (cur[k] # None /\ ConnOf(cur[k]) = k)'
    <2>1. deliv' = deliv
      BY <1>3 DEF Handler, Receive, Insert, HandlerDiscard, WorkloadReceives, TriggerOk,
                  TriggerFail, FailCheck, HandlerRequeue, Exit, Settle
    <2>2. CASE Receive(c)
      <3>1. PICK t \in inbox : /\ ConnOf(t) = c
                               /\ cur' = [cur EXCEPT ![c] = t]
        BY <2>2 DEF Receive, OnConn
      <3>2. t # None /\ \A n \in Conns \ {c} : hpc'[n] = hpc[n]
        BY <2>2 DEF Receive, Step, PathType, Delivered, None
      <3> QED
        BY <2>1, <3>1, <3>2, <1>1 DEF PathType
    <2>3. CASE ~Receive(c)
      <3>1. \/ hpc'[c] \notin Busy
            \/ cur'[c] = cur[c] /\ hpc[c] \in Busy
        BY <1>3, <2>3 DEF Handler, Insert, HandlerDiscard, WorkloadReceives, TriggerOk,
             TriggerFail, FailCheck, HandlerRequeue, Exit, Step, Back, PathType
      <3>2. \A n \in Conns \ {c} : hpc'[n] = hpc[n] /\ cur'[n] = cur[n]
        BY <1>3, <2>3 DEF Handler, Insert, HandlerDiscard, WorkloadReceives, TriggerOk,
             TriggerFail, FailCheck, HandlerRequeue, Exit, Step, Back, PathType
      <3> QED
        BY <2>1, <3>1, <3>2, <1>1 DEF HandlerHolds
    <2> QED
      BY <2>2, <2>3
  <1>4. ASSUME NEW c \in Conns, ServerDrop(c) \/ ClientDrop(c)
        PROVE  (cur[k] # None /\ ConnOf(cur[k]) = k)'
    BY <1>1, <1>4 DEF ServerDrop, ClientDrop, CloseAtServer
  <1>5. ASSUME Reset \/ CleanManifest
        PROVE  (cur[k] # None /\ ConnOf(cur[k]) = k)'
    BY <1>1, <1>5 DEF Reset, CleanManifest
  <1>6. ASSUME Connect
        PROVE  (cur[k] # None /\ ConnOf(cur[k]) = k)'
    <2>1. hpc'[k] = hpc[k] /\ cur' = cur /\ deliv' = deliv
      BY <1>6 DEF Connect, PathType
    <2> QED
      BY <1>1, <2>1
  <1>7. ASSUME Restart
        PROVE  (cur[k] # None /\ ConnOf(cur[k]) = k)'
    BY <1>7 DEF Restart
  <1>8. ASSUME Http \/ JobWatchdog \/ UNCHANGED vars
        PROVE  (cur[k] # None /\ ConnOf(cur[k]) = k)'
    <2>1. hpc' = hpc /\ cur' = cur /\ deliv' = deliv
      BY <1>8 DEF Http, JobWatchdog, JobAcknowledge, JobReject, TakeJob, HttpSettle,
                  Age, WatchdogTick, Settle, vars
    <2> QED
      BY <1>1, <2>1
  <1> QED
    BY <1>2, <1>3, <1>4, <1>5, <1>6, <1>7, <1>8 DEF Next, Network, Routine

\* The types of a message's path, at every step of every behaviour.
LEMMA PathTyped == Spec => []PathType
  <1>1. Init => HandlerHolds
    BY DEF Init, HandlerHolds, Busy
  <1> QED
    BY <1>1, InitTyped, NextTyped, NextHolds, PTL DEF Spec

-----------------------------------------------------------------------------
(* Deliveries, keys and sessions *)

\* A delivery keeps its message and session for ever.
LEMMA DeliveriesLast ==
  ASSUME PathType, [Next]_vars, NEW t \in Delivered
  PROVE  t \in Delivered' /\ deliv'[t] = deliv[t]
  <1>1. ASSUME NEW m \in Messages, NEW c \in Conns, Deliver(m, c)
        PROVE  t \in Delivered' /\ deliv'[t] = deliv[t]
    <2>1. /\ Len(deliv') = Len(deliv) + 1 /\ Len(deliv) \in Nat
          /\ deliv'[t] = deliv[t]
      BY <1>1, DeliverAppends
    <2> QED
      BY <2>1 DEF Delivered
  <1>2. ASSUME deliv' = deliv
        PROVE  t \in Delivered' /\ deliv'[t] = deliv[t]
    BY <1>2 DEF Delivered
  <1>3. \/ \E m \in Messages, c \in Conns : Deliver(m, c)
        \/ deliv' = deliv
    BY DEF Next, Network, ServerDrop, ClientDrop, CloseAtServer, Routine, Reset, CleanManifest,
       Connect, Restart, Handler, Receive, Insert, HandlerDiscard, WorkloadReceives, TriggerOk,
       TriggerFail, FailCheck, HandlerRequeue, Exit, Http, JobAcknowledge, JobReject, TakeJob,
       HttpSettle, JobWatchdog, Age, WatchdogTick, Settle, vars, server
  <1> QED
    BY <1>1, <1>2, <1>3

\* Only Insert adds to the manifest, and only where no job is.
LEMMA ManifestSteps ==
  ASSUME PathType, [Next]_vars
  PROVE  \/ \E c \in Conns : Insert(c) /\ jobs[Id(cur[c])] = None
                             /\ jobs' = [jobs EXCEPT ![Id(cur[c])] = cur[c]]
         \/ \A id \in Ids : jobs'[id] \in {jobs[id], None}
  BY DEF Next, Network, Deliver, ServerDrop, ClientDrop, Routine, Reset, CleanManifest,
     Connect, Restart, Handler, Receive, Insert, InsertJobWithDelivery, HandlerDiscard,
     WorkloadReceives, TriggerOk, TriggerFail, FailCheck, HandlerRequeue, Exit, Http,
     JobAcknowledge, JobReject, TakeJob, HttpSettle, JobWatchdog, Age, WatchdogTick, Without,
     vars, manifest, PathType

\* messageHandler: no job is overwritten.
THEOREM NeverOverwritten == Spec => NoOverwrite
  <1>1. ASSUME PathType, [Next]_vars
        PROVE  \A id \in Ids : jobs[id] # None => jobs'[id] \in {jobs[id], None}
    BY <1>1, ManifestSteps DEF PathType
  <1>2. PathType /\ [Next]_vars
        => [\A id \in Ids : jobs[id] # None => jobs'[id] \in {jobs[id], None}]_vars
    BY <1>1
  <1> QED
    BY <1>2, PathTyped, PTL DEF Spec, NoOverwrite

\* InsertJobWithDelivery keys a job by the id of its own delivery.
LEMMA NextKeys == PathType /\ HandlerHolds /\ KeysMatch /\ [Next]_vars => KeysMatch'
  <1> SUFFICES ASSUME PathType, HandlerHolds, KeysMatch, [Next]_vars,
                      NEW id \in Ids, jobs'[id] # None
               PROVE  Id(jobs[id])' = id
    BY DEF KeysMatch
  <1>1. CASE jobs'[id] = jobs[id]
    <2>1. jobs[id] \in Delivered /\ Id(jobs[id]) = id
      BY <1>1 DEF KeysMatch, PathType
    <2> QED
      BY <1>1, <2>1, DeliveriesLast DEF Id, MsgOf
  <1>2. ASSUME NEW c \in Conns, Insert(c), jobs' = [jobs EXCEPT ![Id(cur[c])] = cur[c]],
               jobs'[id] # jobs[id]
        PROVE  Id(jobs[id])' = id
    BY <1>2 DEF Insert, server, Id, MsgOf, PathType
  <1> QED
    BY <1>1, <1>2, ManifestSteps DEF PathType

\* amqpConnectRoutine numbers sessions upwards: none lies ahead of conn.
LEMMA NextSessions == PathType /\ SessionsPast /\ [Next]_vars => SessionsPast'
  <1> SUFFICES ASSUME PathType, SessionsPast, [Next]_vars PROVE SessionsPast'
    OBVIOUS
  <1> USE DEF SessionsPast
  <1>1. conn \in Nat /\ conn' \in Nat /\ conn <= conn'
        /\ (srvOpen' \cup cliOpen' \subseteq srvOpen \cup cliOpen \/ Connect)
    <2>1. conn \in Nat
      BY LimitsAssumption DEF PathType
    <2>2. CASE Connect
      BY <2>1, <2>2 DEF Connect
    <2>3. CASE ~Connect
      <3>1. conn' = conn
        BY <2>3 DEF Next, Network, Deliver, ServerDrop, ClientDrop, Routine, Reset, CleanManifest,
           Restart, Handler, Receive, Insert, HandlerDiscard, WorkloadReceives, TriggerOk,
           TriggerFail, FailCheck, HandlerRequeue, Exit, Http, JobAcknowledge, JobReject, TakeJob,
           HttpSettle, JobWatchdog, Age, WatchdogTick, vars
      <3>2. srvOpen' \subseteq srvOpen /\ cliOpen' \subseteq cliOpen
        BY <2>3 DEF Next, Network, Deliver, ServerDrop, ClientDrop, Routine, Reset, CleanManifest,
           Restart, Handler, Receive, Insert, HandlerDiscard, WorkloadReceives, TriggerOk,
           TriggerFail, FailCheck, HandlerRequeue, Exit, Http, JobAcknowledge, JobReject, TakeJob,
           HttpSettle, JobWatchdog, Age, WatchdogTick, vars, server, Settle, CloseAtServer,
           CloseAtClient
      <3> QED
        BY <2>1, <3>1, <3>2
    <2> QED
      BY <2>2, <2>3
  <1>2. srvOpen' \cup cliOpen' \subseteq 1..conn'
    BY <1>1 DEF Connect
  <1>3. ASSUME NEW t \in Delivered' PROVE (ConnOf(t) <= conn)'
    <2>1. CASE t \in Delivered
      <3>1. ConnOf(t)' = ConnOf(t) /\ ConnOf(t) \in Conns
        BY <2>1, DeliveriesLast, DeliveryTypes DEF ConnOf
      <3> QED
        BY <1>1, <2>1, <3>1 DEF Conns
    <2>2. CASE t \notin Delivered
      <3>1. PICK m \in Messages, c \in Conns : Deliver(m, c)
        BY <2>2, <1>3 DEF Next, Network, ServerDrop, ClientDrop, CloseAtServer, Routine, Reset,
           CleanManifest, Connect, Restart, Handler, Receive, Insert, HandlerDiscard,
           WorkloadReceives, TriggerOk, TriggerFail, FailCheck, HandlerRequeue, Exit, Http,
           JobAcknowledge, JobReject, TakeJob, HttpSettle, JobWatchdog, Age, WatchdogTick,
           Settle, vars, server, Delivered
      <3>0. /\ Len(deliv') = Len(deliv) + 1 /\ Len(deliv) \in Nat
            /\ deliv'[Len(deliv')] = [msg |-> m, conn |-> c]
        BY <3>1, DeliverAppends
      <3>2. t = Len(deliv')
        BY <2>2, <3>0, <1>3 DEF Delivered
      <3>3. deliv'[t].conn = c
        BY <3>0, <3>2
      <3>4. c \in srvOpen /\ conn' = conn
        BY <3>1 DEF Deliver
      <3> QED
        BY <3>3, <3>4, <1>1 DEF ConnOf
    <2> QED
      BY <2>1, <2>2
  <1> QED
    BY <1>2, <1>3

-----------------------------------------------------------------------------
(* Ownership *)

\* A step that hands no delivery on keeps OneOwner.
LEMMA OwnersShrink ==
  ASSUME PathType, HandlerHolds, OneOwner,
         inbox' \subseteq inbox, settling' \subseteq settling,
         \A id \in Ids : jobs'[id] \in {jobs[id], None},
         \A c \in Conns : hpc'[c] \in Busy =>
           /\ cur'[c] = cur[c] /\ hpc[c] \in Busy
           /\ hpc'[c] \in {"insert", "discard"} => hpc[c] \in {"insert", "discard"}
           /\ hpc'[c] = "requeue" => \A id \in Ids : jobs'[id] # cur[c]
  PROVE  OneOwner'
  <1>1. \A t \in inbox \cup SettlingTags : t # None
    BY DEF PathType, Delivered, None, SettlingTags
  <1>2. \A c \in Conns : hpc[c] \in Busy => cur[c] # None
    BY DEF HandlerHolds
  <1>3. \A x \in {"insert", "discard", "requeue"} : x \in Busy
    BY DEF Busy, HandlerStates
  <1> QED
    BY <1>1, <1>2, <1>3 DEF OneOwner, SettlingTags

\* Different sessions' handlers hold different deliveries.
LEMMA HandsDiffer ==
  ASSUME HandlerHolds, NEW c \in Conns, NEW k \in Conns, c # k,
         hpc[c] \in Busy, hpc[k] \in Busy
  PROVE  cur[c] # cur[k]
  BY DEF HandlerHolds

\* messageHandler, the endpoints and the watchdog hand each delivery on to
\* one owner at a time.
LEMMA NextOwners ==
  PathType /\ HandlerHolds /\ KeysMatch /\ OneOwner /\ [Next]_vars => OneOwner'
  <1> SUFFICES ASSUME PathType, HandlerHolds, KeysMatch, OneOwner, [Next]_vars PROVE OneOwner'
    OBVIOUS
  <1> USE DEF server, handler, manifest, workload
  <1>1. ASSUME NEW m \in Messages, NEW c \in Conns, Deliver(m, c) PROVE OneOwner'
    <2>1. Len(deliv') = Len(deliv) + 1 /\ Len(deliv) \in Nat
      BY <1>1, DeliverAppends
    <2>2. Len(deliv') \notin Delivered \cup {None}
      BY <2>1 DEF Delivered, None
    <2>3. /\ inbox' \subseteq inbox \cup {Len(deliv')}
          /\ jobs' = jobs /\ settling' = settling /\ hpc' = hpc /\ cur' = cur
      BY <1>1 DEF Deliver
    <2> HIDE DEF server, handler, manifest, workload
    <2>4. /\ \A id \in Ids : jobs[id] # Len(deliv')
          /\ \A s \in settling : s.tag # Len(deliv')
          /\ \A k \in Conns : cur[k] # Len(deliv')
      BY <2>2 DEF PathType
    <2> QED
      BY <2>3, <2>4 DEF OneOwner
  <1>2. ASSUME Network \/ Routine \/ JobWatchdog \/ UNCHANGED vars,
               \A m \in Messages, c \in Conns : ~Deliver(m, c)
        PROVE  OneOwner'
    <2>1. inbox' \subseteq inbox /\ settling' \subseteq settling
      BY <1>2 DEF Network, ServerDrop, ClientDrop, CloseAtClient, Routine, Reset,
         CleanManifest, Connect, Restart, JobWatchdog, Age, WatchdogTick, Settle, vars
    <2>2. \A id \in Ids : jobs'[id] \in {jobs[id], None}
      BY <1>2 DEF Network, ServerDrop, ClientDrop, Routine, Reset,
         CleanManifest, Connect, Restart, JobWatchdog, Age, WatchdogTick, vars
    <2>3. \A c \in Conns : hpc'[c] \in Busy => cur'[c] = cur[c] /\ hpc'[c] = hpc[c]
      BY <1>2 DEF Network, ServerDrop, ClientDrop, Routine, Reset, CleanManifest, Connect,
         Restart, JobWatchdog, Age, WatchdogTick, vars, Busy, PathType
    <2>4. \A c \in Conns : hpc'[c] = "requeue" => \A id \in Ids : jobs'[id] # cur[c]
      <3>1. \A c \in Conns : hpc'[c] = "requeue" => hpc[c] = "requeue" /\ cur[c] # None
        BY <2>3 DEF Busy, HandlerStates, HandlerHolds
      <3> QED
        BY <2>2, <3>1 DEF OneOwner
    <2> QED
      BY <2>1, <2>2, <2>3, <2>4, OwnersShrink
  <1>3. ASSUME NEW c \in Conns, Receive(c) PROVE OneOwner'
    <2>1. PICK t \in inbox : /\ cur' = [cur EXCEPT ![c] = t]
                             /\ inbox' = inbox \ {t}
      BY <1>3 DEF Receive, OnConn
    <2>2. /\ jobs' = jobs /\ settling' = settling
          /\ \A k \in Conns \ {c} : hpc'[k] = hpc[k] /\ cur'[k] = cur[k]
          /\ cur'[c] = t
      BY <1>3, <2>1 DEF Receive, Step, PathType
    <2> QED
      BY <2>1, <2>2 DEF OneOwner
  <1>4. ASSUME NEW c \in Conns, Insert(c), jobs' = [jobs EXCEPT ![Id(cur[c])] = cur[c]]
        PROVE  OneOwner'
    <2>1. /\ inbox' = inbox /\ settling' = settling /\ cur' = cur
          /\ hpc[c] = "insert" /\ hpc'[c] \in {"trigger", "discard"}
          /\ \A k \in Conns \ {c} : hpc'[k] = hpc[k]
      BY <1>4 DEF Insert, Step, PathType
    <2>2. \A id \in Ids : jobs'[id] \in {jobs[id], cur[c]}
      BY <1>4 DEF PathType
    <2>3. \A x \in {"insert", "discard", "requeue", "trigger"} : x \in Busy
      BY DEF Busy, HandlerStates
    <2>4. \A k \in Conns \ {c} : hpc[k] \in Busy => cur[k] # cur[c]
      BY <2>1, <2>3, HandsDiffer
    <2>5. hpc'[c] = "discard" => jobs' = jobs
      BY <1>4 DEF Insert, Step, PathType
    <2> QED
      BY <2>1, <2>2, <2>3, <2>4, <2>5 DEF OneOwner
  <1>5. ASSUME NEW c \in Conns, Handler(c), ~Receive(c),
               \A id \in Ids : jobs'[id] \in {jobs[id], None}
        PROVE  OneOwner'
    <2>1. inbox' \subseteq inbox /\ settling' = settling
      BY <1>5 DEF Handler, Insert, HandlerDiscard, WorkloadReceives, TriggerOk,
         TriggerFail, FailCheck, HandlerRequeue, Exit, Settle, CloseAtClient
    <2>2. \A k \in Conns \ {c} : hpc'[k] = hpc[k] /\ cur'[k] = cur[k]
      BY <1>5 DEF Handler, Insert, HandlerDiscard, WorkloadReceives, TriggerOk,
         TriggerFail, FailCheck, HandlerRequeue, Exit, Step, Back, PathType
    <2>3. hpc'[c] \in Busy =>
            /\ cur'[c] = cur[c] /\ hpc[c] \in Busy
            /\ hpc'[c] \in {"insert", "discard"} => hpc[c] \in {"insert", "discard"}
            /\ hpc'[c] = "requeue" => FailCheck(c) /\ hpc[c] = "fail"
      BY <1>5 DEF Handler, Insert, HandlerDiscard, WorkloadReceives, TriggerOk, Busy,
         TriggerFail, FailCheck, HandlerRequeue, Exit, Step, Back, PathType, HandlerStates
    <2>4. ASSUME hpc'[c] = "requeue" PROVE \A id \in Ids : jobs'[id] # cur[c]
      <3>1. FailCheck(c) /\ cur[c] # None
        BY <2>3, <2>4 DEF Busy, HandlerStates, HandlerHolds
      <3>2. jobs' = [jobs EXCEPT ![Id(cur[c])] = None]
        BY <2>4, <3>1 DEF FailCheck, Back, Step, Without, PathType
      <3> QED
        BY <3>1, <3>2 DEF KeysMatch, PathType
    <2>5. \A k \in Conns \ {c} : hpc[k] = "requeue" => \A id \in Ids : jobs'[id] # cur[k]
      BY <1>5 DEF OneOwner, HandlerHolds, Busy, HandlerStates
    <2> QED
      BY <1>5, <2>1, <2>2, <2>3, <2>4, <2>5, OwnersShrink
  <1>6. ASSUME NEW m \in Messages, JobAcknowledge(m) \/ JobReject(m) PROVE OneOwner'
    <2>1. PICK how \in Outcomes : TakeJob(m, how)
      BY <1>6 DEF JobAcknowledge, JobReject, Outcomes
    <2>2. IdOf[m] \in Ids /\ jobs[IdOf[m]] # None
      BY <2>1, MessagesAssumption DEF TakeJob
    <2>3. /\ \A s \in settling' : s \in settling \/ s.tag = jobs[IdOf[m]]
          /\ jobs' = [jobs EXCEPT ![IdOf[m]] = None]
          /\ hpc' = hpc /\ cur' = cur /\ inbox' = inbox
      BY <2>1 DEF TakeJob, Without
    <2>4. \A id \in Ids : jobs'[id] # jobs[IdOf[m]]
      BY <2>2, <2>3 DEF KeysMatch, PathType
    <2>5. \A id \in Ids : jobs'[id] \in {jobs[id], None}
      BY <2>3 DEF PathType
    <2>6. \A t \in inbox \cup SettlingTags : t # None
      BY DEF PathType, Delivered, None, SettlingTags
    <2>7. \A k \in Conns : hpc[k] \in {"insert", "discard", "requeue"} => cur[k] # None
      BY DEF HandlerHolds, Busy, HandlerStates
    <2> QED
      BY <2>2, <2>3, <2>4, <2>5, <2>6, <2>7 DEF OneOwner, SettlingTags
  <1>7. ASSUME NEW s \in settling, HttpSettle(s) PROVE OneOwner'
    <2>1. /\ inbox' \subseteq inbox /\ settling' \subseteq settling
          /\ hpc' = hpc /\ cur' = cur /\ jobs' = jobs
      BY <1>7 DEF HttpSettle, Settle, CloseAtClient
    <2> QED
      BY <2>1 DEF OneOwner
  <1>8. ASSUME NEW c \in Conns, Handler(c) PROVE OneOwner'
    <2>1. \/ Insert(c) /\ jobs' = [jobs EXCEPT ![Id(cur[c])] = cur[c]]
          \/ \A id \in Ids : jobs'[id] \in {jobs[id], None}
      BY <1>8 DEF Handler, Receive, Insert, InsertJobWithDelivery, HandlerDiscard, WorkloadReceives,
         TriggerOk, TriggerFail, FailCheck, HandlerRequeue, Exit, Without, PathType
    <2> QED
      BY <1>3, <1>4, <1>5, <1>8, <2>1
  <1> QED
    BY <1>1, <1>2, <1>6, <1>7, <1>8 DEF Next, Http

-----------------------------------------------------------------------------
(* What waits for its first settlement is unacked *)

Waiting == inbox \cup JobTags \cup InHand({"insert", "discard"})

\* Backed, said of the set of deliveries that wait.
LEMMA WaitingUnacked ==
  ASSUME PathType, HandlerHolds
  PROVE  Backed <=> \A t \in Waiting : Live(t) => t \in unacked
  BY DEF Backed, Waiting, JobTags, InHand, HandlerHolds

\* Only real deliveries wait.
LEMMA WaitingTyped ==
  ASSUME PathType, HandlerHolds
  PROVE  Waiting \subseteq Delivered
  BY DEF Waiting, JobTags, InHand, HandlerHolds, Busy, HandlerStates, PathType

\* A step that makes no delivery wait and no session come back to life, and
\* settles nothing that goes on waiting, keeps Backed.
LEMMA WaitingShrinks ==
  ASSUME PathType, HandlerHolds, Backed, PathType', HandlerHolds', deliv' = deliv,
         Waiting' \subseteq Waiting,
         \A t \in Waiting' : Live(t)' => Live(t),
         \A t \in Waiting' \cap unacked : Live(t)' => t \in unacked'
  PROVE  Backed'
  <1>1. \A t \in Waiting : Live(t) => t \in unacked
    BY WaitingUnacked
  <1>2. \A t \in Waiting' : Live(t)' => t \in unacked'
    BY <1>1
  <1>3. Backed' <=> \A t \in Waiting' : Live(t)' => t \in unacked'
    BY DEF Backed, Waiting, JobTags, InHand, HandlerHolds, Live, ConnOf
  <1> QED
    BY <1>2, <1>3

\* Ack or Nack of the deliveries S when none of S goes on waiting.
LEMMA SettleBacked ==
  ASSUME PathType, HandlerHolds, Backed, PathType', HandlerHolds',
         NEW S, NEW how, Settle(S, how),
         Waiting' \subseteq Waiting, Waiting' \cap S = {}
  PROVE  Backed'
  <1>1. /\ deliv' = deliv /\ srvOpen' \subseteq srvOpen /\ cliOpen' \subseteq cliOpen
        /\ \A t \in unacked \ S :
              ConnOf(t) \in srvOpen' /\ ConnOf(t) \in cliOpen' => t \in unacked'
    BY SettleEffect
  <1>2. \A t : ConnOf(t)' = ConnOf(t)
    BY <1>1 DEF ConnOf
  <1> QED
    BY <1>1, <1>2, WaitingShrinks DEF Live

\* No action of AMPS or RabbitMQ takes an unacked delivery from under its
\* owner while the session is open: Ack and Nack are called by owners only.
LEMMA NextBacked ==
  ASSUME PathType, HandlerHolds, KeysMatch, SessionsPast, OneOwner, Backed, [Next]_vars,
         PathType', HandlerHolds'
  PROVE  Backed'
  <1> USE DEF server, handler, manifest, workload
  <1>1. ASSUME NEW m \in Messages, NEW c \in Conns, Deliver(m, c) PROVE Backed'
    <2>1. /\ jobs' = jobs /\ hpc' = hpc /\ cur' = cur /\ srvOpen' = srvOpen /\ cliOpen' = cliOpen
          /\ inbox' \subseteq inbox \cup {Len(deliv')}
          /\ unacked' = unacked \cup {Len(deliv')}
      BY <1>1 DEF Deliver
    <2>2. Waiting' \subseteq Waiting \cup {Len(deliv')}
      BY <2>1 DEF Waiting, JobTags, InHand
    <2>3. \A t \in Delivered : deliv'[t] = deliv[t]
      BY <1>1, DeliverAppends
    <2>4. \A t \in Waiting : Live(t)' => Live(t)
      BY <2>1, <2>3, WaitingTyped DEF Live, ConnOf
    <2>5. \A t \in Waiting' : Live(t)' => t \in unacked'
      BY <2>1, <2>2, <2>4, WaitingUnacked
    <2>6. Backed' <=> \A t \in Waiting' : Live(t)' => t \in unacked'
      BY DEF Backed, Waiting, JobTags, InHand, HandlerHolds, Live, ConnOf
    <2> QED
      BY <2>5, <2>6
  <1>2. ASSUME NEW cs, CloseAtServer(cs), cliOpen' \subseteq cliOpen, Waiting' \subseteq Waiting
        PROVE  Backed'
    <2>1. deliv' = deliv /\ srvOpen' = srvOpen \ cs
          /\ unacked' = unacked \ {t \in unacked : ConnOf(t) \in cs}
      BY <1>2 DEF CloseAtServer
    <2>2. \A t : ConnOf(t)' = ConnOf(t)
      BY <2>1 DEF ConnOf
    <2> QED
      BY <1>2, <2>1, <2>2, WaitingShrinks DEF Live
  <1>3. ASSUME NEW c \in Conns, ServerDrop(c) PROVE Backed'
    <2>1. CloseAtServer({c}) /\ cliOpen' = cliOpen /\ Waiting' = Waiting
      BY <1>3 DEF ServerDrop, Waiting, JobTags, InHand
    <2> QED
      BY <1>2, <2>1
  <1>4. ASSUME Restart PROVE Backed'
    <2>1. CloseAtServer(cliOpen) /\ cliOpen' \subseteq cliOpen /\ Waiting' \subseteq Waiting
      BY <1>4 DEF Restart, CloseAtClient, Waiting, JobTags, InHand
    <2> QED
      BY <1>2, <2>1
  <1>5. ASSUME Connect PROVE Backed'
    <2>1. /\ deliv' = deliv /\ unacked' = unacked /\ jobs' = jobs /\ inbox' = inbox /\ cur' = cur
          /\ srvOpen' = srvOpen \cup {conn + 1} /\ cliOpen' = cliOpen \cup {conn + 1}
          /\ \A k \in Conns : hpc'[k] \in {"insert", "discard"} => hpc'[k] = hpc[k]
      BY <1>5 DEF Connect, PathType
    <2>2. Waiting' \subseteq Waiting
      BY <2>1 DEF Waiting, JobTags, InHand
    <2>3. \A t \in Delivered : ConnOf(t) # conn + 1
      BY DeliveryTypes, LimitsAssumption DEF SessionsPast, PathType, Conns
    <2>4. \A t \in Waiting' : Live(t)' => Live(t)
      BY <2>1, <2>2, <2>3, WaitingTyped DEF Live, ConnOf
    <2> QED
      BY <2>1, <2>2, <2>4, WaitingShrinks
  <1>6. ASSUME deliv' = deliv, unacked' = unacked, srvOpen' \subseteq srvOpen,
               cliOpen' \subseteq cliOpen, Waiting' \subseteq Waiting
        PROVE  Backed'
    <2>1. \A t : ConnOf(t)' = ConnOf(t)
      BY <1>6 DEF ConnOf
    <2> QED
      BY <1>6, <2>1, WaitingShrinks DEF Live
  <1>7. ASSUME \E c \in Conns : ClientDrop(c) PROVE Backed'
    <2>1. Waiting' \subseteq Waiting
      BY <1>7 DEF ClientDrop, CloseAtClient, Waiting, JobTags, InHand
    <2> QED
      BY <1>6, <1>7, <2>1 DEF ClientDrop, CloseAtClient
  <1>8. ASSUME Reset \/ CleanManifest PROVE Backed'
    <2>1. Waiting' \subseteq Waiting
      BY <1>8 DEF Reset, CleanManifest, CloseAtClient, Waiting, JobTags, InHand
    <2> QED
      BY <1>6, <1>8, <2>1 DEF Reset, CleanManifest, CloseAtClient
  <1>9. ASSUME NEW c \in Conns, Receive(c) PROVE Backed'
    <2>1. PICK t \in inbox : inbox' = inbox \ {t} /\ cur' = [cur EXCEPT ![c] = t]
      BY <1>9 DEF Receive, OnConn
    <2>2. \A k \in Conns \ {c} : hpc'[k] = hpc[k] /\ cur'[k] = cur[k]
      BY <1>9, <2>1 DEF Receive, Step, PathType
    <2>3. jobs' = jobs /\ cur'[c] = t
      BY <1>9, <2>1 DEF Receive, PathType
    <2>4. Waiting' \subseteq Waiting
      BY <2>1, <2>2, <2>3 DEF Waiting, JobTags, InHand
    <2> QED
      BY <1>6, <1>9, <2>4 DEF Receive
  <1>10. ASSUME NEW c \in Conns, Insert(c) PROVE Backed'
    <2>1. /\ inbox' = inbox /\ cur' = cur /\ hpc[c] = "insert"
          /\ \A k \in Conns \ {c} : hpc'[k] = hpc[k]
          /\ \A id \in Ids : jobs'[id] \in {jobs[id], cur[c]}
      BY <1>10 DEF Insert, InsertJobWithDelivery, Step, PathType
    <2>2. Waiting' \subseteq Waiting
      BY <2>1 DEF Waiting, JobTags, InHand
    <2> QED
      BY <1>6, <1>10, <2>2 DEF Insert
  <1>11. ASSUME NEW c \in Conns,
                WorkloadReceives(c) \/ TriggerOk(c) \/ TriggerFail(c) \/ FailCheck(c) \/ Exit(c)
         PROVE  Backed'
    <2>1. /\ inbox' = inbox
          /\ \A k \in Conns : hpc'[k] \in {"insert", "discard"} => hpc'[k] = hpc[k] /\ cur'[k] = cur[k]
          /\ \A id \in Ids : jobs'[id] \in {jobs[id], None}
      BY <1>11 DEF WorkloadReceives, TriggerOk, TriggerFail, FailCheck, Exit, Step, Back, Without,
         PathType
    <2>2. Waiting' \subseteq Waiting
      BY <2>1 DEF Waiting, JobTags, InHand
    <2> QED
      BY <1>6, <1>11, <2>2 DEF WorkloadReceives, TriggerOk, TriggerFail, FailCheck, Exit
  <1>12. ASSUME NEW c \in Conns, NEW how, Settle({cur[c]}, how), hpc[c] \in {"discard", "requeue"},
                Back(c, hpc[c]), jobs' = jobs
         PROVE  Backed'
    <2>1. inbox' \subseteq inbox
      BY <1>12, SettleEffect
    <2>2. /\ \A k \in Conns \ {c} : hpc'[k] = hpc[k] /\ cur'[k] = cur[k]
          /\ hpc'[c] = "idle"
      BY <1>12 DEF Back, Step, PathType
    <2>3. Waiting' \subseteq Waiting
      BY <1>12, <2>1, <2>2 DEF Waiting, JobTags, InHand
    <2>4. \A x \in {"insert", "discard", "requeue"} : x \in Busy
      BY DEF Busy, HandlerStates
    <2>5. cur[c] \notin inbox \cup JobTags
      BY <1>12, <2>4 DEF OneOwner, JobTags
    <2>6. \A k \in Conns \ {c} : hpc[k] \in {"insert", "discard"} => cur[k] # cur[c]
      BY <1>12, <2>4, HandsDiffer
    <2>7. cur[c] \notin Waiting'
      BY <1>12, <2>1, <2>2, <2>5, <2>6 DEF Waiting, JobTags, InHand
    <2> QED
      BY <1>12, <2>3, <2>7, SettleBacked
  <1>13. ASSUME NEW c \in Conns, HandlerDiscard(c) \/ HandlerRequeue(c) PROVE Backed'
    <2>1. \/ hpc[c] = "discard" /\ Settle({cur[c]}, "discard")
          \/ hpc[c] = "requeue" /\ Settle({cur[c]}, "requeue")
      BY <1>13 DEF HandlerDiscard, HandlerRequeue, Back, Step
    <2>2. Back(c, hpc[c]) /\ jobs' = jobs
      BY <1>13 DEF HandlerDiscard, HandlerRequeue, Back, Step
    <2> QED
      BY <1>12, <2>1, <2>2
  <1>14. ASSUME NEW m \in Messages, JobAcknowledge(m) \/ JobReject(m) PROVE Backed'
    <2>1. PICK how \in Outcomes : TakeJob(m, how)
      BY <1>14 DEF JobAcknowledge, JobReject, Outcomes
    <2>2. \A id \in Ids : jobs'[id] \in {jobs[id], None}
      BY <2>1 DEF TakeJob, Without, PathType
    <2>3. Waiting' \subseteq Waiting
      BY <2>1, <2>2 DEF TakeJob, Waiting, JobTags, InHand
    <2> QED
      BY <1>6, <2>1, <2>3 DEF TakeJob
  <1>15. ASSUME NEW s \in settling, HttpSettle(s) PROVE Backed'
    <2>1. Settle({s.tag}, s.how) /\ hpc' = hpc /\ cur' = cur /\ jobs' = jobs
      BY <1>15 DEF HttpSettle
    <2>2. inbox' \subseteq inbox
      BY <2>1, SettleEffect
    <2>3. s.tag \notin Waiting
      BY DEF OneOwner, Waiting, JobTags, InHand
    <2>4. Waiting' \subseteq Waiting
      BY <2>1, <2>2 DEF Waiting, JobTags, InHand
    <2> QED
      BY <2>1, <2>3, <2>4, SettleBacked
  <1>16. ASSUME WatchdogTick PROVE Backed'
    <2> DEFINE S == {jobs[id] : id \in aged}
    <2>1. /\ Settle(S, "requeue") /\ hpc' = hpc /\ cur' = cur
          /\ jobs' = [id \in Ids |-> IF id \in aged THEN None ELSE jobs[id]]
      BY <1>16 DEF WatchdogTick
    <2>2. inbox' \subseteq inbox
      BY <2>1, SettleEffect
    <2>3. JobTags' \subseteq JobTags \ S
      BY <2>1 DEF JobTags, KeysMatch, PathType
    <2>4. (inbox \cup InHand({"insert", "discard"})) \cap S = {}
      BY DEF OneOwner, InHand, PathType
    <2>5. Waiting' \subseteq Waiting /\ Waiting' \cap S = {}
      BY <2>1, <2>2, <2>3, <2>4 DEF Waiting, InHand
    <2> QED
      BY <2>1, <2>5, SettleBacked
  <1>17. ASSUME (\E id \in Ids : Age(id)) \/ UNCHANGED vars PROVE Backed'
    <2>1. Waiting' = Waiting
      BY <1>17 DEF Age, vars, Waiting, JobTags, InHand
    <2> QED
      BY <1>6, <1>17, <2>1 DEF Age, vars
  <1> QED
    BY <1>1, <1>3, <1>4, <1>5, <1>7, <1>8, <1>9, <1>10, <1>11, <1>13, <1>14, <1>15, <1>16, <1>17
       DEF Next, Network, Routine, Handler, Http, JobWatchdog

-----------------------------------------------------------------------------
(* Acks *)

\* Only JobAcknowledge makes an ack pending, and the workload's reports last.
LEMMA AcksPend ==
  ASSUME PathType, KeysMatch, [Next]_vars
  PROVE  /\ completed \subseteq completed'
         /\ \A s \in settling' \ settling :
              s.tag \in Delivered /\ (s.how = "ack" => \E k \in completed' : IdOf[k] = Id(s.tag))
  <1>1. completed \subseteq completed'
    BY DEF Next, Network, Deliver, ServerDrop, ClientDrop, Routine, Reset, CleanManifest,
       Connect, Restart, Handler, Receive, Insert, HandlerDiscard, WorkloadReceives, TriggerOk,
       TriggerFail, FailCheck, HandlerRequeue, Exit, Http, JobAcknowledge, JobReject,
       HttpSettle, JobWatchdog, Age, WatchdogTick, vars, workload
  <1>2. ASSUME NEW m \in Messages, JobAcknowledge(m) \/ JobReject(m), NEW s \in settling' \ settling
        PROVE  s.tag \in Delivered /\ (s.how = "ack" => \E k \in completed' : IdOf[k] = Id(s.tag))
    <2>1. PICK how \in Outcomes : /\ TakeJob(m, how)
                                  /\ how = "ack" => m \in completed'
      BY <1>2 DEF JobAcknowledge, JobReject, Outcomes
    <2>2. s.tag = jobs[IdOf[m]] /\ s.how = how /\ jobs[IdOf[m]] # None
      BY <1>2, <2>1 DEF TakeJob
    <2>3. IdOf[m] \in Ids
      BY MessagesAssumption
    <2>4. s.tag \in Delivered /\ Id(s.tag) = IdOf[m]
      BY <2>2, <2>3 DEF KeysMatch, PathType
    <2> QED
      BY <2>1, <2>2, <2>4
  <1>3. (\E m \in Messages : JobAcknowledge(m) \/ JobReject(m)) \/ settling' \subseteq settling
    BY DEF Next, Network, Deliver, ServerDrop, ClientDrop, Routine, Reset, CleanManifest,
       Connect, Restart, Handler, Receive, Insert, HandlerDiscard, WorkloadReceives, TriggerOk,
       TriggerFail, FailCheck, HandlerRequeue, Exit, Http, HttpSettle, JobWatchdog, Age,
       WatchdogTick, vars
  <1> QED
    BY <1>1, <1>2, <1>3

\* An ack pending in JobAcknowledge is of a completed job, and stays so.
LEMMA NextEarned ==
  PathType /\ KeysMatch /\ AcksEarned /\ [Next]_vars => AcksEarned'
  <1> SUFFICES ASSUME PathType, KeysMatch, AcksEarned, [Next]_vars,
                      NEW s \in settling', s.how = "ack"
               PROVE  \E k \in completed' : IdOf[k] = Id(s.tag)'
    BY DEF AcksEarned
  <1>1. s.tag \in Delivered /\ \E k \in completed' : IdOf[k] = Id(s.tag)
    <2>1. CASE s \in settling
      BY <2>1, AcksPend DEF AcksEarned, PathType
    <2>2. CASE s \notin settling
      BY <2>2, AcksPend
    <2> QED
      BY <2>1, <2>2
  <1>2. Id(s.tag)' = Id(s.tag)
    BY <1>1, DeliveriesLast DEF Id, MsgOf
  <1> QED
    BY <1>1, <1>2

\* Only HttpSettle acks, and only what JobAcknowledge left it.
LEMMA AcksSent ==
  ASSUME PathType, [Next]_vars, NEW m \in acked' \ acked
  PROVE  \E s \in settling : s.how = "ack" /\ m = MsgOf(s.tag)
  <1>1. CASE \E s \in settling : HttpSettle(s)
    <2>1. PICK s \in settling : Settle({s.tag}, s.how)
      BY <1>1 DEF HttpSettle
    <2>2. s.how = "ack" /\ \E t \in {s.tag} \cap unacked : m = MsgOf(t)
      BY <2>1, SettleEffect
    <2> QED
      BY <2>2
  <1>2. ASSUME NEW S, NEW how, Settle(S, how), how # "ack" PROVE FALSE
    BY <1>2, SettleEffect
  <1>3. CASE ~\E s \in settling : HttpSettle(s)
    <2>1. \/ \E S : Settle(S, "requeue") \/ Settle(S, "discard")
          \/ acked' = acked
      BY <1>3 DEF Next, Network, Deliver, ServerDrop, ClientDrop, Routine, Reset, CleanManifest,
         Connect, Restart, Handler, Receive, Insert, HandlerDiscard, WorkloadReceives, TriggerOk,
         TriggerFail, FailCheck, HandlerRequeue, Exit, Http, JobAcknowledge, JobReject, TakeJob,
         JobWatchdog, Age, WatchdogTick, CloseAtServer, vars, server
    <2> QED
      BY <1>2, <2>1
  <1> QED
    BY <1>1, <1>3

\* What is acked was completed, one step on.
LEMMA NextAcked ==
  PathType /\ KeysMatch /\ AcksEarned /\ AckedWasCompleted /\ [Next]_vars => AckedWasCompleted'
  <1> SUFFICES ASSUME PathType, KeysMatch, AcksEarned, AckedWasCompleted, [Next]_vars,
                      NEW m \in acked'
               PROVE  \E k \in completed' : IdOf[k] = IdOf[m]
    BY DEF AckedWasCompleted
  <1>1. \E k \in completed : IdOf[k] = IdOf[m]
    <2>1. CASE m \in acked
      BY <2>1 DEF AckedWasCompleted
    <2>2. CASE m \notin acked
      BY <2>2, AcksSent DEF AcksEarned, Id
    <2> QED
      BY <2>1, <2>2
  <1> QED
    BY <1>1, AcksPend

-----------------------------------------------------------------------------
(* The prefetch window *)

\* The deliveries of a session are finitely many.
LEMMA UnackedFinite ==
  ASSUME PathType, NEW S \in SUBSET Delivered, NEW c
  PROVE  IsFiniteSet(OnConn(S, c)) /\ Cardinality(OnConn(S, c)) \in Nat
  <1>1. Len(deliv) \in Nat
    BY LenProperties DEF PathType
  <1>2. IsFiniteSet(Delivered)
    BY <1>1, FS_Interval DEF Delivered
  <1>3. OnConn(S, c) \in SUBSET Delivered
    BY DEF OnConn
  <1>4. IsFiniteSet(OnConn(S, c))
    BY <1>2, <1>3, FS_Subset
  <1> QED
    BY <1>4, FS_CardinalityType

\* The prefetch count as it is sent, whatever integer MAX_CONCURRENCY is.
LEMMA WindowType == Window \in Nat
  BY LimitsAssumption, SMT DEF Window

\* basic.deliver respects the window and all else only shrinks it.
LEMMA NextPrefetch == PathType /\ PathType' /\ Prefetch /\ [Next]_vars => Prefetch'
  <1> SUFFICES ASSUME PathType, PathType', Prefetch, [Next]_vars, Window # 0, NEW k \in Conns
               PROVE  (Cardinality(OnConn(unacked, k)) <= Window)'
    BY DEF Prefetch
  <1> DEFINE before == OnConn(unacked, k)
             after == OnConn(unacked, k)'
  <1>1. IsFiniteSet(before) /\ Cardinality(before) \in Nat /\ Cardinality(before) <= Window
    BY UnackedFinite DEF PathType, Prefetch
  <1>2. ASSUME after \subseteq before PROVE Cardinality(after) <= Window
    <2>1. Cardinality(after) <= Cardinality(before) /\ Cardinality(after) \in Nat
      BY <1>1, <1>2, FS_Subset, FS_CardinalityType
    <2> QED
      BY <1>1, <2>1, WindowType
  <1>3. ASSUME NEW m \in Messages, NEW c \in Conns, Deliver(m, c)
        PROVE  Cardinality(after) <= Window
    <2>1. /\ unacked' = unacked \cup {Len(deliv')}
          /\ Cardinality(OnConn(unacked, c)) < Window
      BY <1>3 DEF Deliver
    <2>2. /\ \A t \in Delivered : deliv'[t] = deliv[t]
          /\ deliv'[Len(deliv')] = [msg |-> m, conn |-> c]
      BY <1>3, DeliverAppends
    <2>3. \A t \in unacked : ConnOf(t)' = ConnOf(t)
      BY <2>2 DEF PathType, ConnOf
    <2>4. ConnOf(Len(deliv))' = c
      BY <2>2 DEF ConnOf
    <2>5. after \subseteq before \cup (IF k = c THEN {Len(deliv')} ELSE {})
      BY <2>1, <2>3, <2>4 DEF OnConn
    <2>6. CASE k = c
      <3>1. /\ IsFiniteSet(before \cup {Len(deliv')})
            /\ Cardinality(before \cup {Len(deliv')}) <= Cardinality(before) + 1
        <4> HIDE DEF before
        <4>1. /\ IsFiniteSet(before \cup {Len(deliv')})
              /\ Cardinality(before \cup {Len(deliv')}) =
                   IF Len(deliv') \in before THEN Cardinality(before) ELSE Cardinality(before) + 1
          BY <1>1, FS_AddElement
        <4> QED
          BY <1>1, <4>1
      <3>2. Cardinality(after) <= Cardinality(before \cup {Len(deliv')})
        BY <2>5, <2>6, <3>1, FS_Subset
      <3>3. Cardinality(after) \in Nat /\ Cardinality(before \cup {Len(deliv')}) \in Nat
        BY <2>5, <2>6, <3>1, FS_Subset, FS_CardinalityType
      <3>4. Cardinality(before) < Window
        BY <2>1, <2>6
      <3> HIDE DEF before, after
      <3> QED
        BY <1>1, <3>1, <3>2, <3>3, <3>4, WindowType
    <2> QED
      BY <1>2, <2>5, <2>6
  <1>4. ASSUME ~\E m \in Messages, c \in Conns : Deliver(m, c)
        PROVE  after \subseteq before
    <2>1. deliv' = deliv
      BY <1>4 DEF Next, Network, ServerDrop, ClientDrop, CloseAtServer, Routine, Reset,
         CleanManifest, Connect, Restart, Handler, Receive, Insert, HandlerDiscard,
         WorkloadReceives, TriggerOk, TriggerFail, FailCheck, HandlerRequeue, Exit, Http,
         JobAcknowledge, JobReject, TakeJob, HttpSettle, JobWatchdog, Age, WatchdogTick,
         Settle, vars, server
    <2>2. unacked' \subseteq unacked
      BY <1>4 DEF Next, Network, ServerDrop, ClientDrop, CloseAtServer, Routine, Reset,
         CleanManifest, Connect, Restart, Handler, Receive, Insert, HandlerDiscard,
         WorkloadReceives, TriggerOk, TriggerFail, FailCheck, HandlerRequeue, Exit, Http,
         JobAcknowledge, JobReject, TakeJob, HttpSettle, JobWatchdog, Age, WatchdogTick,
         Settle, vars, server
    <2> QED
      BY <2>1, <2>2 DEF OnConn, ConnOf
  <1> QED
    BY <1>2, <1>3, <1>4

-----------------------------------------------------------------------------
(* The inductive invariant and what follows from it *)

\* The invariant holds at the start, where nothing was delivered.
LEMMA InitInvariant == Init => IInv
  <1> SUFFICES ASSUME Init PROVE IInv
    OBVIOUS
  <1>1. PathType
    BY InitTyped
  <1>2. HandlerHolds /\ KeysMatch /\ OneOwner /\ Backed /\ AcksEarned /\ AckedWasCompleted
    BY DEF Init, HandlerHolds, Busy, KeysMatch, OneOwner, Backed, AcksEarned, AckedWasCompleted
  <1>3. Delivered = {}
    BY EmptySeq DEF Init, Delivered
  <1>4. SessionsPast
    BY <1>3 DEF Init, SessionsPast
  <1>5. Prefetch
    <2>1. \A c \in Conns : OnConn(unacked, c) = {}
      BY DEF Init, OnConn
    <2>2. \A c \in Conns : Cardinality(OnConn(unacked, c)) = 0
      BY <2>1, FS_EmptySet
    <2>3. 0 <= Window
      BY WindowType
    <2> QED
      BY <2>2, <2>3 DEF Prefetch
  <1> QED
    BY <1>1, <1>2, <1>4, <1>5 DEF IInv

\* Every step keeps the invariant, its parts in order of dependence.
LEMMA NextInvariant == IInv /\ [Next]_vars => IInv'
  <1> SUFFICES ASSUME IInv, [Next]_vars PROVE IInv'
    OBVIOUS
  <1> USE DEF IInv
  <1>1. PathType' /\ HandlerHolds'
    BY NextTyped, NextHolds
  <1>2. KeysMatch' /\ SessionsPast' /\ OneOwner'
    BY NextKeys, NextSessions, NextOwners
  <1>3. Backed'
    BY <1>1, NextBacked
  <1>4. AcksEarned' /\ AckedWasCompleted'
    BY NextEarned, NextAcked
  <1>5. Prefetch'
    BY <1>1, NextPrefetch
  <1> QED
    BY <1>1, <1>2, <1>3, <1>4, <1>5

\* The inductive invariant of JobDelivery, for all sizes of the system.
THEOREM Invariant == Spec => []IInv
  BY InitInvariant, NextInvariant, PTL DEF Spec

\* messageHandler, JobAcknowledge, JobReject, Watchdog: a job of an open
\* session always stands for a message RabbitMQ still waits for.
THEOREM JobsStandForUnacked == Spec => []ManifestBacked
  <1>1. IInv => ManifestBacked
    BY DEF IInv, Backed, ManifestBacked, JobTags
  <1> QED
    BY <1>1, Invariant, PTL

\* JobAcknowledge: a message is acked only after a completed job of its id.
THEOREM AcksFollowCompletion == Spec => []AckedWasCompleted
  <1>1. IInv => AckedWasCompleted
    BY DEF IInv
  <1> QED
    BY <1>1, Invariant, PTL

\* createChannels: no open session holds more jobs than MAX_CONCURRENCY, cut
\* to 16 bits and not 0, allows.
THEOREM SessionsBounded == Spec => []SessionConcurrency
  <1>1. ASSUME IInv, Window # 0, NEW c \in srvOpen \cap cliOpen
        PROVE  Cardinality(OnConn(JobTags, c)) <= Window
    <2> USE DEF IInv
    <2>1. OnConn(JobTags, c) \in SUBSET OnConn(unacked, c)
      BY <1>1 DEF Backed, Live, JobTags, OnConn
    <2>2. c \in Conns /\ unacked \in SUBSET Delivered
      BY <1>1 DEF PathType
    <2>3. IsFiniteSet(OnConn(unacked, c)) /\ Cardinality(OnConn(unacked, c)) \in Nat
      BY <1>1, <2>2, UnackedFinite
    <2>4. /\ Cardinality(OnConn(JobTags, c)) <= Cardinality(OnConn(unacked, c))
          /\ Cardinality(OnConn(JobTags, c)) \in Nat
      BY <2>1, <2>3, FS_Subset, FS_CardinalityType
    <2>5. Cardinality(OnConn(unacked, c)) <= Window
      BY <1>1, <2>2 DEF Prefetch
    <2> QED
      BY <2>3, <2>4, <2>5, WindowType
  <1>2. IInv => SessionConcurrency
    BY <1>1 DEF SessionConcurrency
  <1> QED
    BY <1>2, Invariant, PTL
=============================================================================
