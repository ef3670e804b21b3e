--------------------------- MODULE JobCausesProofs ---------------------------
(* What can make messageHandler leak a delivery, settle one twice or drop a *)
(* message as a duplicate of itself: the two lookups by id, and nothing     *)
(* else.                                                                    *)
EXTENDS JobContractProofs

-----------------------------------------------------------------------------
(* Sessions *)

\* The client keeps one session, and none from the cleanup to the next dial:
\* amqpConnectRoutine closes channels and connection before it cleans.
OneSession == cliOpen \subseteq (IF rpc = "up" THEN {conn} ELSE {})

\* amqpConnectRoutine closes and dials in turn; nothing else opens a session.
LEMMA NextOneSession == PathType /\ OneSession /\ [Next]_vars => OneSession'
  <1> SUFFICES ASSUME PathType, OneSession, [Next]_vars PROVE OneSession'
    OBVIOUS
  <1>1. CASE Reset \/ CleanManifest \/ Connect \/ Restart
    BY <1>1 DEF Reset, CleanManifest, Connect, Restart, CloseAtClient, OneSession, PathType
  <1>2. CASE ~(Reset \/ CleanManifest \/ Connect \/ Restart)
    <2>1. rpc' = rpc /\ conn' = conn
      BY <1>2 DEF Next, Network, Deliver, ServerDrop, ClientDrop, Routine, Handler, Receive, Insert,
         HandlerDiscard, WorkloadReceives, TriggerOk, TriggerFail, FailCheck, HandlerRequeue, Exit,
         Http, JobAcknowledge, JobReject, TakeJob, HttpSettle, JobWatchdog, Age, WatchdogTick, vars
    <2>2. cliOpen' \subseteq cliOpen
      BY <1>2 DEF Next, Network, Deliver, ServerDrop, ClientDrop, Routine, Handler, Receive, Insert,
         HandlerDiscard, WorkloadReceives, TriggerOk, TriggerFail, FailCheck, HandlerRequeue, Exit,
         Http, JobAcknowledge, JobReject, TakeJob, HttpSettle, JobWatchdog, Age, WatchdogTick, vars,
         Settle, CloseAtClient
    <2> QED
      BY <2>1, <2>2 DEF OneSession
  <1> QED
    BY <1>1, <1>2

\* Connect makes a session no delivery belongs to, and a closed session stays
\* closed: a delivery of an open session was one before.
LEMMA LiveBefore ==
  ASSUME PathType, SessionsPast, [Next]_vars, NEW t \in Delivered, Live(t)'
  PROVE  Live(t) /\ ConnOf(t)' = ConnOf(t)
  <1>1. ConnOf(t)' = ConnOf(t)
    BY DeliveriesLast DEF ConnOf
  <1>2. CASE Connect
    <2>1. ConnOf(t) <= conn /\ ConnOf(t) \in Int /\ conn \in Int
      BY DeliveryTypes, LimitsAssumption DEF SessionsPast, Conns, PathType
    <2>2. ConnOf(t) # conn + 1
      BY <2>1
    <2> QED
      BY <1>1, <1>2, <2>2 DEF Connect, Live
  <1>3. CASE ~Connect
    <2>1. srvOpen' \subseteq srvOpen /\ cliOpen' \subseteq cliOpen
      BY <1>3 DEF Next, Network, Deliver, ServerDrop, ClientDrop, Routine, Reset, CleanManifest,
         Restart, Handler, Receive, Insert, HandlerDiscard, WorkloadReceives, TriggerOk,
         TriggerFail, FailCheck, HandlerRequeue, Exit, Http, JobAcknowledge, JobReject, TakeJob,
         HttpSettle, JobWatchdog, Age, WatchdogTick, vars, server, Settle, CloseAtServer,
         CloseAtClient
    <2> QED
      BY <1>1, <2>1 DEF Live
  <1> QED
    BY <1>2, <1>3

\* An Ack or Nack that leaves the session open settles what it is called on,
\* and moves nothing else of that session.
LEMMA SettleLive ==
  ASSUME PathType, NEW S, NEW how, Settle(S, how), NEW t \in Delivered, Live(t)'
  PROVE  /\ Live(t) /\ ConnOf(t)' = ConnOf(t)
         /\ t \in unacked' <=> t \in unacked /\ t \notin S
         /\ t \in inbox' <=> t \in inbox
  <1> DEFINE live == {u \in S : ConnOf(u) \in cliOpen /\ ConnOf(u) \in srvOpen}
             ok == live \cap unacked
             broken == {ConnOf(u) : u \in live \ unacked}
             back == {u \in unacked \ ok : ConnOf(u) \in broken}
  <1>1. /\ unacked' = unacked \ (ok \cup back)
        /\ srvOpen' = srvOpen \ broken
        /\ cliOpen' = cliOpen \ broken
        /\ inbox' = {u \in inbox : ConnOf(u) \notin broken}
        /\ deliv' = deliv
    BY DEF Settle, CloseAtClient
  <1>2. ConnOf(t)' = ConnOf(t) /\ Live(t) /\ ConnOf(t) \notin broken
    BY <1>1 DEF ConnOf, Live
  <1>3. t \in ok <=> t \in S /\ t \in unacked
    BY <1>2 DEF Live
  <1>4. t \notin back
    BY <1>2
  <1> HIDE DEF ok, back, broken
  <1> QED
    BY <1>1, <1>2, <1>3, <1>4

-----------------------------------------------------------------------------
(* Leaked deliveries *)

\* The owners a delivery can have, one by one.
InJobs(t) == \E id \in Ids : jobs[id] = t
InSettling(t) == \E s \in settling : s.tag = t
Held(t, states) == \E c \in Conns : hpc[c] \in states /\ cur[c] = t
Owned(t) == t \in inbox \/ InJobs(t) \/ InSettling(t) \/ Held(t, {"insert", "discard", "requeue"})

\* The sets of JobDelivery's properties, told by their members.
LEMMA Places ==
  ASSUME PathType, NEW t \in Delivered
  PROVE  /\ t \in JobTags <=> InJobs(t)
         /\ t \in SettlingTags <=> InSettling(t)
         /\ \A states : t \in InHand(states) <=> Held(t, states)
  <1>1. t # None
    BY DEF Delivered, None
  <1> QED
    BY <1>1 DEF JobTags, SettlingTags, InHand, InJobs, InSettling, Held

\* The owner of a delivery of an open session passes it on or settles it; only
\* a FailCheck that takes the job of another delivery does neither.
LEMMA OwnersPassOn ==
  ASSUME PathType, HandlerHolds, SessionsPast, OneSession, [Next]_vars,
         \A c \in Conns : ~FindsForeign(c),
         NEW t \in unacked, Owned(t), Live(t)', t \in unacked'
  PROVE  Owned(t)'
  <1>0. t \in Delivered /\ t # None
    BY DEF PathType, Delivered, None
  <1>00. Live(t) /\ ConnOf(t)' = ConnOf(t)
    BY <1>0, LiveBefore
  <1> USE <1>0 DEF Owned, InJobs, InSettling, Held, server, handler, manifest
  <1>1. ASSUME NEW m \in Messages, NEW c \in Conns, Deliver(m, c) PROVE Owned(t)'
    BY <1>1 DEF Deliver
  <1>2. ASSUME NEW c \in Conns, ServerDrop(c) PROVE Owned(t)'
    BY <1>2 DEF ServerDrop
  <1>3. ASSUME NEW c \in Conns, ClientDrop(c) PROVE Owned(t)'
    BY <1>00, <1>3 DEF ClientDrop, CloseAtClient, Live
  <1>4. ASSUME Reset PROVE Owned(t)'
    BY <1>00, <1>4 DEF Reset, CloseAtClient, Live
  <1>5. CASE CleanManifest
    BY <1>00, <1>5 DEF CleanManifest, OneSession, Live
  <1>6. ASSUME Connect PROVE Owned(t)'
    <2>1. hpc[conn'] \in {"insert", "discard", "requeue"} => cur[conn'] # t
      <3>1. ConnOf(t) <= conn /\ ConnOf(t) \in Int /\ conn \in Int
        BY DeliveryTypes, LimitsAssumption DEF SessionsPast, Conns, PathType
      <3>2. ConnOf(t) # conn + 1 /\ conn' = conn + 1 /\ conn' \in Conns
        BY <1>6, <3>1, LimitsAssumption DEF Connect, Conns, PathType
      <3> QED
        BY <3>2 DEF HandlerHolds, Busy, HandlerStates
    <2> QED
      BY <1>6, <2>1 DEF Connect, PathType
  <1>7. CASE Restart
    BY <1>7 DEF Restart, CloseAtClient, Live, PathType
  <1>8. ASSUME NEW c \in Conns, Receive(c) PROVE Owned(t)'
    <2>1. PICK u \in inbox : /\ hpc[c] = "idle"
                             /\ hpc' = [hpc EXCEPT ![c] = IF MsgOf(u) \in Malformed
                                                          THEN "discard" ELSE "insert"]
                             /\ cur' = [cur EXCEPT ![c] = u]
                             /\ inbox' = inbox \ {u}
                             /\ jobs' = jobs /\ settling' = settling
      BY <1>8 DEF Receive, Step, OnConn
    <2>2. CASE t = u
      <3>1. hpc'[c] \in {"insert", "discard"} /\ cur'[c] = t
        BY <2>1, <2>2 DEF PathType
      <3> QED
        BY <3>1
    <2>3. CASE t # u
      BY <2>1, <2>3 DEF PathType
    <2> QED
      BY <2>2, <2>3
  <1>9. ASSUME NEW c \in Conns, Insert(c) PROVE Owned(t)'
    <2>1. /\ hpc[c] = "insert" /\ cur' = cur /\ inbox' = inbox /\ settling' = settling
          /\ \A k \in Conns \ {c} : hpc'[k] = hpc[k]
      BY <1>9 DEF Insert, Step, PathType
    <2>2. CASE jobs' = jobs /\ hpc'[c] = "discard"
      BY <2>1, <2>2
    <2>3. CASE jobs[Id(cur[c])] = None /\ jobs' = [jobs EXCEPT ![Id(cur[c])] = cur[c]]
      <3>1. InJobs(t) => InJobs(t)'
        BY <2>3 DEF PathType
      <3>2. cur[c] = t => InJobs(t)'
        <4>1. cur[c] = t => Id(cur[c]) \in Ids
          BY DeliveryTypes
        <4> QED
          BY <2>3, <4>1 DEF PathType
      <3> QED
        BY <2>1, <3>1, <3>2
    <2> QED
      BY <1>9, <2>2, <2>3 DEF Insert, Step, InsertJobWithDelivery, PathType
  <1>10. ASSUME NEW c \in Conns, HandlerDiscard(c) \/ HandlerRequeue(c) PROVE Owned(t)'
    <2>1. /\ \E how \in Outcomes : Settle({cur[c]}, how)
          /\ hpc' = [hpc EXCEPT ![c] = "idle"] /\ cur' = [cur EXCEPT ![c] = None]
          /\ jobs' = jobs /\ settling' = settling
      BY <1>10 DEF HandlerDiscard, HandlerRequeue, Back, Step, Outcomes
    <2>2. t # cur[c] /\ (t \in inbox => t \in inbox')
      BY <2>1, SettleLive
    <2> QED
      BY <2>1, <2>2 DEF PathType
  <1>11. ASSUME NEW c \in Conns, WorkloadReceives(c) \/ TriggerOk(c) \/ TriggerFail(c) \/ Exit(c)
         PROVE  Owned(t)'
    BY <1>11 DEF WorkloadReceives, TriggerOk, TriggerFail, Exit, Step, Back, PathType
  <1>12. ASSUME NEW c \in Conns, FailCheck(c) PROVE Owned(t)'
    <2>1. CASE jobs[Id(cur[c])] = None
      BY <1>12, <2>1 DEF FailCheck, Back, Step, PathType
    <2>2. CASE jobs[Id(cur[c])] = cur[c] /\ jobs[Id(cur[c])] # None
      <3>1. /\ hpc' = [hpc EXCEPT ![c] = "requeue"] /\ cur' = cur
            /\ jobs' = [jobs EXCEPT ![Id(cur[c])] = None]
            /\ inbox' = inbox /\ settling' = settling /\ hpc[c] = "fail"
        BY <1>12, <2>2 DEF FailCheck, Step, Without
      <3>2. hpc'[c] = "requeue" /\ cur'[c] = cur[c]
        BY <3>1 DEF PathType
      <3> QED
        BY <2>2, <3>1, <3>2 DEF PathType
    <2> QED
      BY <1>12, <2>1, <2>2 DEF FindsForeign
  <1>13. ASSUME NEW m \in Messages, JobAcknowledge(m) \/ JobReject(m) PROVE Owned(t)'
    <2>1. PICK how \in Outcomes : TakeJob(m, how)
      BY <1>13 DEF JobAcknowledge, JobReject, Outcomes
    <2>2. /\ settling' = settling \cup {[tag |-> jobs[IdOf[m]], how |-> how]}
          /\ jobs' = [jobs EXCEPT ![IdOf[m]] = None]
          /\ inbox' = inbox /\ hpc' = hpc /\ cur' = cur
      BY <2>1 DEF TakeJob, Without
    <2>3. [tag |-> jobs[IdOf[m]], how |-> how].tag = jobs[IdOf[m]]
      OBVIOUS
    <2>4. InSettling(t)' \/ jobs[IdOf[m]] # t
      BY <2>2, <2>3
    <2>5. InJobs(t) /\ jobs[IdOf[m]] # t => InJobs(t)'
      BY <2>2 DEF PathType
    <2> QED
      BY <2>2, <2>4, <2>5
  <1>14. ASSUME NEW s \in settling, HttpSettle(s) PROVE Owned(t)'
    <2>1. /\ Settle({s.tag}, s.how) /\ settling' = settling \ {s}
          /\ jobs' = jobs /\ hpc' = hpc /\ cur' = cur
      BY <1>14 DEF HttpSettle
    <2>2. t # s.tag /\ (t \in inbox => t \in inbox')
      BY <2>1, SettleLive
    <2> QED
      BY <2>1, <2>2
  <1>15. ASSUME NEW id \in Ids, Age(id) PROVE Owned(t)'
    BY <1>15 DEF Age
  <1>16. ASSUME WatchdogTick PROVE Owned(t)'
    <2>1. /\ Settle({jobs[id] : id \in aged}, "requeue")
          /\ jobs' = [id \in Ids |-> IF id \in aged THEN None ELSE jobs[id]]
          /\ settling' = settling /\ hpc' = hpc /\ cur' = cur
      BY <1>16 DEF WatchdogTick
    <2>2. t \notin {jobs[id] : id \in aged} /\ (t \in inbox => t \in inbox')
      BY <2>1, SettleLive
    <2> QED
      BY <2>1, <2>2
  <1>17. CASE UNCHANGED vars
    BY <1>17 DEF vars
  <1> QED
    BY <1>1, <1>2, <1>3, <1>4, <1>5, <1>6, <1>7, <1>8, <1>9, <1>10, <1>11, <1>12, <1>13,
       <1>14, <1>15, <1>16, <1>17 DEF Next, Network, Routine, Handler, Http, JobWatchdog

\* A new delivery of an open session is in the inbox.
LEMMA NewUnacked ==
  ASSUME PathType, [Next]_vars, NEW t \in unacked' \ unacked, Live(t)'
  PROVE  t \in inbox'
  <1>1. PICK m \in Messages, c \in Conns : Deliver(m, c)
    BY SettleEffect DEF Next, Network, ServerDrop, ClientDrop, CloseAtServer, Routine, Reset,
       CleanManifest, Connect, Restart, Handler, Receive, Insert, HandlerDiscard, WorkloadReceives,
       TriggerOk, TriggerFail, FailCheck, HandlerRequeue, Exit, Http, JobAcknowledge, JobReject,
       TakeJob, HttpSettle, JobWatchdog, Age, WatchdogTick, vars, server
  <1>2. /\ t = Len(deliv') /\ cliOpen' = cliOpen
        /\ inbox' = IF c \in cliOpen THEN inbox \cup {Len(deliv')} ELSE inbox
    BY <1>1 DEF Deliver
  <1>3. ConnOf(t)' = c
    <2>1. deliv'[Len(deliv')] = [msg |-> m, conn |-> c]
      BY <1>1, DeliverAppends
    <2>2. ConnOf(t)' = deliv'[t].conn
      BY DEF ConnOf
    <2> QED
      BY <1>2, <2>1, <2>2
  <1> QED
    BY <1>2, <1>3 DEF Live

\* The inductive invariant of the causes.
CInv == IInv /\ OnePlace /\ DiscardsEarned /\ OneSession

\* Every step of AMPS, RabbitMQ or the workload keeps CInv.
LEMMA CausesInvariant == Spec => []CInv
  <1>1. Init => OneSession
    BY DEF Init, OneSession
  <1>2. Init => CInv
    BY <1>1, InitInvariant, InitRefines DEF CInv
  <1>3. CInv /\ [Next]_vars => CInv'
    BY NextInvariant, NextRefines, NextDiscards, NextOneSession DEF CInv, IInv
  <1> QED
    BY <1>2, <1>3, PTL DEF Spec

\* Leaked only grows when FailCheck takes the job of another delivery.
LEMMA LeakStep ==
  ASSUME CInv, [Next]_vars, \A c \in Conns : ~FindsForeign(c)
  PROVE  Leaked' \subseteq Leaked
  <1> USE DEF CInv, IInv
  <1> SUFFICES ASSUME NEW t \in Leaked', t \notin Leaked PROVE FALSE
    OBVIOUS
  <1>0. PathType'
    BY NextTyped
  <1>1. t \in unacked' /\ Live(t)' /\ t \in Delivered'
    BY <1>0 DEF Leaked, PathType
  <1>2. ~Owned(t)'
    <2>1. /\ (t \in JobTags <=> InJobs(t))'
          /\ (t \in SettlingTags <=> InSettling(t))'
          /\ (t \in InHand({"insert", "discard", "requeue"})
                <=> Held(t, {"insert", "discard", "requeue"}))'
      <3>1. t # None
        BY <1>1 DEF Delivered, None
      <3> QED
        BY <3>1 DEF JobTags, SettlingTags, InHand, InJobs, InSettling, Held
    <2> QED
      BY <2>1 DEF Leaked, Owned
  <1>3. CASE t \in unacked
    <2>1. t \in Delivered
      BY <1>3 DEF PathType
    <2>2. Live(t)
      BY <1>1, <2>1, LiveBefore
    <2>3. Owned(t)
      BY <1>3, <2>1, <2>2, Places DEF Leaked, Owned
    <2> QED
      BY <1>1, <1>2, <1>3, <2>3, OwnersPassOn
  <1>4. CASE t \notin unacked
    BY <1>1, <1>2, <1>4, NewUnacked DEF Owned
  <1> QED
    BY <1>3, <1>4

\* messageHandler, "On error, NACKs and reschedules the job": a delivery is
\* leaked only by a FailCheck that takes the job of another delivery.
THEOREM LeaksHaveCause == Spec => LeakHasCause
  <1>1. CInv /\ [Next]_vars => [Leaked' \subseteq Leaked \/ \E c \in Conns : FindsForeign(c)]_vars
    BY LeakStep
  <1> QED
    BY <1>1, CausesInvariant, PTL DEF Spec, LeakHasCause

-----------------------------------------------------------------------------
(* Double settlements *)

\* The states of a handler about to Nack, and what waits to be settled.
Nacking == {"discard", "requeue"}
Due(t) == InJobs(t) \/ InSettling(t) \/ Held(t, Nacking)

\* Overdue, told by its members.
LEMMA OverdueIs ==
  ASSUME NEW t \in Delivered, t # None
  PROVE  t \in Overdue <=>
           Live(t) /\ (\/ t \notin unacked /\ Due(t)
                       \/ Held(t, Nacking) /\ (InJobs(t) \/ InSettling(t))
                       \/ \E s, u \in settling : s # u /\ s.tag = t /\ u.tag = t)
  <1>1. /\ t \in JobTags <=> InJobs(t)
        /\ t \in SettlingTags <=> InSettling(t)
        /\ t \in InHand({"discard", "requeue"}) <=> Held(t, Nacking)
    BY DEF JobTags, SettlingTags, InHand, InJobs, InSettling, Held, Nacking
  <1> QED
    BY <1>1 DEF Overdue, Due

\* A step that leaves a delivery of an open session unacked, or settles it and
\* takes it from its owner, and gives it no second owner.
LEMMA StaysOnce ==
  ASSUME CInv, NEW t \in Delivered, t \notin Overdue, Live(t), t \in Delivered',
         InJobs(t)' => InJobs(t), InSettling(t)' => InSettling(t),
         Held(t, Nacking)' => Held(t, Nacking), settling' \subseteq settling,
         t \in unacked => t \in unacked' \/ ~Due(t)'
  PROVE  t \notin Overdue'
  <1>1. t # None
    BY DEF Delivered, None
  <1>2. ~(\/ t \notin unacked /\ Due(t)
          \/ Held(t, Nacking) /\ (InJobs(t) \/ InSettling(t))
          \/ \E s, u \in settling : s # u /\ s.tag = t /\ u.tag = t)
    BY <1>1, OverdueIs
  <1>3. /\ (t \in JobTags <=> InJobs(t))'
        /\ (t \in SettlingTags <=> InSettling(t))'
        /\ (t \in InHand({"discard", "requeue"}) <=> Held(t, Nacking))'
    BY <1>1 DEF JobTags, SettlingTags, InHand, InJobs, InSettling, Held, Nacking
  <1> QED
    BY <1>2, <1>3 DEF Overdue, Due

\* The same for a delivery that gets an owner and is unacked: it must have no
\* other, once the step is taken.
LEMMA BecomesOnce ==
  ASSUME NEW t \in Delivered, t \in Delivered', t \in unacked',
         ~(Held(t, Nacking)' /\ (InJobs(t) \/ InSettling(t))'),
         \A s, u \in settling' : s.tag = t /\ u.tag = t => s = u
  PROVE  t \notin Overdue'
  <1>1. t # None
    BY DEF Delivered, None
  <1>2. /\ (t \in JobTags <=> InJobs(t))'
        /\ (t \in SettlingTags <=> InSettling(t))'
        /\ (t \in InHand({"discard", "requeue"}) <=> Held(t, Nacking))'
    BY <1>1 DEF JobTags, SettlingTags, InHand, InJobs, InSettling, Held, Nacking
  <1> QED
    BY <1>2 DEF Overdue

\* What it means for a delivery not to be overdue.
LEMMA OnceSays ==
  ASSUME CInv, NEW t \in Delivered, t \notin Overdue, Live(t)
  PROVE  /\ Due(t) => t \in unacked
         /\ Held(t, Nacking) => ~InJobs(t) /\ ~InSettling(t)
         /\ \A s, u \in settling : s.tag = t /\ u.tag = t => s = u
         /\ InSettling(t) => ~InJobs(t)
         /\ t # None
  <1>1. t # None
    BY DEF Delivered, None
  <1>2. InSettling(t) => ~InJobs(t)
    BY DEF CInv, IInv, OneOwner, InSettling, InJobs
  <1> QED
    BY <1>1, <1>2, OverdueIs

\* Only a FailCheck that takes the job of another delivery makes a delivery
\* of an open session due for two settlements, or for one it has had.
LEMMA OverdueStep ==
  ASSUME CInv, [Next]_vars, \A c \in Conns : ~FindsForeign(c),
         NEW t \in Delivered, Live(t)', t \notin Overdue
  PROVE  t \notin Overdue'
  <1> USE DEF CInv, IInv
  <1>0. Live(t) /\ ConnOf(t)' = ConnOf(t) /\ t \in Delivered'
    BY LiveBefore, DeliveriesLast
  <1>00. /\ Due(t) => t \in unacked
         /\ Held(t, Nacking) => ~InJobs(t) /\ ~InSettling(t)
         /\ \A s, u \in settling : s.tag = t /\ u.tag = t => s = u
         /\ InSettling(t) => ~InJobs(t)
         /\ t # None
    BY <1>0, OnceSays
  <1> USE DEF server, handler, manifest
  <1>1. ASSUME jobs' = jobs, settling' = settling, hpc' = hpc, cur' = cur,
               t \in unacked => t \in unacked'
        PROVE  t \notin Overdue'
    BY <1>0, <1>1, StaysOnce DEF InJobs, InSettling, Held
  <1>2. ASSUME NEW m \in Messages, NEW c \in Conns, Deliver(m, c) PROVE t \notin Overdue'
    BY <1>1, <1>2 DEF Deliver
  <1>3. ASSUME NEW c \in Conns, ServerDrop(c) PROVE t \notin Overdue'
    BY <1>0, <1>1, <1>3 DEF ServerDrop, CloseAtServer, Live
  <1>4. ASSUME NEW c \in Conns, ClientDrop(c) PROVE t \notin Overdue'
    BY <1>1, <1>4 DEF ClientDrop
  <1>5. ASSUME Reset PROVE t \notin Overdue'
    BY <1>1, <1>5 DEF Reset
  <1>6. ASSUME CleanManifest PROVE t \notin Overdue'
    BY <1>0, <1>6 DEF CleanManifest, OneSession, Live
  <1>7. ASSUME Connect PROVE t \notin Overdue'
    <2>1. Held(t, Nacking)' => Held(t, Nacking)
      BY <1>7 DEF Connect, Held, Nacking, PathType
    <2> QED
      BY <1>0, <1>7, <2>1, StaysOnce DEF Connect, InJobs, InSettling
  <1>8. ASSUME Restart PROVE t \notin Overdue'
    BY <1>8 DEF Restart, CloseAtClient, Live, PathType
  <1>9. ASSUME NEW c \in Conns, Receive(c) PROVE t \notin Overdue'
    <2>1. PICK u \in inbox : /\ hpc[c] = "idle"
                             /\ \A k \in Conns \ {c} : hpc'[k] = hpc[k]
                             /\ cur' = [cur EXCEPT ![c] = u]
                             /\ jobs' = jobs /\ settling' = settling /\ unacked' = unacked
      BY <1>9 DEF Receive, Step, OnConn, PathType
    <2>2. CASE t = u
      <3>1. t \in unacked'
        BY <1>0, <2>1, <2>2 DEF Backed
      <3>2. ~InJobs(t)' /\ ~InSettling(t)'
        BY <2>1, <2>2 DEF OneOwner, InJobs, InSettling
      <3> QED
        BY <1>0, <1>00, <2>1, <3>1, <3>2, BecomesOnce
    <2>3. CASE t # u
      <3>1. Held(t, Nacking)' => Held(t, Nacking)
        BY <2>1, <2>3 DEF Held, PathType
      <3> QED
        BY <1>0, <2>1, <3>1, StaysOnce DEF InJobs, InSettling
    <2> QED
      BY <2>2, <2>3
  <1>10. ASSUME NEW c \in Conns, Insert(c) PROVE t \notin Overdue'
    <2>1. /\ hpc[c] = "insert" /\ cur' = cur /\ settling' = settling /\ unacked' = unacked
          /\ \A k \in Conns \ {c} : hpc'[k] = hpc[k]
          /\ hpc'[c] \in {"discard", "trigger"}
          /\ hpc'[c] = "discard" => jobs' = jobs
          /\ \/ jobs' = jobs
             \/ hpc'[c] = "trigger" /\ jobs' = [jobs EXCEPT ![Id(cur[c])] = cur[c]]
      BY <1>10 DEF Insert, InsertJobWithDelivery, Step, PathType
    <2>2. CASE t = cur[c]
      <3>1. t \in unacked'
        BY <1>0, <2>1, <2>2 DEF Backed
      <3>2. ~InJobs(t) /\ ~InSettling(t)'
        BY <2>1, <2>2 DEF OneOwner, InJobs, InSettling
      <3>3. Held(t, Nacking)' => hpc'[c] = "discard"
        <4>1. \A k \in Conns \ {c} : hpc[k] \in Nacking => cur[k] # t
          BY <2>1, <2>2 DEF HandlerHolds, Busy, HandlerStates, Nacking
        <4> QED
          BY <2>1, <4>1 DEF Held, Nacking
      <3>4. hpc'[c] = "discard" => ~InJobs(t)'
        BY <2>1, <3>2 DEF InJobs
      <3> QED
        BY <1>0, <1>00, <2>1, <3>1, <3>2, <3>3, <3>4, BecomesOnce
    <2>3. CASE t # cur[c]
      <3>1. Held(t, Nacking)' => Held(t, Nacking)
        BY <2>1, <2>3 DEF Held
      <3>2. InJobs(t)' => InJobs(t)
        BY <2>1, <2>3 DEF InJobs, PathType
      <3> QED
        BY <1>0, <2>1, <3>1, <3>2, StaysOnce DEF InSettling
    <2> QED
      BY <2>2, <2>3
  <1>11. ASSUME NEW c \in Conns, HandlerDiscard(c) \/ HandlerRequeue(c) PROVE t \notin Overdue'
    <2>1. /\ hpc[c] \in Nacking /\ jobs' = jobs /\ settling' = settling
          /\ \E how \in Outcomes : Settle({cur[c]}, how)
          /\ hpc' = [hpc EXCEPT ![c] = "idle"] /\ cur' = [cur EXCEPT ![c] = None]
      BY <1>11 DEF HandlerDiscard, HandlerRequeue, Back, Step, Nacking, Outcomes
    <2>2. t \in unacked' <=> t \in unacked /\ t # cur[c]
      BY <2>1, SettleLive
    <2>3. Held(t, Nacking)' => Held(t, Nacking) /\ t # cur[c]
      <3>1. \A k \in Conns \ {c} : hpc[k] \in Nacking => cur[k] # cur[c]
        BY <2>1, HandsDiffer DEF Busy, HandlerStates, Nacking
      <3>2. \A k \in Conns : hpc'[k] \in Nacking => k # c /\ hpc[k] \in Nacking /\ cur'[k] = cur[k]
        BY <2>1 DEF Nacking, PathType
      <3> QED
        BY <3>1, <3>2 DEF Held
    <2>4. (InJobs(t)' <=> InJobs(t)) /\ (InSettling(t)' <=> InSettling(t))
      BY <2>1 DEF InJobs, InSettling
    <2>5. t = cur[c] => Held(t, Nacking)
      BY <2>1 DEF Held
    <2>6. t \in unacked => t \in unacked' \/ ~Due(t)'
      BY <1>00, <2>2, <2>3, <2>4, <2>5 DEF Due
    <2> QED
      BY <1>0, <2>1, <2>3, <2>4, <2>6, StaysOnce
  <1>12. ASSUME NEW c \in Conns, WorkloadReceives(c) \/ TriggerOk(c) \/ TriggerFail(c) \/ Exit(c)
         PROVE  t \notin Overdue'
    <2>1. /\ jobs' = jobs /\ settling' = settling /\ unacked' = unacked
          /\ \A k \in Conns : hpc'[k] \in Nacking => hpc[k] \in Nacking /\ cur'[k] = cur[k]
      BY <1>12 DEF WorkloadReceives, TriggerOk, TriggerFail, Exit, Step, Back, Nacking, PathType
    <2> QED
      BY <1>0, <2>1, StaysOnce DEF InJobs, InSettling, Held
  <1>13. ASSUME NEW c \in Conns, FailCheck(c) PROVE t \notin Overdue'
    <2>1. CASE jobs[Id(cur[c])] = None
      <3>1. /\ jobs' = jobs /\ settling' = settling /\ unacked' = unacked
            /\ \A k \in Conns : hpc'[k] \in Nacking => hpc[k] \in Nacking /\ cur'[k] = cur[k]
        BY <1>13, <2>1 DEF FailCheck, Step, Back, Nacking, PathType
      <3> QED
        BY <1>0, <3>1, StaysOnce DEF InJobs, InSettling, Held
    <2>2. CASE jobs[Id(cur[c])] = cur[c] /\ jobs[Id(cur[c])] # None
      <3>1. /\ hpc' = [hpc EXCEPT ![c] = "requeue"] /\ cur' = cur /\ hpc[c] = "fail"
            /\ jobs' = [jobs EXCEPT ![Id(cur[c])] = None]
            /\ settling' = settling /\ unacked' = unacked
        BY <1>13, <2>2 DEF FailCheck, Step, Without
      <3>2. cur[c] \in Delivered /\ Id(cur[c]) \in Ids
        BY <2>2, DeliveryTypes DEF PathType
      <3>3. CASE t = cur[c]
        <4>1. InJobs(t)
          BY <2>2, <3>2, <3>3 DEF InJobs
        <4>2. ~InJobs(t)'
          BY <1>00, <3>1, <3>2, <3>3 DEF InJobs, KeysMatch, PathType
        <4>3. ~InSettling(t)'
          BY <1>00, <3>1, <4>1 DEF InSettling
        <4>4. t \in unacked'
          BY <1>00, <3>1, <4>1 DEF Due
        <4> QED
          BY <1>0, <1>00, <3>1, <4>2, <4>3, <4>4, BecomesOnce
      <3>4. CASE t # cur[c]
        <4>1. Held(t, Nacking)' => Held(t, Nacking)
          BY <3>1, <3>4 DEF Held, Nacking, PathType
        <4>2. InJobs(t)' => InJobs(t)
          BY <1>00, <3>1 DEF InJobs, PathType
        <4> QED
          BY <1>0, <3>1, <4>1, <4>2, StaysOnce DEF InSettling
      <3> QED
        BY <3>3, <3>4
    <2> QED
      BY <1>13, <2>1, <2>2 DEF FindsForeign
  <1>14. ASSUME NEW m \in Messages, JobAcknowledge(m) \/ JobReject(m) PROVE t \notin Overdue'
    <2>1. PICK how \in Outcomes : TakeJob(m, how)
      BY <1>14 DEF JobAcknowledge, JobReject, Outcomes
    <2> DEFINE id == IdOf[m]
               new == [tag |-> jobs[id], how |-> how]
    <2>2. /\ id \in Ids /\ jobs[id] # None
          /\ settling' = settling \cup {new}
          /\ jobs' = [jobs EXCEPT ![id] = None]
          /\ hpc' = hpc /\ cur' = cur /\ unacked' = unacked
      BY <2>1, MessagesAssumption DEF TakeJob, Without
    <2>3. new.tag = jobs[id]
      OBVIOUS
    <2>4. (InJobs(t)' => InJobs(t)) /\ (Held(t, Nacking)' <=> Held(t, Nacking))
      BY <1>00, <2>2 DEF InJobs, Held, PathType
    <2> HIDE DEF new, id
    <2>5. CASE t = jobs[id]
      <3>1. InJobs(t) /\ ~InSettling(t) /\ t \in unacked' /\ ~Held(t, Nacking)'
        BY <1>00, <2>2, <2>4, <2>5 DEF InJobs, Due
      <3>2. \A s \in settling' : s.tag = t => s = new
        BY <2>2, <3>1 DEF InSettling
      <3> QED
        BY <1>0, <3>1, <3>2, BecomesOnce
    <2>6. CASE t # jobs[id]
      <3>1. InSettling(t)' <=> InSettling(t)
        BY <2>2, <2>3, <2>6 DEF InSettling
      <3>2. \A s \in settling' : s.tag = t => s \in settling
        BY <2>2, <2>3, <2>6
      <3>3. CASE t \in unacked
        BY <1>0, <1>00, <2>2, <2>4, <3>1, <3>2, <3>3, BecomesOnce
      <3>4. CASE t \notin unacked
        <4>1. ~InJobs(t)' /\ ~InSettling(t)' /\ ~Held(t, Nacking)'
          BY <1>00, <2>4, <3>1, <3>4 DEF Due
        <4>2. /\ (t \in JobTags <=> InJobs(t))'
              /\ (t \in SettlingTags <=> InSettling(t))'
              /\ (t \in InHand({"discard", "requeue"}) <=> Held(t, Nacking))'
          BY <1>00 DEF JobTags, SettlingTags, InHand, InJobs, InSettling, Held, Nacking
        <4> QED
          BY <1>00, <3>2, <4>1, <4>2 DEF Overdue
      <3> QED
        BY <3>3, <3>4
    <2> QED
      BY <2>5, <2>6
  <1>15. ASSUME NEW s \in settling, HttpSettle(s) PROVE t \notin Overdue'
    <2>1. /\ Settle({s.tag}, s.how) /\ settling' = settling \ {s}
          /\ jobs' = jobs /\ hpc' = hpc /\ cur' = cur
      BY <1>15 DEF HttpSettle
    <2>2. t \in unacked' <=> t \in unacked /\ t # s.tag
      BY <2>1, SettleLive
    <2>3. /\ InJobs(t)' <=> InJobs(t)
          /\ Held(t, Nacking)' <=> Held(t, Nacking)
          /\ InSettling(t)' => InSettling(t) /\ t # s.tag
      BY <1>00, <2>1 DEF InJobs, InSettling, Held
    <2>4. t = s.tag => InSettling(t)
      BY DEF InSettling
    <2>5. t \in unacked => t \in unacked' \/ ~Due(t)'
      BY <1>00, <2>2, <2>3, <2>4 DEF Due
    <2> QED
      BY <1>0, <2>1, <2>3, <2>5, StaysOnce
  <1>16. ASSUME NEW id \in Ids, Age(id) PROVE t \notin Overdue'
    BY <1>1, <1>16 DEF Age
  <1>17. ASSUME WatchdogTick PROVE t \notin Overdue'
    <2> DEFINE S == {jobs[id] : id \in aged}
    <2>1. /\ Settle(S, "requeue")
          /\ jobs' = [id \in Ids |-> IF id \in aged THEN None ELSE jobs[id]]
          /\ settling' = settling /\ hpc' = hpc /\ cur' = cur
      BY <1>17 DEF WatchdogTick
    <2>2. t \in S => InJobs(t)
      BY DEF InJobs, PathType
    <2>3. InJobs(t)' => InJobs(t) /\ t \notin S
      <3>1. \A id \in Ids, k \in aged : jobs[id] = t /\ jobs[k] = t => id = k
        BY <1>00 DEF KeysMatch, PathType
      <3> QED
        BY <1>00, <2>1, <3>1 DEF InJobs
    <2> HIDE DEF S
    <2>4. t \in unacked' <=> t \in unacked /\ t \notin S
      BY <2>1, SettleLive
    <2>5. (InSettling(t)' <=> InSettling(t)) /\ (Held(t, Nacking)' <=> Held(t, Nacking))
      BY <2>1 DEF InSettling, Held
    <2>6. t \in unacked => t \in unacked' \/ ~Due(t)'
      BY <1>00, <2>2, <2>3, <2>4, <2>5 DEF Due
    <2> QED
      BY <1>0, <2>1, <2>3, <2>5, <2>6, StaysOnce
  <1>18. CASE UNCHANGED vars
    BY <1>1, <1>18 DEF vars
  <1> QED
    BY <1>2, <1>3, <1>4, <1>5, <1>6, <1>7, <1>8, <1>9, <1>10, <1>11, <1>12, <1>13,
       <1>14, <1>15, <1>16, <1>17, <1>18 DEF Next, Network, Routine, Handler, Http, JobWatchdog

\* Overdue only grows when FailCheck takes the job of another delivery.
LEMMA OverdueShrinks ==
  ASSUME CInv, [Next]_vars, \A c \in Conns : ~FindsForeign(c)
  PROVE  Overdue' \subseteq Overdue
  <1> SUFFICES ASSUME NEW t \in Overdue', t \notin Overdue PROVE FALSE
    OBVIOUS
  <1>1. t \in Delivered' /\ Live(t)'
    BY DEF Overdue
  <1>2. t \notin Delivered
    BY <1>1, OverdueStep
  <1>3. deliv' # deliv
    BY <1>1, <1>2 DEF Delivered
  <1>4. PICK m \in Messages, c \in Conns : Deliver(m, c)
    BY <1>3 DEF Next, Network, ServerDrop, ClientDrop, CloseAtServer, Routine, Reset,
       CleanManifest, Connect, Restart, Handler, Receive, Insert, HandlerDiscard,
       WorkloadReceives, TriggerOk, TriggerFail, FailCheck, HandlerRequeue, Exit, Http,
       JobAcknowledge, JobReject, TakeJob, HttpSettle, JobWatchdog, Age, WatchdogTick,
       Settle, vars, server
  <1>5. /\ hpc' = hpc /\ cur' = cur /\ jobs' = jobs /\ settling' = settling
        /\ Len(deliv') \in unacked'
    BY <1>4 DEF Deliver, manifest
  <1>6. t \in unacked'
    <2>1. Len(deliv') = Len(deliv) + 1 /\ Len(deliv) \in Nat
      BY <1>4, DeliverAppends DEF CInv, IInv
    <2>2. t = Len(deliv')
      BY <1>1, <1>2, <2>1 DEF Delivered
    <2> QED
      BY <1>5, <2>2
  <1>7. t # None
    BY <1>1 DEF Delivered, None
  <1>8. /\ \A id \in Ids : jobs[id] # t
        /\ \A s \in settling : s.tag # t
        /\ \A k \in Conns : cur[k] # t
    BY <1>2, <1>7 DEF CInv, IInv, PathType
  <1>9. ~(t \in JobTags \cup SettlingTags \cup InHand({"discard", "requeue"}))'
    BY <1>5, <1>8 DEF JobTags, SettlingTags, InHand
  <1> QED
    BY <1>6, <1>9 DEF Overdue, SettlingTags

\* JobAcknowledge, JobReject, Watchdog and messageHandler settle a delivery of
\* an open session once, unless FailCheck took the job of another delivery.
THEOREM DoubleSettlesHaveCause == Spec => DoubleSettleHasCause
  <1>1. CInv /\ [Next]_vars => [Overdue' \subseteq Overdue \/ \E c \in Conns : FindsForeign(c)]_vars
    BY OverdueShrinks
  <1> QED
    BY <1>1, CausesInvariant, PTL DEF Spec, DoubleSettleHasCause

-----------------------------------------------------------------------------
(* Messages dropped as duplicates of themselves *)

\* A delivered message stays what it is, and a refusal stays: a message that
\* deserves no drop now deserved none before.
LEMMA UnearnedBefore ==
  ASSUME CInv, [Next]_vars, NEW m \in Messages, Unearned(m)'
  PROVE  Unearned(m)
  <1>1. refused \subseteq refused'
    BY DiscardsPend DEF CInv, IInv
  <1>2. \A t \in Delivered : t \in Delivered' /\ MsgOf(t)' = MsgOf(t) /\ Id(t)' = Id(t)
    BY RepeatedLasts, DeliveriesLast DEF CInv, IInv
  <1>3. SharesId(m) => SharesId(m)'
    BY <1>2 DEF SharesId
  <1> QED
    BY <1>1, <1>3 DEF Unearned

\* What Ack and Nack add to discarded was an unacked delivery of an open session.
LEMMA DropsSent ==
  ASSUME PathType, [Next]_vars, NEW m \in discarded' \ discarded
  PROVE  \/ \E c \in Conns : hpc[c] = "discard" /\ Live(cur[c]) /\ m = MsgOf(cur[c])
         \/ \E s \in settling : s.how = "discard" /\ m = MsgOf(s.tag)
  <1>1. ASSUME NEW S, NEW how, Settle(S, how)
        PROVE  how = "discard" /\ \E t \in S : Live(t) /\ m = MsgOf(t)
    BY <1>1 DEF Settle, MsgsOf, Live
  <1>2. ASSUME NEW c \in Conns, HandlerDiscard(c)
        PROVE  hpc[c] = "discard" /\ Live(cur[c]) /\ m = MsgOf(cur[c])
    <2>1. hpc[c] = "discard" /\ Settle({cur[c]}, "discard")
      BY <1>2 DEF HandlerDiscard, Back, Step
    <2> QED
      BY <1>1, <2>1
  <1>3. ASSUME NEW s \in settling, HttpSettle(s)
        PROVE  s.how = "discard" /\ m = MsgOf(s.tag)
    <2>1. Settle({s.tag}, s.how)
      BY <1>3 DEF HttpSettle
    <2> QED
      BY <1>1, <2>1
  <1>4. ASSUME NEW S, Settle(S, "requeue") PROVE FALSE
    BY <1>1, <1>4
  <1>5. CASE (\E c \in Conns : HandlerRequeue(c)) \/ WatchdogTick
    BY <1>4, <1>5 DEF HandlerRequeue, WatchdogTick
  <1>6. \/ \E c \in Conns : HandlerDiscard(c) \/ HandlerRequeue(c)
        \/ \E s \in settling : HttpSettle(s)
        \/ WatchdogTick
        \/ discarded' = discarded
    BY DEF Next, Network, Deliver, ServerDrop, ClientDrop, CloseAtServer, Routine, Reset,
       CleanManifest, Connect, Restart, Handler, Receive, Insert, WorkloadReceives, TriggerOk,
       TriggerFail, FailCheck, Exit, Http, JobAcknowledge, JobReject, TakeJob, JobWatchdog, Age,
       vars, server
  <1> QED
    BY <1>2, <1>3, <1>5, <1>6

\* Mistaken only grows when HasJob meets the job of a closed session: of the
\* client's one session, a job and a delivery are both live or neither is.
LEMMA MistakenShrinks ==
  ASSUME CInv, [Next]_vars, \A c \in Conns : ~FindsStale(c)
  PROVE  Mistaken' \subseteq Mistaken
  <1> USE DEF CInv, IInv
  <1> SUFFICES ASSUME NEW m \in Mistaken', m \notin Mistaken PROVE FALSE
    OBVIOUS
  <1>1. m \in Messages /\ Unearned(m)
    BY UnearnedBefore DEF Mistaken
  <1>2. m \notin discarded /\ ~\E c \in Conns : hpc[c] = "discard" /\ Live(cur[c]) /\ MsgOf(cur[c]) = m
    BY <1>1 DEF Mistaken
  <1>3. m \notin discarded'
    <2> SUFFICES ASSUME m \in discarded' PROVE FALSE
      OBVIOUS
    <2>1. PICK s \in settling : s.how = "discard" /\ m = MsgOf(s.tag)
      BY <1>2, DropsSent
    <2> QED
      BY <1>1, <2>1 DEF DiscardsEarned, Unearned, Id
  <1>4. PICK c \in Conns : (hpc[c] = "discard" /\ Live(cur[c]) /\ MsgOf(cur[c]) = m)'
    BY <1>3 DEF Mistaken
  <1>5. CASE hpc[c] = "discard" /\ cur'[c] = cur[c]
    <2>1. PICK t \in Delivered : t = cur[c]
      BY <1>5 DEF HandlerHolds, Busy, HandlerStates, PathType
    <2>2. Live(t)' /\ MsgOf(t)' = m
      BY <1>4, <1>5, <2>1 DEF Live, ConnOf, MsgOf
    <2>3. Live(t) /\ MsgOf(t) = m
      BY <2>2, LiveBefore, RepeatedLasts
    <2> QED
      BY <1>2, <1>5, <2>1, <2>3
  <1>6. CASE Receive(c)
    <2>1. PICK t \in inbox : /\ hpc' = [hpc EXCEPT ![c] = IF MsgOf(t) \in Malformed
                                                          THEN "discard" ELSE "insert"]
                             /\ cur' = [cur EXCEPT ![c] = t]
                             /\ deliv' = deliv
      BY <1>6 DEF Receive, Step, OnConn, server
    <2>2. MsgOf(t) \in Malformed /\ cur'[c] = t
      BY <1>4, <2>1 DEF PathType
    <2>3. MsgOf(t) = m
      BY <1>4, <2>1, <2>2 DEF MsgOf
    <2> QED
      BY <1>1, <2>2, <2>3 DEF Unearned
  <1>7. CASE Insert(c)
    <2> DEFINE t == cur[c]
               v == jobs[Id(t)]
    <2>1. hpc[c] = "insert" /\ cur' = cur /\ v # None /\ deliv' = deliv /\ UNCHANGED <<srvOpen, cliOpen>>
      BY <1>4, <1>7 DEF Insert, Step, server, PathType
    <2>2. t \in Delivered /\ Id(t) \in Ids
      BY <2>1, DeliveryTypes DEF HandlerHolds, Busy, HandlerStates, PathType
    <2>3. Live(t) /\ MsgOf(t) = m
      BY <1>4, <2>1 DEF Live, ConnOf, MsgOf
    <2>4. Live(v)
      <3>1. ConnOf(v) \in cliOpen
        BY <1>7, <2>1 DEF FindsStale
      <3> QED
        BY <2>3, <3>1 DEF OneSession, Live
    <2>5. t \in unacked /\ v \in unacked /\ v # t /\ v \in Delivered /\ Id(v) = Id(t)
      BY <2>1, <2>2, <2>3, <2>4 DEF Backed, OneOwner, KeysMatch, PathType
    <2>6. MsgOf(v) # m
      BY <2>3, <2>5 DEF OnePlace
    <2>7. SharesId(m)
      <3>1. Id(v) = IdOf[m]
        BY <2>3, <2>5 DEF Id
      <3> QED
        BY <2>5, <2>6, <3>1 DEF SharesId
    <2> QED
      BY <1>1, <2>7 DEF Unearned
  <1> QED
    BY <1>4, <1>5, <1>6, <1>7, DiscardsFrom

\* messageHandler's HasJob: a message is dropped as a duplicate of itself only
\* once the job of a closed session was found.
THEOREM SelfDropsHaveCause == Spec => SelfDropHasCause
  <1>1. CInv /\ [Next]_vars => [Mistaken' \subseteq Mistaken \/ \E c \in Conns : FindsStale(c)]_vars
    BY MistakenShrinks
  <1> QED
    BY <1>1, CausesInvariant, PTL DEF Spec, SelfDropHasCause

-----------------------------------------------------------------------------
(* A mended messageHandler.  This is a proposal, not the code: the job found *)
(* is compared with the delivery in hand, and a job of a closed session does *)
(* not make a delivery a duplicate.                                          *)

\* A failed Trigger whose job has made way for one of another delivery ends
\* like one whose job is gone: job and delivery are left to their owners.
LeavesForeign(c) ==
  /\ hpc[c] = "fail" /\ jobs[Id(cur[c])] \notin {None, cur[c]}
  /\ Back(c, "fail")
  /\ UNCHANGED <<server, cliOpen, conn, rpc, inbox, manifest, settling, workload>>

\* HasJob disregards the job of a session the client has closed: the delivery
\* takes its place in the manifest, with an age of its own.
ReplacesStale(c) ==
  LET id == Id(cur[c])
  IN /\ jobs[id] # None /\ ConnOf(jobs[id]) \notin cliOpen
     /\ Step(c, "insert", "trigger")
     /\ InsertJobWithDelivery(id, cur[c])
     /\ aged' = aged \ {id}
     /\ UNCHANGED <<server, cliOpen, conn, rpc, inbox, cur, settling, workload>>

\* The steps of JobDelivery, with these in place of the two they mend.
MendedNext ==
  \/ Next /\ \A c \in Conns : ~FindsForeign(c) /\ ~FindsStale(c)
  \/ \E c \in Conns : LeavesForeign(c) \/ ReplacesStale(c)
MendedSpec == Init /\ [][MendedNext]_vars

\* Ending the handler keeps CInv: what was in hand leaves it.
LEMMA LeavingKeeps == ASSUME CInv, NEW c \in Conns, LeavesForeign(c) PROVE CInv'
  <1> USE DEF CInv, IInv
  <1>1. /\ hpc[c] = "fail" /\ hpc' = [hpc EXCEPT ![c] = "idle"] /\ cur' = [cur EXCEPT ![c] = None]
        /\ UNCHANGED <<server, cliOpen, conn, rpc, inbox, manifest, settling, workload>>
    BY DEF LeavesForeign, Back, Step
  <1> USE DEF server, manifest, workload
  <1>2. /\ \A k \in Conns : hpc'[k] = IF k = c THEN "idle" ELSE hpc[k]
        /\ \A k \in Conns : cur'[k] = IF k = c THEN None ELSE cur[k]
    BY <1>1 DEF PathType
  <1>3. PathType'
    BY <1>1 DEF PathType, HandlerStates, Delivered
  <1>4. HandlerHolds' /\ KeysMatch' /\ SessionsPast' /\ OneSession'
    BY <1>1, <1>2 DEF HandlerHolds, Busy, KeysMatch, SessionsPast, OneSession, Id, MsgOf, ConnOf,
       Delivered
  <1>5. OneOwner'
    BY <1>1, <1>2 DEF OneOwner, Busy
  <1>6. Backed'
    BY <1>1, <1>2 DEF Backed, Live, ConnOf
  <1>7. AcksEarned' /\ AckedWasCompleted' /\ Prefetch' /\ OnePlace'
    BY <1>1 DEF AcksEarned, AckedWasCompleted, Prefetch, OnConn, OnePlace, MsgsOf, Id, MsgOf, ConnOf
  <1>8. DiscardsEarned'
    BY <1>1, <1>2 DEF DiscardsEarned, Repeated, Delivered, Id, MsgOf
  <1> QED
    BY <1>3, <1>4, <1>5, <1>6, <1>7, <1>8

\* Replacing the job of a closed session keeps CInv: the new job is of a
\* delivery that was in hand, and in no other place.
LEMMA ReplacingKeeps == ASSUME CInv, NEW c \in Conns, ReplacesStale(c) PROVE CInv'
  <1> USE DEF CInv, IInv
  <1> DEFINE id == Id(cur[c])
  <1>1. /\ hpc[c] = "insert" /\ hpc' = [hpc EXCEPT ![c] = "trigger"]
        /\ jobs' = [jobs EXCEPT ![id] = cur[c]] /\ aged' = aged \ {id}
        /\ UNCHANGED <<server, cliOpen, conn, rpc, inbox, cur, settling, workload>>
    BY DEF ReplacesStale, Step, InsertJobWithDelivery
  <1> USE DEF server, workload
  <1>2. cur[c] # None /\ cur[c] \in Delivered /\ ConnOf(cur[c]) = c /\ id \in Ids
    BY <1>1, DeliveryTypes DEF HandlerHolds, Busy, HandlerStates, PathType
  <1>3. /\ \A k \in Conns : hpc'[k] = IF k = c THEN "trigger" ELSE hpc[k]
        /\ \A k \in Ids : jobs'[k] = IF k = id THEN cur[c] ELSE jobs[k]
    BY <1>1, <1>2 DEF PathType
  <1>4. PathType'
    BY <1>1, <1>2 DEF PathType, HandlerStates, Delivered
  <1>5. HandlerHolds' /\ SessionsPast' /\ OneSession'
    BY <1>1, <1>3 DEF HandlerHolds, Busy, HandlerStates, SessionsPast, OneSession, ConnOf, Delivered
  <1>6. KeysMatch'
    <2>1. \A k \in Ids : jobs'[k] # None => Id(jobs'[k]) = k
      BY <1>3 DEF KeysMatch
    <2> QED
      BY <1>1, <2>1 DEF KeysMatch, Id, MsgOf
  <1>7. OneOwner'
    <2>1. \A k \in Conns : k # c /\ hpc[k] \in Busy => cur[k] # cur[c]
      BY <1>2 DEF HandlerHolds
    <2>2. \A t \in inbox : cur[c] # t
      BY <1>1 DEF OneOwner, Busy, HandlerStates
    <2>3. \A s \in settling : s.tag # cur[c]
      BY <1>1 DEF OneOwner
    <2> QED
      BY <1>1, <1>3, <2>1, <2>2, <2>3 DEF OneOwner, Busy, HandlerStates
  <1>8. Backed'
    <2>1. Live(cur[c]) => cur[c] \in unacked
      BY <1>1 DEF Backed
    <2> QED
      BY <1>1, <1>3, <2>1 DEF Backed, Live, ConnOf
  <1>9. AcksEarned' /\ AckedWasCompleted' /\ Prefetch' /\ OnePlace'
    BY <1>1 DEF AcksEarned, AckedWasCompleted, Prefetch, OnConn, OnePlace, MsgsOf, Id, MsgOf, ConnOf
  <1>10. DiscardsEarned'
    BY <1>1, <1>3 DEF DiscardsEarned, Repeated, Delivered, Id, MsgOf
  <1> QED
    BY <1>4, <1>5, <1>6, <1>7, <1>8, <1>9, <1>10

\* No delivery is leaked, overdue or mistaken for a duplicate.
Clean == Leaked = {} /\ Overdue = {} /\ Mistaken = {}

\* At the start there is no delivery.
LEMMA InitClean == Init => Clean
  <1> SUFFICES ASSUME Init PROVE Clean
    OBVIOUS
  <1>1. Delivered = {} /\ unacked = {}
    BY EmptySeq DEF Init, Delivered
  <1> QED
    BY <1>1 DEF Clean, Leaked, Overdue, Mistaken, Init

\* A handler that ends after Trigger was to settle nothing.
LEMMA LeavingClean == ASSUME CInv, Clean, NEW c \in Conns, LeavesForeign(c) PROVE Clean'
  <1>1. /\ hpc[c] = "fail" /\ \A k \in Conns : hpc'[k] = IF k = c THEN "idle" ELSE hpc[k]
        /\ \A k \in Conns : cur'[k] = IF k = c THEN None ELSE cur[k]
        /\ UNCHANGED <<server, cliOpen, inbox, manifest, settling, workload>>
    BY DEF LeavesForeign, Back, Step, CInv, IInv, PathType
  <1> USE DEF server, manifest, workload
  <1>2. /\ InHand({"insert", "discard", "requeue"})' = InHand({"insert", "discard", "requeue"})
        /\ InHand({"discard", "requeue"})' = InHand({"discard", "requeue"})
    BY <1>1 DEF InHand
  <1>3. JobTags' = JobTags /\ SettlingTags' = SettlingTags /\ Delivered' = Delivered
    BY <1>1 DEF JobTags, SettlingTags, Delivered
  <1>4. \A t : Live(t)' = Live(t) /\ MsgOf(t)' = MsgOf(t) /\ Id(t)' = Id(t)
    BY <1>1 DEF Live, ConnOf, MsgOf, Id
  <1>5. Leaked' = {} /\ Overdue' = {}
    BY <1>1, <1>2, <1>3, <1>4 DEF Clean, Leaked, Overdue
  <1>6. Mistaken' = {}
    BY <1>1, <1>3, <1>4 DEF Clean, Mistaken, Unearned, SharesId
  <1> QED
    BY <1>5, <1>6 DEF Clean

\* The delivery that was in hand is the new job; the old one, of a closed
\* session, nobody waits for.
LEMMA ReplacingClean == ASSUME CInv, Clean, NEW c \in Conns, ReplacesStale(c) PROVE Clean'
  <1> USE DEF CInv, IInv
  <1> DEFINE id == Id(cur[c])
  <1>1. /\ hpc[c] = "insert" /\ hpc' = [hpc EXCEPT ![c] = "trigger"]
        /\ jobs' = [jobs EXCEPT ![id] = cur[c]] /\ ConnOf(jobs[id]) \notin cliOpen
        /\ UNCHANGED <<server, cliOpen, inbox, cur, settling, workload>>
    BY DEF ReplacesStale, Step, InsertJobWithDelivery
  <1> USE DEF server, workload
  <1>2. cur[c] # None /\ cur[c] \in Delivered /\ ConnOf(cur[c]) = c /\ id \in Ids
    BY <1>1, DeliveryTypes DEF HandlerHolds, Busy, HandlerStates, PathType
  <1>3. /\ \A k \in Conns : hpc'[k] = IF k = c THEN "trigger" ELSE hpc[k]
        /\ \A k \in Ids : jobs'[k] = IF k = id THEN cur[c] ELSE jobs[k]
    BY <1>1, <1>2 DEF PathType
  <1>4. /\ Delivered' = Delivered /\ SettlingTags' = SettlingTags
        /\ \A t : Live(t)' = Live(t) /\ MsgOf(t)' = MsgOf(t) /\ Id(t)' = Id(t)
    BY <1>1 DEF Delivered, SettlingTags, Live, ConnOf, MsgOf, Id
  <1>5. JobTags' \subseteq JobTags \cup {cur[c]} /\ cur[c] \in JobTags'
    BY <1>2, <1>3 DEF JobTags
  <1>6. ASSUME NEW t \in JobTags, Live(t) PROVE t \in JobTags'
    BY <1>1, <1>3, <1>6 DEF JobTags, Live
  <1>7. InHand({"discard", "requeue"})' = InHand({"discard", "requeue"})
    BY <1>1, <1>3 DEF InHand
  <1>8. cur[c] \notin InHand({"discard", "requeue"})
    BY <1>1, <1>2 DEF InHand, HandlerHolds, Busy, HandlerStates
  <1>9. Live(cur[c]) => cur[c] \in unacked
    BY <1>1 DEF Backed
  <1>10. Leaked' = {}
    <2>1. InHand({"insert", "discard", "requeue"})
             \subseteq InHand({"insert", "discard", "requeue"})' \cup {cur[c]}
      BY <1>1, <1>3 DEF InHand
    <2> QED
      BY <1>1, <1>4, <1>5, <1>6, <2>1 DEF Clean, Leaked
  <1>11. Overdue' = {}
    BY <1>1, <1>4, <1>5, <1>7, <1>8, <1>9 DEF Clean, Overdue
  <1>12. Mistaken' = {}
    BY <1>1, <1>3, <1>4 DEF Clean, Mistaken, Unearned, SharesId
  <1> QED
    BY <1>10, <1>11, <1>12 DEF Clean

\* Comparing the job in FailCheck and disregarding stale jobs in HasJob is all
\* messageHandler needs: over any number of sessions no delivery is leaked,
\* none is settled twice and no message is taken for a duplicate of itself, as
\* "On error, NACKs and reschedules the job" and amqp.go:250 promise.
THEOREM MendsSuffice ==
  MendedSpec => [](NoDoubleSettle /\ NoLeakedDelivery /\ DiscardedWasRefused)
  <1>1. Init => CInv /\ Clean
    <2>1. Init => OneSession
      BY DEF Init, OneSession
    <2> QED
      BY <2>1, InitInvariant, InitRefines, InitClean DEF CInv
  <1>2. CInv /\ Clean /\ [MendedNext]_vars => CInv' /\ Clean'
    <2> SUFFICES ASSUME CInv, Clean, [MendedNext]_vars PROVE CInv' /\ Clean'
      OBVIOUS
    <2>1. ASSUME [Next]_vars PROVE CInv'
      BY <2>1, NextInvariant, NextRefines, NextDiscards, NextOneSession DEF CInv, IInv
    <2>2. CASE Next /\ \A c \in Conns : ~FindsForeign(c) /\ ~FindsStale(c)
      BY <2>1, <2>2, LeakStep, OverdueShrinks, MistakenShrinks DEF Clean
    <2>3. CASE UNCHANGED vars
      <3>1. Leaked' = Leaked /\ Overdue' = Overdue /\ Mistaken' = Mistaken
        BY <2>3 DEF vars, server, handler, manifest, workload, Leaked, Overdue, Mistaken, Unearned,
                    SharesId, Live, ConnOf, MsgOf, Id, JobTags, SettlingTags, InHand, Delivered
      <3> QED
        BY <2>1, <2>3, <3>1 DEF Clean
    <2>4. CASE \E c \in Conns : LeavesForeign(c) \/ ReplacesStale(c)
      BY <2>4, LeavingKeeps, LeavingClean, ReplacingKeeps, ReplacingClean
    <2> QED
      BY <2>2, <2>3, <2>4 DEF MendedNext
  <1>3. CInv /\ Clean => NoDoubleSettle /\ NoLeakedDelivery /\ DiscardedWasRefused
    <2> SUFFICES ASSUME CInv, Clean PROVE NoDoubleSettle /\ NoLeakedDelivery /\ DiscardedWasRefused
      OBVIOUS
    <2> USE DEF CInv, IInv, Clean
    <2>1. JobTags \cup SettlingTags \cup InHand({"discard", "requeue"}) \subseteq Delivered
      BY DEF JobTags, SettlingTags, InHand, HandlerHolds, Busy, HandlerStates, PathType
    <2>2. NoDoubleSettle
      BY <2>1 DEF Overdue, NoDoubleSettle
    <2>3. NoLeakedDelivery
      BY DEF Leaked, NoLeakedDelivery
    <2>4. DiscardedWasRefused
      BY DEF PathType, Mistaken, Unearned, DiscardedWasRefused
    <2> QED
      BY <2>2, <2>3, <2>4
  <1> QED
    BY <1>1, <1>2, <1>3, PTL DEF MendedSpec
=============================================================================
