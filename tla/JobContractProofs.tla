-------------------------- MODULE JobContractProofs --------------------------
(* The proof that JobDelivery implements MessageContract. *)
EXTENDS JobDeliveryProofs

-----------------------------------------------------------------------------
(* What the refinement needs beside IInv *)

\* A message is in the queue or in one unacked delivery, not in two.
OnePlace == /\ queue \cap MsgsOf(unacked) = {}
            /\ \A t, u \in unacked : MsgOf(t) = MsgOf(u) => t = u

\* A delivery about to be dropped is no CloudEvent, repeats an id or was refused.
DiscardsEarned ==
  /\ \A c \in Conns : hpc[c] = "discard" => MsgOf(cur[c]) \in Malformed \/ Id(cur[c]) \in Repeated
  /\ \A s \in settling : s.how = "discard" => \E k \in refused : IdOf[k] = Id(s.tag)

RInv == IInv /\ OnePlace /\ DiscardsEarned

\* A step of the contract, or none of it.
ContractStep == [Contract!Next]_(Contract!vars)

-----------------------------------------------------------------------------
(* Deliveries and the server's bookkeeping *)

\* Without a new delivery every delivery means what it did.
LEMMA SameDeliveries ==
  ASSUME deliv' = deliv
  PROVE  /\ \A t : MsgOf(t)' = MsgOf(t) /\ Id(t)' = Id(t)
         /\ Delivered' = Delivered /\ Handed' = Handed /\ Repeated' = Repeated
         /\ \A S : MsgsOf(S) = {MsgOf(t)' : t \in S}
  BY DEF MsgOf, Id, Delivered, Handed, Repeated, MsgsOf

\* Taking deliveries out of unacked takes their messages out of held.
LEMMA HeldWithout ==
  ASSUME PathType, OnePlace, deliv' = deliv, NEW S \in SUBSET unacked, unacked' = unacked \ S
  PROVE  /\ MsgsOf(unacked)' = MsgsOf(unacked) \ MsgsOf(S)
         /\ MsgsOf(S) \subseteq MsgsOf(unacked)
         /\ \A t, u \in unacked' : MsgOf(t)' = MsgOf(u)' => t = u
  BY SameDeliveries DEF OnePlace, MsgsOf

\* The server ends sessions: what they held is returned.
LEMMA CloseReturns ==
  ASSUME PathType, OnePlace, NEW cs, CloseAtServer(cs), completed' = completed, refused' = refused
  PROVE  ContractStep /\ OnePlace'
  <1> DEFINE back == {t \in unacked : ConnOf(t) \in cs}
  <1>1. /\ unacked' = unacked \ back /\ queue' = queue \cup MsgsOf(back)
        /\ deliv' = deliv /\ acked' = acked /\ discarded' = discarded
    BY DEF CloseAtServer
  <1>2. back \in SUBSET unacked
    OBVIOUS
  <1> HIDE DEF back
  <1>3. /\ MsgsOf(unacked)' = MsgsOf(unacked) \ MsgsOf(back)
        /\ MsgsOf(back) \subseteq MsgsOf(unacked)
        /\ \A t, u \in unacked' : MsgOf(t)' = MsgOf(u)' => t = u
    BY <1>1, <1>2, HeldWithout
  <1>4. Handed' = Handed /\ Repeated' = Repeated
    BY <1>1, SameDeliveries
  <1>5. Contract!Return(MsgsOf(back))
    BY <1>1, <1>3, <1>4 DEF Contract!Return
  <1>6. Contract!Next
    BY <1>3, <1>5 DEF Contract!Next
  <1> QED
    BY <1>1, <1>3, <1>6 DEF ContractStep, OnePlace

\* Ack or Nack of S settles ok and breaks the session of back.
Splits(S, how, ok, back) ==
  /\ ok \subseteq S \cap unacked /\ back \subseteq unacked
  /\ unacked' = unacked \ (ok \cup back)
  /\ queue' = queue \cup MsgsOf(back) \cup (IF how = "requeue" THEN MsgsOf(ok) ELSE {})
  /\ acked' = acked \cup (IF how = "ack" THEN MsgsOf(ok) ELSE {})
  /\ discarded' = discarded \cup (IF how = "discard" THEN MsgsOf(ok) ELSE {})
  /\ deliv' = deliv
  /\ \A t : S = {t} => ok = {} \/ (ok = {t} /\ back = {})

\* Ack and Nack split what they take out of unacked: what they were called
\* on, and what the broken session held; one delivery is never both.
LEMMA SettleSplits ==
  ASSUME PathType, NEW S, NEW how, Settle(S, how)
  PROVE  \E ok, back : Splits(S, how, ok, back)
  <1> DEFINE live == {t \in S : ConnOf(t) \in cliOpen /\ ConnOf(t) \in srvOpen}
             ok == live \cap unacked
             broken == {ConnOf(t) : t \in live \ unacked}
             back == {t \in unacked \ ok : ConnOf(t) \in broken}
  <1>1. ok \subseteq S \cap unacked /\ back \subseteq unacked
    OBVIOUS
  <1>2. ASSUME NEW t, S = {t} PROVE ok = {} \/ (ok = {t} /\ back = {})
    BY <1>2
  <1>3. /\ unacked' = unacked \ (ok \cup back)
        /\ queue' = queue \cup MsgsOf(back) \cup (IF how = "requeue" THEN MsgsOf(ok) ELSE {})
        /\ acked' = acked \cup (IF how = "ack" THEN MsgsOf(ok) ELSE {})
        /\ discarded' = discarded \cup (IF how = "discard" THEN MsgsOf(ok) ELSE {})
        /\ deliv' = deliv
    BY DEF Settle
  <1> HIDE DEF ok, back
  <1>4. Splits(S, how, ok, back)
    BY <1>1, <1>2, <1>3 DEF Splits
  <1> QED
    BY <1>4

\* Nack with requeue, of any deliveries, is a return.
LEMMA RequeueReturns ==
  ASSUME PathType, OnePlace, NEW S, Settle(S, "requeue"),
         completed' = completed, refused' = refused
  PROVE  ContractStep /\ OnePlace'
  <1>0. PICK ok, back : Splits(S, "requeue", ok, back)
    BY SettleSplits
  <1>1. /\ ok \subseteq unacked /\ back \subseteq unacked
        /\ unacked' = unacked \ (ok \cup back)
        /\ queue' = queue \cup MsgsOf(back) \cup MsgsOf(ok)
        /\ acked' = acked /\ discarded' = discarded /\ deliv' = deliv
    BY <1>0 DEF Splits
  <1> DEFINE all == ok \cup back
  <1>2. all \in SUBSET unacked /\ MsgsOf(all) = MsgsOf(back) \cup MsgsOf(ok)
    BY <1>1 DEF MsgsOf
  <1>3. unacked' = unacked \ all /\ queue' = queue \cup MsgsOf(all)
    BY <1>1, <1>2
  <1> HIDE DEF all
  <1>4. /\ MsgsOf(unacked)' = MsgsOf(unacked) \ MsgsOf(all)
        /\ MsgsOf(all) \subseteq MsgsOf(unacked)
        /\ \A t, u \in unacked' : MsgOf(t)' = MsgOf(u)' => t = u
    BY <1>1, <1>2, <1>3, HeldWithout
  <1>5. Handed' = Handed /\ Repeated' = Repeated
    BY <1>1, SameDeliveries
  <1>6. Contract!Return(MsgsOf(all))
    BY <1>1, <1>3, <1>4, <1>5 DEF Contract!Return
  <1>7. Contract!Next
    BY <1>4, <1>6 DEF Contract!Next
  <1> QED
    BY <1>3, <1>4, <1>7 DEF ContractStep, OnePlace

\* Ack or Nack of one delivery, for a reason the contract accepts.
LEMMA SettleOne ==
  ASSUME PathType, OnePlace, NEW t \in Delivered, NEW how \in Outcomes, Settle({t}, how),
         completed' = completed, refused' = refused,
         how = "ack" => \E k \in completed : IdOf[k] = Id(t),
         how = "discard" => \/ MsgOf(t) \in Malformed
                            \/ \E k \in refused : IdOf[k] = Id(t)
                            \/ Id(t) \in Repeated
  PROVE  ContractStep /\ OnePlace'
  <1>0. PICK ok, back : Splits({t}, how, ok, back)
    BY SettleSplits
  <1>1. /\ ok \subseteq unacked /\ back \subseteq unacked
        /\ unacked' = unacked \ (ok \cup back)
        /\ queue' = queue \cup MsgsOf(back) \cup (IF how = "requeue" THEN MsgsOf(ok) ELSE {})
        /\ acked' = acked \cup (IF how = "ack" THEN MsgsOf(ok) ELSE {})
        /\ discarded' = discarded \cup (IF how = "discard" THEN MsgsOf(ok) ELSE {})
        /\ deliv' = deliv
        /\ ok = {} \/ (ok = {t} /\ back = {})
    BY <1>0 DEF Splits
  <1>2. Handed' = Handed /\ Repeated' = Repeated
    BY <1>1, SameDeliveries
  <1>3. CASE how = "requeue"
    BY <1>3, RequeueReturns
  <1>4. CASE ok = {}
    <2>1. /\ unacked' = unacked \ back /\ queue' = queue \cup MsgsOf(back)
          /\ acked' = acked /\ discarded' = discarded
      BY <1>1, <1>4 DEF MsgsOf
    <2>2. /\ MsgsOf(unacked)' = MsgsOf(unacked) \ MsgsOf(back)
          /\ MsgsOf(back) \subseteq MsgsOf(unacked)
          /\ \A v, u \in unacked' : MsgOf(v)' = MsgOf(u)' => v = u
      BY <1>1, <2>1, HeldWithout
    <2>3. Contract!Return(MsgsOf(back))
      BY <1>2, <2>1, <2>2 DEF Contract!Return
    <2>4. Contract!Next
      BY <2>2, <2>3 DEF Contract!Next
    <2> QED
      BY <2>1, <2>2, <2>4 DEF ContractStep, OnePlace
  <1>5. CASE ok = {t} /\ back = {} /\ how # "requeue"
    <2>1. t \in unacked /\ unacked' = unacked \ {t} /\ queue' = queue
      BY <1>1, <1>5 DEF MsgsOf
    <2>2. MsgsOf({t}) = {MsgOf(t)}
      BY DEF MsgsOf
    <2>3. /\ MsgsOf(unacked)' = MsgsOf(unacked) \ {MsgOf(t)}
          /\ MsgOf(t) \in MsgsOf(unacked)
          /\ \A v, u \in unacked' : MsgOf(v)' = MsgOf(u)' => v = u
      <3>1. {t} \in SUBSET unacked
        BY <2>1
      <3> QED
        BY <1>1, <2>1, <2>2, <3>1, HeldWithout
    <2>4. MsgOf(t) \in Messages /\ Id(t) = IdOf[MsgOf(t)]
      BY DeliveryTypes DEF Id
    <2>5. ASSUME how = "ack" PROVE ContractStep
      <3>1. acked' = acked \cup {MsgOf(t)} /\ discarded' = discarded
        BY <1>1, <1>5, <2>2, <2>5
      <3>2. Contract!Ack(MsgOf(t))
        BY <1>2, <2>1, <2>3, <2>4, <2>5, <3>1 DEF Contract!Ack
      <3> QED
        BY <2>4, <3>2 DEF Contract!Next, ContractStep
    <2>6. ASSUME how = "discard" PROVE ContractStep
      <3>1. discarded' = discarded \cup {MsgOf(t)} /\ acked' = acked
        BY <1>1, <1>5, <2>2, <2>6
      <3>2. Contract!Drop(MsgOf(t))
        BY <1>2, <2>1, <2>3, <2>4, <2>6, <3>1 DEF Contract!Drop
      <3> QED
        BY <2>4, <3>2 DEF Contract!Next, ContractStep
    <2>7. OnePlace'
      BY <2>1, <2>3 DEF OnePlace
    <2> QED
      BY <1>5, <2>5, <2>6, <2>7 DEF Outcomes
  <1> QED
    BY <1>1, <1>3, <1>4, <1>5

\* basic.deliver hands a message out.
LEMMA DeliverHands ==
  ASSUME PathType, OnePlace, NEW m \in Messages, NEW c \in Conns, Deliver(m, c)
  PROVE  /\ ContractStep /\ OnePlace'
         /\ Repeated \subseteq Repeated'
         /\ \A t \in Delivered : MsgOf(t)' = MsgOf(t) /\ Id(t)' = Id(t)
  <1>0. PICK n : n = Len(deliv')
    OBVIOUS
  <1>1. /\ n = Len(deliv) + 1 /\ Len(deliv) \in Nat
        /\ \A t \in Delivered : deliv'[t] = deliv[t]
        /\ deliv'[n] = [msg |-> m, conn |-> c]
    BY <1>0, DeliverAppends
  <1>2. /\ m \in queue /\ queue' = queue \ {m} /\ unacked' = unacked \cup {n}
        /\ acked' = acked /\ discarded' = discarded
        /\ completed' = completed /\ refused' = refused
    BY <1>0 DEF Deliver, workload
  <1>3. \A t \in Delivered : MsgOf(t)' = MsgOf(t) /\ Id(t)' = Id(t)
    BY <1>1 DEF MsgOf, Id
  <1>4. MsgOf(n)' = m /\ Id(n)' = IdOf[m] /\ n \notin Delivered
    BY <1>1 DEF MsgOf, Id, Delivered
  <1>5. Delivered' = Delivered \cup {n}
    BY <1>0, <1>1 DEF Delivered
  <1>6. MsgsOf(unacked)' = MsgsOf(unacked) \cup {m}
    BY <1>2, <1>3, <1>4 DEF MsgsOf, PathType
  <1>7. Handed' = Handed \cup {IdOf[m]}
    BY <1>3, <1>4, <1>5 DEF Handed
  <1>8. Repeated' = Repeated \cup ({IdOf[m]} \cap Handed)
    <2> DEFINE late == {u \in Delivered : \E v \in 1..(u - 1) : Id(v) = Id(u)}
    <2>1. \A u \in Delivered : 1..(u - 1) \subseteq Delivered
      BY <1>1 DEF Delivered
    <2>2. \A u \in Delivered : u \in late' <=> u \in late
      BY <1>3, <1>5, <2>1
    <2>3. n \in late' <=> IdOf[m] \in Handed
      <3>1. 1..(n - 1) = Delivered
        BY <1>1 DEF Delivered
      <3> QED
        BY <1>3, <1>4, <1>5, <3>1 DEF Handed
    <2>4. late \subseteq Delivered /\ late' \subseteq Delivered'
      OBVIOUS
    <2> HIDE DEF late
    <2>5. {Id(t) : t \in late}' = {Id(t) : t \in late} \cup ({IdOf[m]} \cap Handed)
      BY <1>3, <1>4, <1>5, <2>2, <2>3, <2>4
    <2> QED
      BY <2>5 DEF Repeated, late
  <1>9. Contract!Hand(m)
    BY <1>2, <1>6, <1>7, <1>8 DEF Contract!Hand
  <1>10. ContractStep
    BY <1>9 DEF Contract!Next, ContractStep
  <1>11. OnePlace'
    <2>1. \A t \in unacked : MsgOf(t) # m
      BY <1>2 DEF OnePlace, MsgsOf
    <2>2. \A t, u \in unacked' : MsgOf(t)' = MsgOf(u)' => t = u
      BY <1>2, <1>3, <1>4, <2>1 DEF OnePlace, PathType
    <2> QED
      BY <1>2, <1>6, <2>2 DEF OnePlace
  <1> QED
    BY <1>3, <1>8, <1>10, <1>11

-----------------------------------------------------------------------------
(* Discards are earned *)

\* A delivery that finds a job of its id repeats that id.
LEMMA FoundMeansRepeated ==
  ASSUME PathType, KeysMatch, NEW t \in Delivered, jobs[Id(t)] # None, jobs[Id(t)] # t
  PROVE  Id(t) \in Repeated
  <1> DEFINE u == jobs[Id(t)]
  <1>1. u \in Delivered /\ Id(u) = Id(t)
    BY DeliveryTypes DEF KeysMatch, PathType
  <1>2. u # t
    OBVIOUS
  <1> HIDE DEF u
  <1>3. u \in 1..(t - 1) \/ t \in 1..(u - 1)
    BY <1>1, <1>2 DEF Delivered
  <1> QED
    BY <1>1, <1>3 DEF Repeated

\* Only JobReject leaves a discard to settle, and the refusals last.
LEMMA DiscardsPend ==
  ASSUME PathType, KeysMatch, [Next]_vars
  PROVE  /\ refused \subseteq refused'
         /\ \A s \in settling' \ settling :
              /\ s.tag \in Delivered
              /\ s.how = "discard" => \E k \in refused' : IdOf[k] = Id(s.tag)
  <1>1. refused \subseteq refused'
    BY DEF Next, Network, Deliver, ServerDrop, ClientDrop, Routine, Reset, CleanManifest,
       Connect, Restart, Handler, Receive, Insert, HandlerDiscard, WorkloadReceives, TriggerOk,
       TriggerFail, FailCheck, HandlerRequeue, Exit, Http, JobAcknowledge, JobReject,
       HttpSettle, JobWatchdog, Age, WatchdogTick, vars, workload
  <1>2. ASSUME NEW m \in Messages, JobAcknowledge(m) \/ JobReject(m), NEW s \in settling' \ settling,
               s.how = "discard"
        PROVE  \E k \in refused' : IdOf[k] = Id(s.tag)
    <2>1. PICK how \in Outcomes : TakeJob(m, how) /\ (how = "discard" => m \in refused')
      BY <1>2 DEF JobAcknowledge, JobReject, Outcomes
    <2>2. s.tag = jobs[IdOf[m]] /\ s.how = how /\ jobs[IdOf[m]] # None
      BY <1>2, <2>1 DEF TakeJob
    <2>3. IdOf[m] \in Ids
      BY MessagesAssumption
    <2>4. Id(s.tag) = IdOf[m]
      BY <2>2, <2>3 DEF KeysMatch
    <2> QED
      BY <1>2, <2>1, <2>2, <2>4
  <1>3. (\E m \in Messages : JobAcknowledge(m) \/ JobReject(m)) \/ settling' \subseteq settling
    BY DEF Next, Network, Deliver, ServerDrop, ClientDrop, Routine, Reset, CleanManifest,
       Connect, Restart, Handler, Receive, Insert, HandlerDiscard, WorkloadReceives, TriggerOk,
       TriggerFail, FailCheck, HandlerRequeue, Exit, Http, HttpSettle, JobWatchdog, Age,
       WatchdogTick, vars
  <1> QED
    BY <1>1, <1>2, <1>3, AcksPend

\* Nothing that was delivered becomes less so.
LEMMA RepeatedLasts ==
  ASSUME PathType, OnePlace, [Next]_vars
  PROVE  /\ Repeated \subseteq Repeated'
         /\ \A t \in Delivered : MsgOf(t)' = MsgOf(t) /\ Id(t)' = Id(t)
  <1>1. ASSUME NEW m \in Messages, NEW c \in Conns, Deliver(m, c)
        PROVE  /\ Repeated \subseteq Repeated'
               /\ \A t \in Delivered : MsgOf(t)' = MsgOf(t) /\ Id(t)' = Id(t)
    BY <1>1, DeliverHands
  <1>2. (\E m \in Messages, c \in Conns : Deliver(m, c)) \/ deliv' = deliv
    BY DEF Next, Network, ServerDrop, ClientDrop, CloseAtServer, Routine, Reset, CleanManifest,
       Connect, Restart, Handler, Receive, Insert, HandlerDiscard, WorkloadReceives, TriggerOk,
       TriggerFail, FailCheck, HandlerRequeue, Exit, Http, JobAcknowledge, JobReject, TakeJob,
       HttpSettle, JobWatchdog, Age, WatchdogTick, Settle, vars, server
  <1> QED
    BY <1>1, <1>2, SameDeliveries

\* A handler that is about to discard was about to before, or has just found
\* its delivery malformed or its id taken.
LEMMA DiscardsFrom ==
  ASSUME PathType, [Next]_vars, NEW c \in Conns, hpc'[c] = "discard"
  PROVE  (hpc[c] = "discard" /\ cur'[c] = cur[c]) \/ Receive(c) \/ Insert(c)
  <1>1. ASSUME hpc' = hpc, cur' = cur PROVE hpc[c] = "discard" /\ cur'[c] = cur[c]
    BY <1>1
  <1>2. CASE Network \/ Http \/ JobWatchdog \/ UNCHANGED vars
    <2>1. hpc' = hpc /\ cur' = cur
      BY <1>2 DEF Network, Deliver, ServerDrop, ClientDrop, Http, JobAcknowledge, JobReject,
         TakeJob, HttpSettle, JobWatchdog, Age, WatchdogTick, vars, handler
    <2> QED
      BY <1>1, <2>1
  <1>3. CASE Reset \/ CleanManifest
    BY <1>1, <1>3 DEF Reset, CleanManifest, handler
  <1>4. CASE Connect
    BY <1>4 DEF Connect, PathType
  <1>5. CASE Restart
    BY <1>5 DEF Restart
  <1>6. ASSUME NEW k \in Conns, Handler(k), ~Receive(c), ~Insert(c)
        PROVE  hpc[c] = "discard" /\ cur'[c] = cur[c]
    <2>1. hpc'[c] = hpc[c] /\ cur'[c] = cur[c]
      <3>1. CASE k # c
        BY <1>6, <3>1 DEF Handler, Receive, Insert, HandlerDiscard, WorkloadReceives, TriggerOk,
                          TriggerFail, FailCheck, HandlerRequeue, Exit, Step, Back, PathType
      <3>2. CASE k = c
        <4>1. \E to \in HandlerStates \ {"discard"} : hpc' = [hpc EXCEPT ![c] = to]
          BY <1>6, <3>2 DEF Handler, HandlerDiscard, WorkloadReceives, TriggerOk, TriggerFail,
                            FailCheck, HandlerRequeue, Exit, Step, Back, HandlerStates
        <4> QED
          BY <4>1 DEF PathType
      <3> QED
        BY <3>1, <3>2
    <2> QED
      BY <2>1
  <1> QED
    BY <1>2, <1>3, <1>4, <1>5, <1>6 DEF Next, Routine

\* messageHandler nacks without requeue only what Unmarshal or HasJob turned
\* down, JobReject only what the workload refused.
LEMMA NextDiscards ==
  ASSUME IInv, OnePlace, DiscardsEarned, [Next]_vars
  PROVE  DiscardsEarned'
  <1> USE DEF IInv
  <1>1. /\ Repeated \subseteq Repeated'
        /\ \A t \in Delivered : MsgOf(t)' = MsgOf(t) /\ Id(t)' = Id(t)
    BY RepeatedLasts
  <1>2. ASSUME NEW s \in settling', s.how = "discard"
        PROVE  \E k \in refused' : IdOf[k] = Id(s.tag)'
    <2>1. s.tag \in Delivered /\ \E k \in refused' : IdOf[k] = Id(s.tag)
      <3>1. CASE s \in settling
        BY <1>2, <3>1, DiscardsPend DEF DiscardsEarned, PathType
      <3>2. CASE s \notin settling
        BY <1>2, <3>2, DiscardsPend
      <3> QED
        BY <3>1, <3>2
    <2> QED
      BY <1>1, <2>1
  <1>3. ASSUME NEW c \in Conns, hpc'[c] = "discard"
        PROVE  (MsgOf(cur[c]) \in Malformed \/ Id(cur[c]) \in Repeated)'
    <2>1. \/ hpc[c] = "discard" /\ cur'[c] = cur[c]
          \/ Receive(c) \/ Insert(c)
      BY <1>3, DiscardsFrom
    <2>2. CASE hpc[c] = "discard" /\ cur'[c] = cur[c]
      <3>1. cur[c] \in Delivered
        BY <2>2 DEF HandlerHolds, Busy, HandlerStates, PathType
      <3> QED
        BY <1>1, <2>2, <3>1 DEF DiscardsEarned
    <2>3. CASE Receive(c)
      <3>1. PICK t \in inbox : /\ hpc' = [hpc EXCEPT ![c] = IF MsgOf(t) \in Malformed
                                                            THEN "discard" ELSE "insert"]
                               /\ cur' = [cur EXCEPT ![c] = t]
        BY <2>3 DEF Receive, Step, OnConn
      <3>2. MsgOf(t) \in Malformed /\ cur'[c] = t /\ t \in Delivered
        BY <1>3, <3>1 DEF PathType
      <3> QED
        BY <1>1, <3>2
    <2>4. CASE Insert(c)
      <3>1. hpc[c] = "insert" /\ cur' = cur /\ jobs[Id(cur[c])] # None
        BY <1>3, <2>4 DEF Insert, Step, PathType
      <3>2. cur[c] \in Delivered
        BY <3>1 DEF HandlerHolds, Busy, HandlerStates, PathType
      <3>3. jobs[Id(cur[c])] # cur[c]
        BY <3>1, <3>2, DeliveryTypes DEF OneOwner
      <3>4. Id(cur[c]) \in Repeated
        BY <3>1, <3>2, <3>3, FoundMeansRepeated
      <3> QED
        BY <1>1, <3>1, <3>2, <3>4
    <2> QED
      BY <2>1, <2>2, <2>3, <2>4
  <1> QED
    BY <1>2, <1>3 DEF DiscardsEarned

-----------------------------------------------------------------------------
(* The refinement *)

\* A step that moves no message is none of the contract's.
LEMMA Stutters ==
  ASSUME OnePlace, UNCHANGED <<queue, deliv, unacked, acked, discarded, completed, refused>>
  PROVE  ContractStep /\ OnePlace'
  <1>1. /\ Handed' = Handed /\ Repeated' = Repeated
        /\ \A t : MsgOf(t)' = MsgOf(t)
    BY SameDeliveries
  <1>2. MsgsOf(unacked)' = MsgsOf(unacked)
    BY <1>1 DEF MsgsOf
  <1>3. UNCHANGED Contract!vars
    BY <1>1, <1>2 DEF Contract!vars, Contract!places
  <1> QED
    BY <1>1, <1>2, <1>3 DEF ContractStep, OnePlace

\* Every step of AMPS, RabbitMQ or the workload is a step of the contract, or
\* moves no message.
LEMMA NextRefines ==
  ASSUME IInv, OnePlace, DiscardsEarned, [Next]_vars
  PROVE  ContractStep /\ OnePlace'
  <1> USE DEF IInv
  <1>1. ASSUME NEW m \in Messages, NEW c \in Conns, Deliver(m, c)
        PROVE  ContractStep /\ OnePlace'
    BY <1>1, DeliverHands
  <1>2. ASSUME NEW c \in Conns, ServerDrop(c)
        PROVE  ContractStep /\ OnePlace'
    BY <1>2, CloseReturns DEF ServerDrop, workload
  <1>3. ASSUME Restart
        PROVE  ContractStep /\ OnePlace'
    BY <1>3, CloseReturns DEF Restart, workload
  <1>4. ASSUME NEW c \in Conns, HandlerDiscard(c)
        PROVE  ContractStep /\ OnePlace'
    <2>1. /\ hpc[c] = "discard" /\ Settle({cur[c]}, "discard")
          /\ completed' = completed /\ refused' = refused
      BY <1>4 DEF HandlerDiscard, Back, Step, workload
    <2>2. cur[c] \in Delivered
      BY <2>1 DEF HandlerHolds, Busy, HandlerStates, PathType
    <2>3. MsgOf(cur[c]) \in Malformed \/ Id(cur[c]) \in Repeated
      BY <2>1 DEF DiscardsEarned
    <2>4. "discard" \in Outcomes /\ "discard" # "ack"
      BY DEF Outcomes
    <2> QED
      BY <2>1, <2>2, <2>3, <2>4, SettleOne
  <1>5. ASSUME NEW c \in Conns, HandlerRequeue(c)
        PROVE  ContractStep /\ OnePlace'
    BY <1>5, RequeueReturns DEF HandlerRequeue, workload
  <1>6. ASSUME NEW s \in settling, HttpSettle(s)
        PROVE  ContractStep /\ OnePlace'
    <2>1. Settle({s.tag}, s.how) /\ completed' = completed /\ refused' = refused
      BY <1>6 DEF HttpSettle, workload
    <2>2. s.tag \in Delivered /\ s.how \in Outcomes
      BY DEF PathType
    <2>3. s.how = "ack" => \E k \in completed : IdOf[k] = Id(s.tag)
      BY DEF AcksEarned
    <2>4. s.how = "discard" => \E k \in refused : IdOf[k] = Id(s.tag)
      BY DEF DiscardsEarned
    <2> QED
      BY <2>1, <2>2, <2>3, <2>4, SettleOne
  <1>7. ASSUME WatchdogTick
        PROVE  ContractStep /\ OnePlace'
    BY <1>7, RequeueReturns DEF WatchdogTick, workload
  <1>8. ASSUME NEW m \in Messages, JobAcknowledge(m) \/ JobReject(m)
        PROVE  ContractStep /\ OnePlace'
    <2>1. PICK how \in Outcomes : TakeJob(m, how)
      BY <1>8 DEF JobAcknowledge, JobReject, Outcomes
    <2>2. UNCHANGED <<queue, deliv, unacked, acked, discarded>>
      BY <2>1 DEF TakeJob, server
    <2>3. /\ Handed' = Handed /\ Repeated' = Repeated
          /\ \A t : MsgOf(t)' = MsgOf(t)
      BY <2>2, SameDeliveries
    <2>4. MsgsOf(unacked)' = MsgsOf(unacked) /\ OnePlace'
      BY <2>2, <2>3 DEF MsgsOf, OnePlace
    <2>5. \/ completed' = completed \cup {m} /\ refused' = refused
          \/ refused' = refused \cup {m} /\ completed' = completed
          \/ completed' = completed /\ refused' = refused
      BY <1>8 DEF JobAcknowledge, JobReject
    <2>6. IdOf[m] \in Handed
      <3>1. IdOf[m] \in Ids /\ jobs[IdOf[m]] # None
        BY <2>1, MessagesAssumption DEF TakeJob
      <3>2. jobs[IdOf[m]] \in Delivered /\ Id(jobs[IdOf[m]]) = IdOf[m]
        BY <3>1 DEF KeysMatch, PathType
      <3> QED
        BY <3>2 DEF Handed
    <2>7. CASE completed' = completed /\ refused' = refused
      BY <2>2, <2>7, Stutters
    <2>8. CASE ~(completed' = completed /\ refused' = refused)
      <3>1. Contract!Report(m)
        BY <2>2, <2>3, <2>4, <2>5, <2>6, <2>8 DEF Contract!Report, Contract!places
      <3>2. Contract!Next
        BY <3>1 DEF Contract!Next
      <3> QED
        BY <2>4, <3>2 DEF ContractStep
    <2> QED
      BY <2>7, <2>8
  <1>9. CASE UNCHANGED <<queue, deliv, unacked, acked, discarded, completed, refused>>
    BY <1>9, Stutters
  <1>10. \/ \E m \in Messages, c \in Conns : Deliver(m, c)
         \/ \E c \in Conns : ServerDrop(c) \/ HandlerDiscard(c) \/ HandlerRequeue(c)
         \/ Restart \/ WatchdogTick
         \/ \E s \in settling : HttpSettle(s)
         \/ \E m \in Messages : JobAcknowledge(m) \/ JobReject(m)
         \/ UNCHANGED <<queue, deliv, unacked, acked, discarded, completed, refused>>
    BY DEF Next, Network, ClientDrop, Routine, Reset, CleanManifest, Connect, Handler, Receive,
       Insert, WorkloadReceives, TriggerOk, TriggerFail, FailCheck, Exit, Http, JobWatchdog, Age,
       vars, server, workload
  <1> QED
    BY <1>1, <1>2, <1>3, <1>4, <1>5, <1>6, <1>7, <1>8, <1>9, <1>10

\* The queue starts as the contract says, and no message is anywhere else.
LEMMA InitRefines == Init => Contract!Init /\ OnePlace /\ DiscardsEarned
  <1> SUFFICES ASSUME Init PROVE Contract!Init /\ OnePlace /\ DiscardsEarned
    OBVIOUS
  <1>1. Delivered = {} /\ MsgsOf(unacked) = {}
    BY EmptySeq DEF Init, Delivered, MsgsOf
  <1>2. Handed = {} /\ Repeated = {}
    BY <1>1 DEF Handed, Repeated
  <1> QED
    BY <1>1, <1>2 DEF Init, Contract!Init, OnePlace, DiscardsEarned

\* The promise to the owner of the queue holds of messageHandler, the endpoints,
\* the watchdog and amqpConnectRoutine together: JobDelivery implements
\* MessageContract, for all sizes of the system.
THEOREM ContractKept == Spec => ImplementsContract
  <1>1. Init => RInv
    BY InitInvariant, InitRefines DEF RInv
  <1>2. RInv /\ [Next]_vars => RInv' /\ ContractStep
    BY NextInvariant, NextRefines, NextDiscards DEF RInv
  <1>3. Spec => []RInv /\ [][Contract!Next]_(Contract!vars)
    BY <1>1, <1>2, PTL DEF Spec, ContractStep
  <1> QED
    BY <1>3, InitRefines, PTL DEF Spec, ImplementsContract, Contract!Spec

-----------------------------------------------------------------------------
(* What the contract makes of every message *)

\* Every message is in exactly one place.
Conserved ==
  LET held == MsgsOf(unacked)
  IN /\ queue \cup held \cup acked \cup discarded = Messages
     /\ queue \cap held = {} /\ queue \cap acked = {} /\ queue \cap discarded = {}
     /\ held \cap acked = {} /\ held \cap discarded = {} /\ acked \cap discarded = {}

\* What is acked or dropped stays so.
Final == acked \subseteq acked' /\ discarded \subseteq discarded'

\* The contract's steps move messages from place to place, out of two for good.
LEMMA ContractConserves == Conserved /\ ContractStep => Conserved' /\ Final
  <1> SUFFICES ASSUME Conserved, ContractStep PROVE Conserved' /\ Final
    OBVIOUS
  <1> USE DEF Conserved, Final, Contract!places
  <1>1. ASSUME NEW m \in Messages, Contract!Hand(m) PROVE Conserved' /\ Final
    BY <1>1 DEF Contract!Hand
  <1>2. ASSUME NEW S, Contract!Return(S) PROVE Conserved' /\ Final
    BY <1>2 DEF Contract!Return
  <1>3. ASSUME NEW m \in Messages, Contract!Report(m) PROVE Conserved' /\ Final
    BY <1>3 DEF Contract!Report
  <1>4. ASSUME NEW m \in Messages, Contract!Ack(m) PROVE Conserved' /\ Final
    BY <1>4 DEF Contract!Ack
  <1>5. ASSUME NEW m \in Messages, Contract!Drop(m) PROVE Conserved' /\ Final
    BY <1>5 DEF Contract!Drop
  <1>6. CASE UNCHANGED Contract!vars
    BY <1>6 DEF Contract!vars
  <1> QED
    BY <1>1, <1>2, <1>3, <1>4, <1>5, <1>6 DEF ContractStep, Contract!Next

\* Over every disconnection, restart, timeout and retry of the code a message is
\* in exactly one place, and an Ack or a Nack without requeue is the last of it.
THEOREM NothingVanishes == Spec => []Conserved /\ [][Final]_vars
  <1>1. Init => RInv /\ Conserved
    <2>1. Init => Conserved
      BY InitRefines DEF Init, Conserved, Contract!Init
    <2> QED
      BY <2>1, InitInvariant, InitRefines DEF RInv
  <1>2. RInv /\ Conserved /\ [Next]_vars => RInv' /\ Conserved' /\ Final
    BY NextInvariant, NextRefines, NextDiscards, ContractConserves DEF RInv
  <1> QED
    BY <1>1, <1>2, PTL DEF Spec
=============================================================================
