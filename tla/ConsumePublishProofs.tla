------------------------ MODULE ConsumePublishProofs ------------------------
(* Proofs of the safety properties of ConsumePublish for all its constants. *)
EXTENDS ConsumePublish, SequenceTheorems, TLAPS

-----------------------------------------------------------------------------
(* What Append and Tail do to a queue *)

\* Append, as Deliver and Post use it: the new message is the last one.
LEMMA AppendToQueue ==
  ASSUME NEW S, NEW s \in Seq(S), NEW e \in S
  PROVE  /\ Append(s, e) \in Seq(S) /\ Len(Append(s, e)) = Len(s) + 1 /\ Len(s) \in Nat
         /\ ToSet(Append(s, e)) = ToSet(s) \cup {e}
  <1>1. /\ Append(s, e) \in Seq(S) /\ Len(Append(s, e)) = Len(s) + 1 /\ Len(s) \in Nat
        /\ DOMAIN s = 1..Len(s) /\ DOMAIN Append(s, e) = 1..(Len(s) + 1)
        /\ \A i \in 1..Len(s) : Append(s, e)[i] = s[i]
        /\ Append(s, e)[Len(s) + 1] = e
    BY AppendProperties, LenProperties
  <1>2. 1..(Len(s) + 1) = 1..Len(s) \cup {Len(s) + 1}
    BY <1>1
  <1> QED
    BY <1>1, <1>2 DEF ToSet

\* A message larger than all of a queue keeps it in order (Deliver, Post).
LEMMA AppendIncreases ==
  ASSUME NEW s \in Seq(Nat), NEW e \in Nat, Increasing(s), \A x \in ToSet(s) : x < e
  PROVE  Increasing(Append(s, e))
  <1>1. /\ Len(Append(s, e)) = Len(s) + 1 /\ Len(s) \in Nat /\ DOMAIN s = 1..Len(s)
        /\ \A i \in 1..Len(s) : Append(s, e)[i] = s[i]
        /\ Append(s, e)[Len(s) + 1] = e
    BY AppendProperties, LenProperties
  <1> QED
    BY <1>1 DEF Increasing, ToSet

\* Receive splits the buffer into the message in hand and the rest.
LEMMA TailOfQueue ==
  ASSUME NEW S, NEW s \in Seq(S), s # <<>>
  PROVE  /\ Head(s) \in S /\ Tail(s) \in Seq(S) /\ Len(Tail(s)) = Len(s) - 1 /\ Len(s) \in Nat
         /\ Head(s) \in ToSet(s) /\ ToSet(s) = {Head(s)} \cup ToSet(Tail(s))
  <1>1. /\ Head(s) \in S /\ Tail(s) \in Seq(S) /\ Len(Tail(s)) = Len(s) - 1
        /\ Len(s) \in Nat \ {0} /\ DOMAIN s = 1..Len(s) /\ DOMAIN Tail(s) = 1..(Len(s) - 1)
        /\ Head(s) = s[1] /\ \A i \in 1..(Len(s) - 1) : Tail(s)[i] = s[i + 1]
    BY HeadTailProperties, LenProperties, EmptySeq
  <1>2. \A i \in 1..Len(s) : i = 1 \/ (i - 1 \in 1..(Len(s) - 1) /\ i = (i - 1) + 1)
    BY <1>1
  <1>3. Head(s) \in ToSet(s)
    BY <1>1 DEF ToSet
  <1>4. ToSet(Tail(s)) \subseteq ToSet(s)
    <2> SUFFICES ASSUME NEW i \in 1..(Len(s) - 1) PROVE Tail(s)[i] \in ToSet(s)
      BY <1>1 DEF ToSet
    <2>1. i + 1 \in 1..Len(s) /\ Tail(s)[i] = s[i + 1]
      BY <1>1
    <2> QED
      BY <1>1, <2>1 DEF ToSet
  <1>5. ASSUME NEW i \in 1..Len(s), i # 1 PROVE s[i] \in ToSet(Tail(s))
    <2>1. i - 1 \in 1..(Len(s) - 1) /\ Tail(s)[i - 1] = s[i]
      BY <1>1, <1>2, <1>5
    <2> QED
      BY <1>1, <2>1 DEF ToSet
  <1>6. ToSet(s) \subseteq {Head(s)} \cup ToSet(Tail(s))
    BY <1>1, <1>5 DEF ToSet
  <1> QED
    BY <1>1, <1>3, <1>4, <1>6

\* The message Receive takes is smaller than all it leaves.
LEMMA TailIncreases ==
  ASSUME NEW s \in Seq(Nat), s # <<>>, Increasing(s)
  PROVE  Increasing(Tail(s)) /\ \A x \in ToSet(Tail(s)) : Head(s) < x
  <1>1. /\ Len(Tail(s)) = Len(s) - 1 /\ Len(s) \in Nat \ {0} /\ DOMAIN Tail(s) = 1..(Len(s) - 1)
        /\ Head(s) = s[1] /\ \A i \in 1..(Len(s) - 1) : Tail(s)[i] = s[i + 1]
    BY HeadTailProperties, LenProperties, EmptySeq
  <1> QED
    BY <1>1 DEF Increasing, ToSet

\* The buffer of a lost connection or a dead process is empty.
LEMMA EmptyQueue == /\ \A S : <<>> \in Seq(S)
                    /\ Len(<<>>) = 0 /\ ToSet(<<>>) = {} /\ Increasing(<<>>)
  BY EmptySeq DEF ToSet, Increasing

-----------------------------------------------------------------------------
(* The steps that move a message *)

\* Deliver: RabbitMQ sends the message after all it has sent.
LEMMA DeliverKeeps == ASSUME IInv, Deliver PROVE IInv'
  <1> DEFINE B == Append(buffer, taken')
  <1>1. taken' \in 1..N /\ taken' = taken + 1 /\ taken \in Nat
    BY ConstantsAssumption DEF IInv, TypeOK, Deliver
  <1>2. /\ buffer \in Seq(1..N) /\ buffer \in Seq(Nat) /\ posted \in Seq(1..N)
        /\ Len(posted) \in Nat /\ Len(buffer) \in Nat
    BY LenProperties, ConstantsAssumption DEF IInv, TypeOK
  <1>3. ToSet(buffer) \subseteq 1..N /\ ToSet(posted) \subseteq 1..N
    BY <1>2, ElementOfSeq, LenProperties DEF ToSet
  <1>4. \A x \in ToSet(posted) \cup Held : x <= taken
    BY DEF IInv, Order
  <1>5. \A x \in ToSet(buffer) : x < taken'
    BY <1>1, <1>3, <1>4 DEF Held
  <1>6. B \in Seq(1..N) /\ Len(B) = Len(buffer) + 1 /\ ToSet(B) = ToSet(buffer) \cup {taken'}
    BY <1>1, <1>2, AppendToQueue
  <1>7. Increasing(buffer) /\ taken' \in Nat
    BY <1>1 DEF IInv, Order
  <1>8. Increasing(B)
    BY <1>2, <1>5, <1>7, AppendIncreases
  <1> HIDE DEF B
  <1>9. /\ buffer' = B \/ buffer' = buffer
        /\ UNCHANGED <<process, runs, serving, malformed, pub, pconns, link, loop, cur, posted, faults>>
    BY DEF Deliver, OnlyConsumer, publisher, B
  <1>10. InHand' = InHand
    BY <1>9 DEF InHand
  <1>11. TypeOK'
    BY <1>1, <1>2, <1>6, <1>9 DEF IInv, TypeOK
  <1>12. Held' \subseteq Held \cup {taken'}
    BY <1>6, <1>9, <1>10 DEF Held
  <1>13. /\ \A x \in ToSet(posted') \cup Held' : x <= taken'
         /\ \A x \in ToSet(posted'), y \in Held' : x < y
         /\ \A x \in InHand', y \in ToSet(buffer') : x < y
    <2>1. ToSet(posted) \cup Held \subseteq Nat
      BY <1>3, ConstantsAssumption DEF Held, InHand, IInv, TypeOK
    <2>2. InHand \subseteq Held
      BY DEF Held
    <2>3. \A x \in ToSet(posted) \cup Held : x < taken'
      BY <1>1, <1>4, <2>1
    <2> QED
      BY <1>1, <1>6, <1>9, <1>10, <1>12, <2>1, <2>2, <2>3 DEF IInv, Order
  <1>14. Order'
    BY <1>7, <1>8, <1>9, <1>13 DEF IInv, Order
  <1>15. Count'
    BY <1>1, <1>2, <1>6, <1>9 DEF IInv, Count
  <1> QED
    BY <1>11, <1>14, <1>15 DEF IInv

\* Receive: the loop takes the first message of the buffer in hand.
LEMMA ReceiveKeeps == ASSUME IInv, Receive PROVE IInv'
  <1> USE DEF IInv, Receive, Go, OnlyConsumer, publisher
  <1>1. /\ buffer \in Seq(1..N) /\ buffer \in Seq(Nat) /\ posted \in Seq(1..N)
        /\ Len(posted) \in Nat /\ Len(buffer) \in Nat
    BY LenProperties, ConstantsAssumption DEF TypeOK
  <1>2. /\ cur' \in 1..N /\ buffer' \in Seq(1..N) /\ Len(buffer') = Len(buffer) - 1
        /\ ToSet(buffer) = {cur'} \cup ToSet(buffer')
        /\ Increasing(buffer') /\ \A x \in ToSet(buffer') : cur' < x
    BY <1>1, TailOfQueue, TailIncreases DEF Order
  <1>3. TypeOK'
    BY <1>1, <1>2, ConstantsAssumption DEF TypeOK, Registered, Over
  <1>4. Order'
    BY <1>1, <1>2 DEF Order, Held, InHand
  <1>5. Count'
    BY <1>1, <1>2, ConstantsAssumption DEF Count, None, TypeOK
  <1> QED
    BY <1>3, <1>4, <1>5

\* Post: the workload receives the message in hand.
LEMMA PostKeeps == ASSUME IInv, Post PROVE IInv'
  <1> USE DEF IInv, Post, Go, OnlyConsumer, publisher
  <1>1. /\ buffer \in Seq(1..N) /\ posted \in Seq(1..N) /\ posted \in Seq(Nat)
        /\ cur \in 1..N /\ taken \in Nat
        /\ Len(posted) \in Nat /\ Len(buffer) \in Nat
    BY LenProperties, ConstantsAssumption DEF TypeOK, Count, None
  <1>2. \A x \in ToSet(posted) : x < cur
    BY DEF Order, Held, InHand
  <1>3. /\ posted' \in Seq(1..N) /\ Len(posted') = Len(posted) + 1
        /\ ToSet(posted') = ToSet(posted) \cup {cur} /\ Increasing(posted')
    <2>1. /\ Append(posted, cur) \in Seq(1..N) /\ Len(Append(posted, cur)) = Len(posted) + 1
          /\ ToSet(Append(posted, cur)) = ToSet(posted) \cup {cur}
      BY <1>1, AppendToQueue
    <2>2. cur \in Nat /\ Increasing(posted)
      BY <1>1, ConstantsAssumption DEF Order
    <2>3. Increasing(Append(posted, cur))
      BY <1>1, <1>2, <2>2, AppendIncreases
    <2> QED
      BY <2>1, <2>3
  <1>4. TypeOK'
    BY <1>1, <1>3 DEF TypeOK, Count, Registered
  <1>5. Order'
    BY <1>1, <1>2, <1>3 DEF Order, Held, InHand
  <1>6. Count'
    BY <1>1, <1>3 DEF Count
  <1> QED
    BY <1>4, <1>5, <1>6

-----------------------------------------------------------------------------
(* The steps that move none, and the invariant *)

\* A step that posts nothing, takes nothing in hand and at most drops the
\* buffer keeps order and count: failures, exits and the publish server.
LEMMA Calm ==
  ASSUME IInv, UNCHANGED <<posted, taken>>, buffer' \in {buffer, <<>>},
         loop' = "post" => loop = "post" /\ cur' = cur
  PROVE  Order' /\ Count'
  <1>1. Len(posted) \in Nat /\ Len(buffer) \in Nat /\ taken \in Nat
    BY LenProperties, ConstantsAssumption DEF IInv, TypeOK
  <1>2. Len(buffer') \in Nat /\ Len(buffer') <= Len(buffer)
    BY <1>1, EmptyQueue
  <1>3. ToSet(buffer') \subseteq ToSet(buffer) /\ Increasing(buffer')
    BY EmptyQueue DEF IInv, Order
  <1>4. InHand' \subseteq InHand
    BY DEF InHand
  <1>5. Held' \subseteq Held
    BY <1>3, <1>4 DEF Held
  <1>6. Order'
    BY <1>3, <1>4, <1>5 DEF IInv, Order
  <1>7. Count'
    BY <1>1, <1>2 DEF IInv, Count
  <1> QED
    BY <1>6, <1>7

\* Die, whoever calls it: nothing is left in hand, and the posted messages
\* stay what they are.
LEMMA DieKeeps ==
  ASSUME IInv, Die, process' = "down", faults' \in 0..MaxFaults
  PROVE  IInv'
  <1>1. UNCHANGED <<posted, taken>> /\ buffer' \in {buffer, <<>>} /\ loop' # "post"
    BY DEF Die
  <1>2. Order' /\ Count'
    BY <1>1, Calm
  <1>3. Len(posted) \in Nat /\ Len(buffer) \in Nat /\ taken \in Nat
    BY LenProperties, ConstantsAssumption DEF IInv, TypeOK
  <1>4. Len(posted') + Len(buffer') <= taken'
    BY <1>1, <1>3, EmptyQueue DEF IInv, TypeOK
  <1>5. buffer' \in Seq(1..N) /\ cur' \in 0..N
    BY EmptyQueue, ConstantsAssumption DEF Die, None
  <1>6. pub' \in [Requests -> {"idle", "answered", "aborted"} \cup Working] /\ pconns' \subseteq Requests
    BY DEF IInv, TypeOK, Die
  <1> QED
    BY <1>2, <1>4, <1>5, <1>6 DEF IInv, TypeOK, Die

\* consume's steps other than Receive and Post move no message.
LEMMA LoopKeeps == ASSUME IInv, Loop PROVE IInv'
  <1> USE DEF Go, OnlyConsumer, publisher, Fault, Registered, Over
  <1>1. CASE Receive
    BY <1>1, ReceiveKeeps
  <1>2. CASE Post
    BY <1>2, PostKeeps
  <1>3. CASE SetupPanics
    <2>1. faults' \in 0..MaxFaults
      BY <1>3, ConstantsAssumption DEF SetupPanics, IInv, TypeOK
    <2> QED
      BY <1>3, <2>1, DieKeeps DEF SetupPanics, Die
  <1>4. CASE Dial \/ OpenChannel \/ Consume \/ PostAnswered \/ PostFails \/ SleepEnds \/ RangeEnds
    <2>1. UNCHANGED <<posted, taken, buffer>> /\ loop' # "post"
      BY <1>4 DEF Dial, OpenChannel, Consume, PostAnswered, PostFails, SleepEnds, RangeEnds
    <2>2. Order' /\ Count'
      BY <2>1, Calm
    <2>3. /\ cur' \in 0..N /\ faults' \in 0..MaxFaults
          /\ loop' \in {"dial", "channel", "declare"} \cup Registered \cup Over
          /\ link' \in {"none", "ok", "dead", "lost"}
          /\ UNCHANGED <<process, runs, serving, malformed, pub, pconns>>
      BY <1>4, ConstantsAssumption
         DEF Dial, OpenChannel, Consume, PostAnswered, PostFails, SleepEnds, RangeEnds, IInv,
            TypeOK, None
    <2> QED
      BY <2>1, <2>2, <2>3 DEF IInv, TypeOK
  <1> QED
    BY <1>1, <1>2, <1>3, <1>4 DEF Loop

\* The publish server's handlers do not touch the consumer.
LEMMA PublishKeeps == ASSUME IInv, NEW r \in Requests, Publish(r) PROVE IInv'
  <1> USE DEF Publish, PublishHandler, DialPublish, ChannelPublish, PublishPanics, PublishNextStep
  <1>1. UNCHANGED <<process, runs, serving, malformed, link, loop, buffer, cur, taken, posted>>
    BY DEF OnlyPublisher, consumer
  <1>2. Order' /\ Count'
    BY <1>1, Calm
  <1>3. faults' \in 0..MaxFaults
    BY ConstantsAssumption DEF Fault, IInv, TypeOK
  <1>4. /\ pub' \in [Requests -> {"idle", "answered", "aborted"} \cup Working]
        /\ pconns' \subseteq Requests
    BY DEF Step, Working, IInv, TypeOK
  <1> QED
    BY <1>1, <1>2, <1>3, <1>4 DEF IInv, TypeOK

\* Failures of the connection, the server's start, the interrupt and its
\* cleanup, and a new run.
LEMMA OthersKeep ==
  ASSUME IInv, LinkFails \/ Listen \/ Interrupt \/ Cleanup \/ Start
  PROVE  IInv'
  <1> USE DEF OnlyConsumer, OnlyProcess, consumer, publisher
  <1>1. /\ UNCHANGED <<malformed, posted, taken, loop, cur, pub, pconns>> /\ buffer' \in {buffer, <<>>}
        /\ link' \in {"none", "ok", "dead", "lost"} /\ serving' \in BOOLEAN
        /\ process' \in {"up", "cleanup", "returning", "down"}
    BY DEF LinkFails, Listen, Interrupt, Cleanup, Start, IInv, TypeOK
  <1>2. runs' \in 1..MaxRuns /\ faults' \in 0..MaxFaults
    BY ConstantsAssumption DEF LinkFails, Fault, Listen, Interrupt, Cleanup, Start, IInv, TypeOK
  <1>3. Order' /\ Count'
    BY <1>1, Calm
  <1>4. Len(posted) \in Nat /\ Len(buffer) \in Nat /\ taken \in Nat
    BY LenProperties, ConstantsAssumption DEF IInv, TypeOK
  <1>5. Len(buffer') \in Nat /\ Len(buffer') <= Len(buffer) /\ buffer' \in Seq(1..N)
    <2>1. buffer \in Seq(1..N)
      BY DEF IInv, TypeOK
    <2>2. CASE buffer' = <<>>
      BY <1>4, <2>2, EmptyQueue
    <2>3. CASE buffer' = buffer
      BY <1>4, <2>1, <2>3
    <2> QED
      BY <1>1, <2>2, <2>3
  <1>6. Len(posted') + Len(buffer') <= taken'
    BY <1>1, <1>4, <1>5 DEF IInv, TypeOK
  <1> QED
    BY <1>1, <1>2, <1>3, <1>5, <1>6 DEF IInv, TypeOK

\* Every step of the process keeps the invariant.
LEMMA InductiveStep == IInv /\ [Next]_vars => IInv'
  <1> SUFFICES ASSUME IInv, [Next]_vars PROVE IInv'
    OBVIOUS
  <1>1. CASE Loop
    BY <1>1, LoopKeeps
  <1>2. CASE Deliver
    BY <1>2, DeliverKeeps
  <1>3. CASE \E r \in Requests : Publish(r)
    BY <1>3, PublishKeeps
  <1>4. CASE LinkFails \/ Listen \/ Interrupt \/ Cleanup \/ Start
    BY <1>4, OthersKeep
  <1>5. CASE ListenFails \/ Return
    <2>1. faults' \in 0..MaxFaults
      BY <1>5, ConstantsAssumption DEF ListenFails, Fault, Return, IInv, TypeOK
    <2> QED
      BY <1>5, <2>1, DieKeeps DEF ListenFails, Return, Die
  <1>6. CASE UNCHANGED vars
    BY <1>6 DEF vars, consumer, publisher, IInv, TypeOK, Order, Count, Held, InHand
  <1> QED
    BY <1>1, <1>2, <1>3, <1>4, <1>5, <1>6 DEF Next

\* A process that starts with a full queue satisfies it.
LEMMA InductiveInit == Init => IInv
  <1> SUFFICES ASSUME Init PROVE IInv
    OBVIOUS
  <1>1. TypeOK
    <2>1. Len(posted) = 0 /\ Len(buffer) = 0 /\ buffer \in Seq(1..N) /\ posted \in Seq(1..N)
      BY EmptyQueue DEF Init
    <2>2. Len(posted) + Len(buffer) <= taken
      BY <2>1 DEF Init
    <2>3. runs \in 1..MaxRuns /\ faults \in 0..MaxFaults /\ cur \in 0..N /\ taken \in 0..N
          /\ malformed \subseteq 1..N
      BY ConstantsAssumption DEF Init, None
    <2>4. /\ pub \in [Requests -> {"idle", "answered", "aborted"} \cup Working]
          /\ pconns \subseteq Requests
      BY DEF Init
    <2> QED
      BY <2>1, <2>2, <2>3, <2>4 DEF Init, TypeOK
  <1>2. Order
    BY EmptyQueue DEF Init, Order, Held, InHand
  <1>3. Count
    BY EmptyQueue DEF Init, Count
  <1> QED
    BY <1>1, <1>2, <1>3 DEF IInv

\* The order of messages and their count hold in every reachable state of
\* the sdk's consumer.
THEOREM Invariant == Spec => []IInv
  BY InductiveInit, InductiveStep, PTL DEF Spec

\* The types of the sdk's variables, for every queue and bound.
THEOREM TypeCorrect == Spec => []TypeOK
  <1>1. IInv => TypeOK
    BY DEF IInv
  <1> QED
    BY Invariant, <1>1, PTL

\* consume: the workload gets each message at most once and in the queue's
\* order, over any number of failures and restarts.
THEOREM PostsInOrder == Spec => []PostedInOrder
  <1>1. IInv => PostedInOrder
    BY DEF IInv, Order, PostedInOrder
  <1> QED
    BY Invariant, <1>1, PTL

\* PublishRabbitmqNextStep closes its connection on every way out, the panics
\* on a nil pointer included, and a dying process closes all of them.
THEOREM NoConnectionLeaks == Spec => []NoLeakedConnection
  <1>1. Init => NoLeakedConnection
    BY DEF Init, NoLeakedConnection
  <1>2. TypeOK /\ NoLeakedConnection /\ [Next]_vars => NoLeakedConnection'
    <2> SUFFICES ASSUME TypeOK, NoLeakedConnection, [Next]_vars PROVE NoLeakedConnection'
      OBVIOUS
    <2>1. CASE UNCHANGED publisher
      BY <2>1 DEF publisher, NoLeakedConnection
    <2>2. CASE Die
      BY <2>2 DEF Die, NoLeakedConnection
    <2>3. CASE \E r \in Requests : Publish(r)
      BY <2>3 DEF Publish, PublishHandler, DialPublish, ChannelPublish, PublishPanics,
                  PublishNextStep, Step, TypeOK, NoLeakedConnection
    <2>4. Loop => UNCHANGED publisher \/ Die
      BY DEF Loop, Dial, OpenChannel, SetupPanics, Consume, Receive, Post, PostAnswered,
             PostFails, SleepEnds, RangeEnds, OnlyConsumer
    <2>5. Deliver \/ LinkFails \/ Listen \/ Interrupt \/ Cleanup \/ Start => UNCHANGED publisher
      BY DEF Deliver, LinkFails, Listen, Interrupt, Cleanup, Start, OnlyConsumer, OnlyProcess
    <2>6. ListenFails \/ Return => Die
      BY DEF ListenFails, Return
    <2>7. UNCHANGED vars => UNCHANGED publisher
      BY DEF vars
    <2> QED
      BY <2>1, <2>2, <2>3, <2>4, <2>5, <2>6, <2>7 DEF Next
  <1> QED
    BY <1>1, <1>2, TypeCorrect, PTL DEF Spec

\* A message that was sent and is posted or held before a step is so after
\* it: Receive hands it on, Post delivers it, the rest leave it where it is.
LEMMA LossStep ==
  ASSUME IInv, Next, link' = "ok", loop' # "ended", process' # "down"
  PROVE  Lost' \subseteq Lost
  <1> USE DEF Go, OnlyConsumer, publisher
  <1>1. /\ buffer \in Seq(1..N) /\ posted \in Seq(1..N) /\ taken \in Nat
    BY ConstantsAssumption DEF IInv, TypeOK
  <1>2. CASE UNCHANGED <<taken, posted, buffer>> /\ (loop = "post" => UNCHANGED <<loop, cur>>)
    BY <1>2 DEF Lost, Held, InHand
  <1>3. CASE Deliver
    <2>1. buffer' = Append(buffer, taken') /\ UNCHANGED <<posted, loop, cur>>
      BY <1>3 DEF Deliver
    <2>2. taken' = taken + 1 /\ taken' \in 1..N
      BY <1>3, <1>1, ConstantsAssumption DEF Deliver, IInv, TypeOK
    <2>3. ToSet(buffer') = ToSet(buffer) \cup {taken'}
      BY <1>1, <2>1, <2>2, AppendToQueue
    <2>4. Held' = Held \cup {taken'}
      BY <2>1, <2>3 DEF Held, InHand
    <2>5. 1..taken' = 1..taken \cup {taken'}
      BY <1>1, <2>2
    <2> QED
      BY <2>1, <2>4, <2>5 DEF Lost
  <1>4. CASE Receive
    <2>1. loop' = "post" /\ cur' = Head(buffer) /\ UNCHANGED <<taken, posted>> /\ loop = "range"
      BY <1>4 DEF Receive
    <2>2. ToSet(buffer) = {cur'} \cup ToSet(buffer')
      BY <1>1, <1>4, TailOfQueue DEF Receive
    <2> QED
      BY <2>1, <2>2 DEF Lost, Held, InHand
  <1>5. CASE Post
    <2>1. posted' = Append(posted, cur) /\ UNCHANGED <<taken, buffer>> /\ loop = "post" /\ loop' = "answer"
      BY <1>5 DEF Post
    <2>2. cur \in 1..N
      BY <2>1, ConstantsAssumption DEF IInv, TypeOK, Count, None
    <2>3. ToSet(Append(posted, cur)) = ToSet(posted) \cup {cur}
      <3> DEFINE M == 1..N
      <3>1. posted \in Seq(M) /\ cur \in M
        BY <1>1, <2>2
      <3> HIDE DEF M
      <3> QED
        BY <3>1, AppendToQueue
    <2> QED
      BY <2>1, <2>3 DEF Lost, Held, InHand
  <1>6. CASE Loop /\ ~Receive /\ ~Post
    <2>1. ~SetupPanics
      BY DEF SetupPanics, Die
    <2>2. UNCHANGED <<taken, posted, buffer>> /\ loop # "post"
      BY <1>6, <2>1 DEF Loop, Dial, OpenChannel, Consume, PostAnswered, PostFails, SleepEnds,
         RangeEnds
    <2> QED
      BY <1>2, <2>2
  <1>7. CASE \E r \in Requests : Publish(r)
    BY <1>7, <1>2 DEF Publish, PublishHandler, DialPublish, ChannelPublish, PublishPanics,
                      PublishNextStep, OnlyPublisher, consumer
  <1>8. CASE Listen \/ Interrupt \/ Cleanup \/ Start
    BY <1>8, <1>2 DEF Listen, Interrupt, Cleanup, Start, OnlyProcess, consumer
  <1>9. ~LinkFails /\ ~ListenFails /\ ~Return
    BY DEF LinkFails, ListenFails, Return, Die
  <1> QED
    BY <1>3, <1>4, <1>5, <1>6, <1>7, <1>8, <1>9 DEF Next

\* consume loses a message only in a step that ends the loop or the process
\* or leaves it without a working connection.
THEOREM LossesHaveCause == Spec => LossHasCause
  <1>1. IInv /\ [Next]_vars =>
          [Lost' \subseteq Lost \/ link' # "ok" \/ loop' = "ended" \/ process' = "down"]_vars
    BY LossStep
  <1> QED
    BY Invariant, <1>1, PTL DEF Spec, LossHasCause

=============================================================================
