-------------------------- MODULE JobMetricsProofs --------------------------
(* Proofs that the manifest's metrics agree with it as far as they can. *)
EXTENDS JobDeliveryProofs

-----------------------------------------------------------------------------
(* The inductive invariant *)

Keys == {id \in Ids : jobs[id] # None}

\* Only jobs in the manifest age; what was deleted was inserted, and the
\* gauge is right whenever a job is there.
MetricsInv ==
  /\ jobs = [id \in Ids |-> jobs[id]]
  /\ aged \subseteq Keys
  /\ IsFiniteSet(Keys)
  /\ inserted \in Nat /\ deleted \in Nat
  /\ deleted + Cardinality(Keys) <= inserted
  /\ gauge \in Nat
  /\ Keys # {} => gauge = Cardinality(Keys)

\* InsertJobWithDelivery: one key more, and one insertion more.
LEMMA InsertCounts ==
  ASSUME MetricsInv, NEW c \in Conns, Insert(c)
  PROVE  MetricsInv'
  <1> DEFINE id == Id(cur[c])
  <1>1. CASE UNCHANGED <<jobs, metrics, aged>>
    BY <1>1 DEF MetricsInv, Keys, metrics
  <1>2. CASE jobs[id] = None /\ InsertJobWithDelivery(id, cur[c]) /\ aged' = aged
    <2>1. /\ jobs' = [jobs EXCEPT ![id] = cur[c]] /\ inserted' = inserted + 1
          /\ gauge' = Cardinality(Keys') /\ deleted' = deleted /\ aged' = aged
      BY <1>2 DEF InsertJobWithDelivery, Size, Keys
    <2>2. jobs' = [k \in Ids |-> jobs'[k]]
      BY <2>1 DEF MetricsInv
    <2>3. Keys \subseteq Keys' /\ Keys' \subseteq Keys \cup {id}
      BY <1>2, <2>1 DEF MetricsInv, Keys
    <2>4. Keys' = Keys \/ Keys' = Keys \cup {id}
      BY <2>3
    <2>5. /\ IsFiniteSet(Keys') /\ Cardinality(Keys) \in Nat /\ Cardinality(Keys') \in Nat
          /\ Cardinality(Keys') <= Cardinality(Keys) + 1
      <3>1. IsFiniteSet(Keys) /\ Cardinality(Keys) \in Nat
        BY FS_CardinalityType DEF MetricsInv
      <3>2. /\ IsFiniteSet(Keys \cup {id})
            /\ Cardinality(Keys \cup {id}) \in {Cardinality(Keys), Cardinality(Keys) + 1}
        BY <3>1, FS_AddElement
      <3>3. CASE Keys' = Keys
        BY <3>1, <3>3
      <3>4. CASE Keys' = Keys \cup {id}
        BY <3>1, <3>2, <3>4
      <3> QED
        BY <2>4, <3>3, <3>4
    <2>6. inserted' \in Nat /\ deleted' \in Nat /\ deleted' + Cardinality(Keys') <= inserted'
      BY <2>1, <2>5 DEF MetricsInv
    <2> QED
      BY <2>1, <2>2, <2>3, <2>5, <2>6 DEF MetricsInv
  <1> QED
    BY <1>1, <1>2 DEF Insert

\* DeleteJob, called once for each of the ids D, all of which have a job.
LEMMA DeleteCounts ==
  ASSUME MetricsInv, NEW D \in SUBSET Keys,
         jobs' = [id \in Ids |-> IF id \in D THEN None ELSE jobs[id]],
         aged' \subseteq aged \ D, CountDeleted(Cardinality(D))
  PROVE  MetricsInv'
  <1>1. Keys' = Keys \ D
    BY DEF Keys
  <1>2. /\ IsFiniteSet(D) /\ IsFiniteSet(Keys') /\ Cardinality(D) \in Nat
        /\ Cardinality(Keys) \in Nat /\ Cardinality(Keys') = Cardinality(Keys) - Cardinality(D)
    <2>1. IsFiniteSet(Keys) /\ Keys \cap D = D
      BY DEF MetricsInv
    <2>2. IsFiniteSet(D) /\ IsFiniteSet(Keys \ D)
      BY <2>1, FS_Subset
    <2>3. Cardinality(Keys \ D) = Cardinality(Keys) - Cardinality(Keys \cap D)
      BY <2>1, FS_Difference
    <2> QED
      BY <1>1, <2>1, <2>2, <2>3, FS_CardinalityType
  <1>3. /\ deleted' = deleted + Cardinality(D) /\ inserted' = inserted
        /\ gauge' = Cardinality(Keys') /\ Cardinality(Keys') \in Nat
    BY <1>2, FS_CardinalityType DEF CountDeleted, Size, Keys
  <1>4. deleted' \in Nat /\ inserted' \in Nat /\ deleted' + Cardinality(Keys') <= inserted'
    BY <1>2, <1>3 DEF MetricsInv
  <1>5. aged' \subseteq Keys' /\ jobs' = [id \in Ids |-> jobs'[id]]
    BY <1>1 DEF MetricsInv
  <1> QED
    BY <1>2, <1>3, <1>4, <1>5 DEF MetricsInv

\* A single DeleteJob.
LEMMA WithoutCounts == ASSUME MetricsInv, NEW id \in Keys, Without(id) PROVE MetricsInv'
  <1>1. Cardinality({id}) = 1
    BY FS_Singleton
  <1>2. {id} \in SUBSET Keys /\ aged' \subseteq aged \ {id} /\ CountDeleted(Cardinality({id}))
    BY <1>1 DEF Without
  <1>3. jobs' = [k \in Ids |-> IF k \in {id} THEN None ELSE jobs[k]]
    BY DEF Without, MetricsInv, Keys
  <1> QED
    BY <1>2, <1>3, DeleteCounts

\* The cleanup and a restart leave no job; only the restart resets counters.
LEMMA EmptyCounts ==
  ASSUME MetricsInv, jobs' = [id \in Ids |-> None], aged' = {},
         UNCHANGED metrics \/ (inserted' = 0 /\ deleted' = 0 /\ gauge' = 0)
  PROVE  MetricsInv'
  <1>1. Keys' = {} /\ jobs' = [id \in Ids |-> jobs'[id]]
    BY DEF Keys
  <1>2. IsFiniteSet({}) /\ Cardinality({}) = 0
    BY FS_EmptySet
  <1>3. Cardinality(Keys) \in Nat
    BY FS_CardinalityType DEF MetricsInv
  <1>4. /\ inserted' \in Nat /\ deleted' \in Nat /\ gauge' \in Nat
        /\ deleted' + 0 <= inserted'
    BY <1>3 DEF MetricsInv, metrics
  <1> QED
    BY <1>1, <1>2, <1>4 DEF MetricsInv

\* The id messageHandler looks up is that of a delivery.
LEMMA HeldIds ==
  ASSUME PathType, HandlerHolds, NEW c \in Conns, hpc[c] \in Busy
  PROVE  Id(cur[c]) \in Ids
  <1>1. cur[c] \in Delivered
    BY DEF PathType, HandlerHolds
  <1> QED
    BY <1>1, DeliveryTypes

\* Every step keeps the metrics right.
LEMMA NextMetrics == PathType /\ HandlerHolds /\ MetricsInv /\ [Next]_vars => MetricsInv'
  <1> SUFFICES ASSUME PathType, HandlerHolds, MetricsInv, [Next]_vars PROVE MetricsInv'
    OBVIOUS
  <1>1. ASSUME UNCHANGED manifest PROVE MetricsInv'
    BY <1>1 DEF manifest, metrics, MetricsInv, Keys
  <1>2. CASE Network \/ Reset \/ Connect \/ UNCHANGED vars
    BY <1>1, <1>2 DEF Network, Deliver, ServerDrop, ClientDrop, Reset, Connect, vars
  <1>3. CASE CleanManifest
    BY <1>3, EmptyCounts DEF CleanManifest
  <1>4. CASE Restart
    BY <1>4, EmptyCounts DEF Restart
  <1>5. ASSUME NEW c \in Conns, Handler(c) PROVE MetricsInv'
    <2>1. CASE Insert(c)
      BY <2>1, InsertCounts
    <2>2. CASE FailCheck(c)
      <3>1. UNCHANGED manifest \/ (Id(cur[c]) \in Keys /\ Without(Id(cur[c])))
        BY <2>2, HeldIds DEF FailCheck, Keys, Busy, HandlerStates
      <3> QED
        BY <1>1, <3>1, WithoutCounts
    <2>3. CASE ~Insert(c) /\ ~FailCheck(c)
      <3>1. UNCHANGED manifest
        BY <1>5, <2>3 DEF Handler, Receive, HandlerDiscard, WorkloadReceives, TriggerOk,
                          TriggerFail, HandlerRequeue, Exit
      <3> QED
        BY <1>1, <3>1
    <2> QED
      BY <2>1, <2>2, <2>3
  <1>6. ASSUME NEW m \in Messages, JobAcknowledge(m) \/ JobReject(m) PROVE MetricsInv'
    <2>1. IdOf[m] \in Keys /\ Without(IdOf[m])
      BY <1>6, MessagesAssumption DEF JobAcknowledge, JobReject, TakeJob, Keys
    <2> QED
      BY <2>1, WithoutCounts
  <1>7. ASSUME NEW s \in settling, HttpSettle(s) PROVE MetricsInv'
    BY <1>1, <1>7 DEF HttpSettle
  <1>8. ASSUME NEW id \in Ids, Age(id) PROVE MetricsInv'
    BY <1>8 DEF Age, metrics, MetricsInv, Keys
  <1>9. CASE WatchdogTick
    <2>1. aged \in SUBSET Keys
      BY DEF MetricsInv
    <2> QED
      BY <1>9, <2>1, DeleteCounts DEF WatchdogTick
  <1> QED
    BY <1>2, <1>3, <1>4, <1>5, <1>6, <1>7, <1>8, <1>9 DEF Next, Routine, Http, JobWatchdog

\* At the start the manifest is empty and the counters are zero.
LEMMA InitMetrics == Init => MetricsInv
  <1> SUFFICES ASSUME Init PROVE MetricsInv
    OBVIOUS
  <1>1. Keys = {} /\ jobs = [id \in Ids |-> jobs[id]]
    BY DEF Init, Keys
  <1>2. IsFiniteSet({}) /\ Cardinality({}) = 0
    BY FS_EmptySet
  <1> QED
    BY <1>1, <1>2 DEF Init, MetricsInv

\* The metrics invariant, in every reachable state of the manifest.
THEOREM MetricsInvariant == Spec => []MetricsInv
  <1>1. IInv => PathType /\ HandlerHolds
    BY DEF IInv
  <1> QED
    BY <1>1, Invariant, InitMetrics, NextMetrics, PTL DEF Spec

\* Every variable of JobDelivery keeps its type, whatever messageHandler, the
\* endpoints, the watchdog, the routine and RabbitMQ do.
THEOREM TypeCorrect == Spec => []TypeOK
  <1>1. IInv /\ MetricsInv => TypeOK
    BY DEF IInv, MetricsInv, TypeOK
  <1> QED
    BY <1>1, Invariant, MetricsInvariant, PTL

\* amps_messages_count is the size of the manifest whenever a job is there.
THEOREM GaugeExact == Spec => []GaugeExactWhenBusy
  <1>1. ASSUME MetricsInv, Size > 0 PROVE gauge = Size
    <2>1. Keys # {}
      BY <1>1, FS_EmptySet DEF Size, Keys
    <2> QED
      BY <1>1, <2>1 DEF MetricsInv, Size, Keys
  <1>2. MetricsInv => GaugeExactWhenBusy
    BY <1>1 DEF GaugeExactWhenBusy
  <1> QED
    BY MetricsInvariant, <1>2, PTL

\* amps_messages_deleted_total never overtakes amps_messages_inserted_total.
THEOREM DeletionsCounted == Spec => []DeletedWereInserted
  <1>1. MetricsInv => DeletedWereInserted
    BY DEF MetricsInv, DeletedWereInserted, Size, Keys
  <1> QED
    BY MetricsInvariant, <1>1, PTL

=============================================================================
