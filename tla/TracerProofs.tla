---------------------------- MODULE TracerProofs ----------------------------
(***************************************************************************)
(* Proofs about the tracer for every queue size, batch size, number of     *)
(* overlapping exports, of failures and of traces: types, backpressure and *)
(* the order of the queued traces; batches hold one block, the export      *)
(* queue never goes back, an item can only be lost to an overlapping       *)
(* export, and a process that exits with 0 has flushed.                    *)
(***************************************************************************)
EXTENDS TracerManager, SequenceTheorems, WellFoundedInduction, TLAPS

MaybeTrace == Trace \cup {NoTrace}

\* The traces of q are consecutive and the last one is number n.
InOrder(q, n) == \A i \in 1..Len(q) : q[i].n = n - Len(q) + i

\* What a run of the worker's loop can make of the outbound queue.
Advanced(queue, rest) == rest = queue \/ (queue # <<>> /\ rest = Tail(queue))

\* Positions and heights of traces are naturals, their matches identifiers.
LEMMA TraceIds ==
  \A t \in MaybeTrace : t.ids \in Seq(Ids) /\ t.n \in Nat /\ t.height \in Nat
<1>1. \A t \in Trace : t.ids \in Seq(Ids) /\ t.n \in Nat /\ t.height \in Nat
  BY ManagerAssumption DEF Trace
<1>2. NoTrace.ids \in Seq(Ids) /\ NoTrace.n \in Nat /\ NoTrace.height \in Nat
  BY DEF NoTrace
<1> QED
  BY <1>1, <1>2 DEF MaybeTrace

\* The items of a trace have an item's type.
LEMMA ItemsType ==
  ASSUME NEW t \in MaybeTrace
  PROVE  Items(t) \in Seq(BatchItem) /\ Elements(Items(t)) \subseteq BatchItem
<1>1. t.ids \in Seq(Ids) /\ t.n \in Nat /\ t.height \in Nat
  BY TraceIds
<1>2. DOMAIN t.ids = 1..Len(t.ids) /\ Len(t.ids) \in Nat
  BY <1>1
<1>3. \A i \in 1..Len(t.ids) : [n |-> t.n, height |-> t.height, id |-> t.ids[i]] \in BatchItem
  BY <1>1 DEF BatchItem
<1>4. Items(t) \in [1..Len(t.ids) -> BatchItem]
  BY <1>2, <1>3 DEF Items
<1>5. Items(t) \in Seq(BatchItem)
  BY <1>2, <1>4, SeqDef
<1> QED
  BY <1>4, <1>5 DEF Elements

\* The data of a job is made of items of the batch.
LEMMA JobType ==
  ASSUME NEW batch \in Seq(BatchItem)
  PROVE  UniqueBatchData(batch) \subseteq BatchItem
BY DEF UniqueBatchData

-------------------------------------------------------------------------------
\* The worker's loop and processInboundQueue.

\* The loop takes the first trace or ends, and leaves a valid worker state.
LEMMA LoopStep ==
  ASSUME NEW queue \in Seq(Trace), NEW ended \in {"none", "settled"},
         WorkerLoop(queue, ended)
  PROVE  /\ outboundQueue' \in Seq(Trace)
         /\ Advanced(queue, outboundQueue')
         /\ worker' \in WorkerStates
         /\ current' \in MaybeTrace
<1>1. CASE queue = <<>>
  BY <1>1 DEF WorkerLoop, Advanced, WorkerStates, MaybeTrace
<1>2. CASE queue # <<>>
  <2>1. Head(queue) \in Trace /\ Tail(queue) \in Seq(Trace)
    BY <1>2
  <2> QED
    BY <1>2, <2>1 DEF WorkerLoop, Advanced, WorkerStates, MaybeTrace
<1> QED
  BY <1>1, <1>2

\* Concatenation of queues is associative.
LEMMA TraceConcatAssociative ==
  \A a, b, c \in Seq(Trace) : (a \o b) \o c = a \o (b \o c)
BY ConcatAssociative

\* However the loop runs, the queue does not grow.
LEMMA AdvancedLen ==
  ASSUME NEW queue \in Seq(Trace), NEW rest \in Seq(Trace), Advanced(queue, rest)
  PROVE  Len(rest) <= Len(queue)
BY DEF Advanced

\* processInboundQueue, called with room in the outbound queue, moves a prefix of
\* the inbound queue, pauses exactly when the outbound queue is full and otherwise
\* empties the inbound queue.
LEMMA ProcessStep ==
  ASSUME NEW inbound \in Seq(Trace), outboundQueue \in Seq(Trace),
         Len(outboundQueue) < MaxOutboundQueueSize,
         worker \in WorkerStates, current \in MaybeTrace,
         ProcessInboundQueue(inbound)
  PROVE  /\ inboundQueue' \in Seq(Trace) /\ outboundQueue' \in Seq(Trace)
         /\ paused' \in BOOLEAN
         /\ worker' \in WorkerStates /\ current' \in MaybeTrace
         /\ Backpressure'
         /\ \E queue \in Seq(Trace) : /\ queue \o inboundQueue' = outboundQueue \o inbound
                                      /\ Advanced(queue, outboundQueue')
                                      /\ EnsureOutboundQueueWorker(queue)
<1> DEFINE k == Movable(inbound)
           queue == outboundQueue \o SubSeq(inbound, 1, k)
<1>1. /\ Len(inbound) \in Nat /\ Len(outboundQueue) \in Nat
      /\ MaxOutboundQueueSize \in Nat \ {0}
  BY ManagerAssumption
<1>2. /\ k \in 0..Len(inbound)
      /\ Len(outboundQueue) + k <= MaxOutboundQueueSize
      /\ Len(outboundQueue) + k < MaxOutboundQueueSize => k = Len(inbound)
      /\ Len(outboundQueue) + k >= MaxOutboundQueueSize => k > 0
  BY <1>1 DEF Movable
<1>3. /\ SubSeq(inbound, 1, k) \in Seq(Trace)
      /\ Len(SubSeq(inbound, 1, k)) = k
      /\ SubSeq(inbound, k + 1, Len(inbound)) \in Seq(Trace)
      /\ k = Len(inbound) => SubSeq(inbound, k + 1, Len(inbound)) = <<>>
  BY <1>1, <1>2, SubSeqProperties, SubSeqEmpty
<1>4. queue \in Seq(Trace) /\ Len(queue) = Len(outboundQueue) + k
  BY <1>3, ConcatProperties
<1> HIDE DEF k, queue
<1>5. /\ inboundQueue' = SubSeq(inbound, k + 1, Len(inbound))
      /\ paused' = (k > 0 /\ Len(queue) >= MaxOutboundQueueSize)
      /\ EnsureOutboundQueueWorker(queue)
  BY DEF ProcessInboundQueue, k, queue
<1>6. /\ outboundQueue' \in Seq(Trace) /\ Advanced(queue, outboundQueue')
      /\ worker' \in WorkerStates /\ current' \in MaybeTrace
  <2>1. CASE worker = "none"
    BY <2>1, <1>4, <1>5, LoopStep DEF EnsureOutboundQueueWorker
  <2>2. CASE worker # "none"
    BY <2>2, <1>4, <1>5 DEF EnsureOutboundQueueWorker, Advanced
  <2> QED
    BY <2>1, <2>2
<1>7. Len(outboundQueue') <= Len(queue) /\ Len(outboundQueue') \in Nat
  BY <1>4, <1>6, AdvancedLen
<1>8. Backpressure'
  <2>1. Len(outboundQueue') <= MaxOutboundQueueSize
    BY <1>1, <1>2, <1>4, <1>7
  <2>2. ASSUME ~paused'
        PROVE  Len(outboundQueue') < MaxOutboundQueueSize /\ inboundQueue' = <<>>
    <3>1. Len(outboundQueue) + k < MaxOutboundQueueSize
      <4>1. ~(k > 0 /\ Len(queue) >= MaxOutboundQueueSize)
        BY <2>2, <1>5, Zenon
      <4> QED
        BY <4>1, <1>1, <1>2, <1>4
    <3> QED
      BY <3>1, <1>1, <1>2, <1>3, <1>4, <1>5, <1>7
  <2> QED
    BY <2>1, <2>2 DEF Backpressure
<1>9. queue \o inboundQueue' = outboundQueue \o inbound
  <2>1. SubSeq(inbound, 1, k) \o SubSeq(inbound, k + 1, Len(inbound)) = inbound
    <3>1. /\ 1 \in 1..(Len(inbound) + 1) /\ k \in (1 - 1)..Len(inbound)
          /\ Len(inbound) \in k..Len(inbound)
      BY <1>1, <1>2
    <3> QED
      BY <3>1, ConcatAdjacentSubSeq, SubSeqFull
  <2>2. (outboundQueue \o SubSeq(inbound, 1, k)) \o SubSeq(inbound, k + 1, Len(inbound))
          = outboundQueue \o (SubSeq(inbound, 1, k) \o SubSeq(inbound, k + 1, Len(inbound)))
    BY <1>3, TraceConcatAssociative
  <2> QED
    BY <2>1, <2>2, <1>5 DEF queue
<1> QED
  BY <1>3, <1>4, <1>5, <1>6, <1>8, <1>9

\* A trace appended to the inbound queue continues the sequence.
LEMMA OrderAppend ==
  ASSUME NEW q \in Seq(Trace), NEW p \in Seq(Trace), NEW t \in Trace,
         NEW m \in Nat, InOrder(q \o p, m), t.n = m + 1
  PROVE  InOrder(q \o Append(p, t), m + 1)
<1>1. /\ q \o p \in Seq(Trace) /\ Len(q \o p) = Len(q) + Len(p)
      /\ Append(p, t) \in Seq(Trace) /\ Len(Append(p, t)) = Len(p) + 1
  OBVIOUS
<1>2. q \o Append(p, t) = Append(q \o p, t)
  OBVIOUS
<1>3. /\ Len(Append(q \o p, t)) = Len(q \o p) + 1 /\ Len(q \o p) \in Nat
      /\ \A i \in 1..Len(q \o p) : Append(q \o p, t)[i] = (q \o p)[i]
      /\ Append(q \o p, t)[Len(q \o p) + 1] = t
  BY <1>1, AppendProperties
<1> DEFINE r == q \o p
           a == Append(r, t)
<1>4. \A i \in 1..Len(a) : a[i].n = (m + 1) - Len(a) + i
  <2> SUFFICES ASSUME NEW i \in 1..Len(a) PROVE a[i].n = (m + 1) - Len(a) + i
    OBVIOUS
  <2>1. CASE i \in 1..Len(r)
    BY <2>1, <1>3 DEF InOrder
  <2>2. CASE i = Len(r) + 1
    BY <2>2, <1>3
  <2> QED
    BY <2>1, <2>2, <1>3
<1> QED
  BY <1>2, <1>4 DEF InOrder

\* A trace taken by the worker was the first one.
LEMMA OrderAdvanced ==
  ASSUME NEW queue \in Seq(Trace), NEW rest \in Seq(Trace), NEW p \in Seq(Trace),
         NEW m \in Nat, InOrder(queue \o p, m), Advanced(queue, rest)
  PROVE  InOrder(rest \o p, m)
<1>1. CASE rest = queue
  BY <1>1
<1>2. CASE queue # <<>> /\ rest = Tail(queue)
  <2>1. /\ Len(rest) = Len(queue) - 1 /\ Len(queue) \in Nat /\ Len(p) \in Nat /\ Len(queue) > 0
        /\ \A i \in 1..Len(rest) : rest[i] = queue[i + 1]
    BY <1>2
  <2>2. /\ Len(queue \o p) = Len(queue) + Len(p) /\ Len(rest \o p) = Len(rest) + Len(p)
        /\ \A i \in 1..(Len(queue) + Len(p)) :
             (queue \o p)[i] = IF i <= Len(queue) THEN queue[i] ELSE p[i - Len(queue)]
        /\ \A i \in 1..(Len(rest) + Len(p)) :
             (rest \o p)[i] = IF i <= Len(rest) THEN rest[i] ELSE p[i - Len(rest)]
    BY ConcatProperties
  <2>3. \A i \in 1..Len(rest \o p) : (rest \o p)[i] = (queue \o p)[i + 1]
    BY <2>1, <2>2
  <2>4. \A i \in 1..Len(rest \o p) : (rest \o p)[i].n = m - Len(rest \o p) + i
    <3> SUFFICES ASSUME NEW i \in 1..Len(rest \o p)
                 PROVE  (rest \o p)[i].n = m - Len(rest \o p) + i
      OBVIOUS
    <3>1. i + 1 \in 1..Len(queue \o p) /\ Len(queue \o p) = Len(rest \o p) + 1
      BY <2>1, <2>2
    <3>2. (queue \o p)[i + 1].n = m - Len(queue \o p) + (i + 1)
      BY <3>1 DEF InOrder
    <3> QED
      BY <3>1, <3>2, <2>1, <2>2, <2>3
  <2> QED
    BY <2>4 DEF InOrder
<1> QED
  BY <1>1, <1>2 DEF Advanced

-------------------------------------------------------------------------------
\* exportBatch, whoever calls it.

\* exportBatch keeps the types of the exporter, whichever additions fail.
LEMMA ExportBatchType ==
  ASSUME ExporterTypeOK, NEW c \in Callers, NEW batch \in Seq(BatchItem),
         ExportBatch(c, batch)
  PROVE  /\ debounceTimer' \in BOOLEAN
         /\ exporting' \in [Callers -> {"idle", "ok", "fail"}]
         /\ exportQueue' \in Seq(SUBSET BatchItem)
         /\ backgroundQueue' \in Seq(SUBSET BatchItem)
         /\ failures' \in 0..MaxFailures
<1>1. debounceTimer' \in BOOLEAN
  BY DEF ExportBatch
<1>2. CASE batch = <<>>
  BY <1>1, <1>2 DEF ExportBatch, ExporterTypeOK
<1>3. CASE batch # <<>>
  <2> DEFINE job == UniqueBatchData(batch)
  <2>1. job \in SUBSET BatchItem /\ BackgroundData(job) \in SUBSET BatchItem
    BY JobType DEF BackgroundData
  <2>2. AddJobs(c, job)
    BY <1>3 DEF ExportBatch
  <2> HIDE DEF job
  <2> DEFINE background == BackgroundData(job)
             wanted == {"export"} \cup (IF background = {} THEN {} ELSE {"background"})
  <2>3. PICK added \in SUBSET wanted :
          /\ failures' = IF added = wanted THEN failures ELSE failures + 1
          /\ failures' <= MaxFailures
          /\ exporting' = [exporting EXCEPT ![c] = IF added = wanted THEN "ok" ELSE "fail"]
          /\ exportQueue' = IF "export" \in added
                            THEN Append(exportQueue, job) ELSE exportQueue
          /\ backgroundQueue' = IF "background" \in added
                                THEN Append(backgroundQueue, background)
                                ELSE backgroundQueue
    BY <2>2 DEF AddJobs
  <2> HIDE DEF wanted
  <2>4. failures' \in 0..MaxFailures
    BY <2>3, ExporterAssumption DEF ExporterTypeOK
  <2>5. exporting' \in [Callers -> {"idle", "ok", "fail"}]
    BY <2>3 DEF ExporterTypeOK
  <2>6. exportQueue' \in Seq(SUBSET BatchItem)
    BY <2>1, <2>3, AppendProperties DEF ExporterTypeOK
  <2>7. backgroundQueue' \in Seq(SUBSET BatchItem)
    BY <2>1, <2>3, AppendProperties DEF ExporterTypeOK
  <2> QED
    BY <1>1, <2>4, <2>5, <2>6, <2>7
<1> QED
  BY <1>2, <1>3

\* A reply of Redis leaves the pending batch a batch.
LEMMA ReplyType ==
  ASSUME ExporterTypeOK, NEW c \in Callers
  PROVE  /\ BatchAfter(c) \in Seq(BatchItem)
         /\ [exporting EXCEPT ![c] = "idle"] \in [Callers -> {"idle", "ok", "fail"}]
BY DEF ExporterTypeOK, BatchAfter

\* exportItems keeps the types of the exporter.
LEMMA PushType ==
  ASSUME ExporterTypeOK, NEW batch \in Seq(BatchItem), NEW items \in Seq(BatchItem),
         PushItems(batch, items)
  PROVE  ExporterTypeOK'
<1>1. batch \o items \in Seq(BatchItem) /\ pendingBatch' = batch \o items
  BY DEF PushItems
<1>2. "worker" \in Callers
  BY DEF Callers
<1>3. CASE Len(batch \o items) >= MaxBatchSize
  BY <1>1, <1>2, <1>3, ExportBatchType DEF PushItems, ExporterTypeOK
<1>4. CASE ~(Len(batch \o items) >= MaxBatchSize)
  <2>1. /\ debounceTimer' = TRUE
        /\ exporting' = [exporting EXCEPT !["worker"] = "idle"]
        /\ UNCHANGED <<exportQueue, backgroundQueue, failures>>
    BY <1>4 DEF PushItems
  <2> QED
    BY <1>1, <1>2, <2>1, ReplyType DEF ExporterTypeOK
<1> QED
  BY <1>3, <1>4

-------------------------------------------------------------------------------
\* The inductive invariant.

QueueInv == TypeOK /\ Backpressure /\ QueuesKeepOrder

\* QueuesKeepOrder, read off the concatenation of the two queues.
LEMMA OrderOfQueues ==
  ASSUME TypeOK, QueuesKeepOrder
  PROVE  InOrder(outboundQueue \o inboundQueue, lastRead.n) /\ lastRead.n \in Nat
<1>1. outboundQueue \o inboundQueue \in Seq(Trace)
  BY DEF TypeOK
<1>2. DOMAIN (outboundQueue \o inboundQueue) = 1..Len(outboundQueue \o inboundQueue)
  BY <1>1
<1> QED
  BY <1>2, TraceIds DEF QueuesKeepOrder, InOrder, TypeOK, MaybeTrace

\* And back again, after a step.
LEMMA QueuesOfOrder ==
  ASSUME outboundQueue' \in Seq(Trace), inboundQueue' \in Seq(Trace),
         InOrder(outboundQueue' \o inboundQueue', lastRead'.n)
  PROVE  QueuesKeepOrder'
<1>1. outboundQueue' \o inboundQueue' \in Seq(Trace)
  OBVIOUS
<1>2. DOMAIN (outboundQueue' \o inboundQueue') = 1..Len(outboundQueue' \o inboundQueue')
  BY <1>1
<1> QED
  BY <1>2 DEF QueuesKeepOrder, InOrder

\* A step of the worker takes at most the first trace of the outbound queue.
LEMMA WorkerAdvances ==
  ASSUME QueueInv, outboundQueue' \in Seq(Trace),
         Advanced(outboundQueue, outboundQueue'),
         UNCHANGED <<inboundQueue, paused, lastRead>>
  PROVE  Backpressure' /\ QueuesKeepOrder'
<1>1. outboundQueue \in Seq(Trace) /\ inboundQueue \in Seq(Trace)
  BY DEF QueueInv, TypeOK
<1>2. Len(outboundQueue') <= Len(outboundQueue)
  BY <1>1, AdvancedLen
<1>3. Len(outboundQueue) \in Nat /\ Len(outboundQueue') \in Nat /\ MaxOutboundQueueSize \in Nat
  BY <1>1, ManagerAssumption
<1>4. Backpressure'
  BY <1>2, <1>3 DEF QueueInv, Backpressure
<1>5. InOrder(outboundQueue' \o inboundQueue, lastRead.n)
  BY <1>1, OrderOfQueues, OrderAdvanced DEF QueueInv
<1> QED
  BY <1>1, <1>4, <1>5, QueuesOfOrder

\* processInboundQueue on the inbound queue `inbound`, whose last trace is number m.
LEMMA ProcessKeeps ==
  ASSUME QueueInv, NEW inbound \in Seq(Trace), NEW m \in Nat,
         InOrder(outboundQueue \o inbound, m), lastRead'.n = m,
         Len(outboundQueue) < MaxOutboundQueueSize, ProcessInboundQueue(inbound)
  PROVE  /\ inboundQueue' \in Seq(Trace) /\ outboundQueue' \in Seq(Trace)
         /\ paused' \in BOOLEAN /\ worker' \in WorkerStates /\ current' \in MaybeTrace
         /\ Backpressure' /\ QueuesKeepOrder'
<1>1. outboundQueue \in Seq(Trace) /\ worker \in WorkerStates /\ current \in MaybeTrace
  BY DEF QueueInv, TypeOK, MaybeTrace
<1>2. /\ inboundQueue' \in Seq(Trace) /\ outboundQueue' \in Seq(Trace)
      /\ paused' \in BOOLEAN /\ worker' \in WorkerStates /\ current' \in MaybeTrace
      /\ Backpressure'
      /\ \E queue \in Seq(Trace) : /\ queue \o inboundQueue' = outboundQueue \o inbound
                                   /\ Advanced(queue, outboundQueue')
  BY <1>1, ProcessStep
<1>3. InOrder(outboundQueue' \o inboundQueue', m)
  BY <1>2, OrderAdvanced
<1> QED
  BY <1>2, <1>3, QueuesOfOrder

\* Steps of the exporter alone keep the manager's part of the invariant.
LEMMA ExporterStep ==
  ASSUME QueueInv, ExporterTypeOK', phase' \in Phases,
         UNCHANGED <<managerVars, lastRead, accepted, exposed>>
  PROVE  QueueInv'
BY DEF QueueInv, TypeOK, Backpressure, QueuesKeepOrder, managerVars

\* exportItems of the current trace on top of `batch`.
LEMMA ExportItemsStep ==
  ASSUME QueueInv, NEW batch \in Seq(BatchItem), ExportItems(batch),
         UNCHANGED <<inboundQueue, paused, phase, lastRead>>
  PROVE  QueueInv'
<1>1. /\ outboundQueue \in Seq(Trace) /\ current \in MaybeTrace /\ ExporterTypeOK
      /\ accepted \subseteq BatchItem /\ exposed \subseteq BatchItem
  BY DEF QueueInv, TypeOK, MaybeTrace
<1>2. Items(current) \in Seq(BatchItem) /\ Elements(Items(current)) \subseteq BatchItem
  BY <1>1, ItemsType
<1>3. ExporterTypeOK'
  BY <1>1, <1>2, PushType DEF ExportItems
<1>4. accepted' \subseteq BatchItem /\ exposed' \subseteq BatchItem
  BY <1>1, <1>2 DEF ExportItems
<1>5. /\ outboundQueue' \in Seq(Trace) /\ Advanced(outboundQueue, outboundQueue')
      /\ worker' \in WorkerStates /\ current' \in MaybeTrace
  <2>1. CASE Len(batch \o Items(current)) >= MaxBatchSize
    BY <2>1, <1>1 DEF ExportItems, Advanced, WorkerStates
  <2>2. CASE ~(Len(batch \o Items(current)) >= MaxBatchSize)
    BY <2>2, <1>1, LoopStep DEF ExportItems
  <2> QED
    BY <2>1, <2>2
<1>6. Backpressure' /\ QueuesKeepOrder'
  BY <1>5, WorkerAdvances
<1> QED
  BY <1>3, <1>4, <1>5, <1>6 DEF QueueInv, TypeOK, MaybeTrace

\* Every action of the tracer preserves the invariant of the queues.
LEMMA QueueStep == QueueInv /\ [Next]_vars => QueueInv'
<1> SUFFICES ASSUME QueueInv, [Next]_vars PROVE QueueInv'
  OBVIOUS
<1>a. /\ ExporterTypeOK
      /\ inboundQueue \in Seq(Trace) /\ outboundQueue \in Seq(Trace)
      /\ paused \in BOOLEAN /\ worker \in WorkerStates /\ current \in MaybeTrace
      /\ phase \in Phases /\ lastRead \in MaybeTrace
      /\ accepted \subseteq BatchItem /\ exposed \subseteq BatchItem
      /\ Backpressure
  BY DEF QueueInv, TypeOK, MaybeTrace
<1>b. pendingBatch \in Seq(BatchItem) /\ {"worker", "flush"} \subseteq Callers /\ Timers \subseteq Callers
  BY <1>a DEF ExporterTypeOK, Callers
<1>c. InOrder(outboundQueue \o inboundQueue, lastRead.n) /\ lastRead.n \in Nat /\ lastRead.height \in Nat
  BY <1>a, OrderOfQueues, TraceIds DEF QueueInv
<1>1. CASE ReadTrace
  <2>1. PICK height \in {lastRead.height, lastRead.height + 1}, ids \in Matches :
          Enqueue([n |-> lastRead.n + 1, height |-> height, ids |-> ids])
    BY <1>1 DEF ReadTrace
  <2> DEFINE t == [n |-> lastRead.n + 1, height |-> height, ids |-> ids]
             inbound == Append(inboundQueue, t)
  <2>2. t \in Trace /\ t.n = lastRead.n + 1
    BY <1>c DEF Trace
  <2>3. /\ Enqueue(t)
        /\ inbound \in Seq(Trace)
        /\ InOrder(outboundQueue \o inbound, lastRead.n + 1)
    BY <1>a, <1>c, <2>1, <2>2, OrderAppend
  <2> HIDE DEF t
  <2>4. /\ lastRead' = t
        /\ UNCHANGED <<exporterVars, phase, accepted, exposed>>
    BY <2>3 DEF Enqueue
  <2>5. ExporterTypeOK'
    BY <1>a, <2>4 DEF ExporterTypeOK, exporterVars
  <2>6. CASE paused
    <3>1. inboundQueue' = inbound /\ UNCHANGED <<outboundQueue, paused, worker, current>>
      BY <2>3, <2>6 DEF Enqueue
    <3>2. Backpressure'
      BY <1>a, <2>6, <3>1 DEF Backpressure
    <3>3. QueuesKeepOrder'
      BY <1>a, <2>2, <2>3, <2>4, <3>1, QueuesOfOrder
    <3> QED
      BY <1>a, <2>2, <2>3, <2>4, <2>5, <3>1, <3>2, <3>3 DEF QueueInv, TypeOK, MaybeTrace
  <2>7. CASE ~paused
    <3>1. ProcessInboundQueue(inbound)
      BY <2>3, <2>7 DEF Enqueue
    <3>2. Len(outboundQueue) < MaxOutboundQueueSize
      BY <1>a, <2>7 DEF Backpressure
    <3>3. lastRead'.n = lastRead.n + 1 /\ lastRead.n + 1 \in Nat
      BY <1>c, <2>2, <2>4
    <3>4. /\ inboundQueue' \in Seq(Trace) /\ outboundQueue' \in Seq(Trace)
          /\ paused' \in BOOLEAN /\ worker' \in WorkerStates /\ current' \in MaybeTrace
          /\ Backpressure' /\ QueuesKeepOrder'
      BY <2>3, <3>1, <3>2, <3>3, ProcessKeeps
    <3> QED
      BY <1>a, <2>2, <2>4, <2>5, <3>4 DEF QueueInv, TypeOK, MaybeTrace
  <2> QED
    BY <1>a, <2>6, <2>7
<1>2. CASE Resume
  <2>1. /\ ProcessInboundQueue(inboundQueue)
        /\ UNCHANGED <<exporterVars, phase, lastRead, accepted, exposed>>
        /\ 5 * Len(outboundQueue) < MaxOutboundQueueSize
    BY <1>2 DEF Resume
  <2>2. Len(outboundQueue) < MaxOutboundQueueSize
    <3>1. Len(outboundQueue) \in Nat /\ MaxOutboundQueueSize \in Nat
      BY <1>a, ManagerAssumption
    <3> QED
      BY <2>1, <3>1
  <2>3. /\ inboundQueue' \in Seq(Trace) /\ outboundQueue' \in Seq(Trace)
        /\ paused' \in BOOLEAN /\ worker' \in WorkerStates /\ current' \in MaybeTrace
        /\ Backpressure' /\ QueuesKeepOrder'
    BY <1>a, <1>c, <2>1, <2>2, ProcessKeeps
  <2>4. ExporterTypeOK'
    BY <1>a, <2>1 DEF ExporterTypeOK, exporterVars
  <2> QED
    BY <1>a, <2>1, <2>3, <2>4 DEF QueueInv, TypeOK, MaybeTrace
<1>3. CASE SkipUnmatched
  <2>1. /\ WorkerLoop(outboundQueue, "none")
        /\ UNCHANGED <<exporterVars, inboundQueue, paused, phase, lastRead, accepted, exposed>>
    BY <1>3 DEF SkipUnmatched
  <2>2. /\ outboundQueue' \in Seq(Trace) /\ Advanced(outboundQueue, outboundQueue')
        /\ worker' \in WorkerStates /\ current' \in MaybeTrace
    BY <1>a, <2>1, LoopStep
  <2>3. Backpressure' /\ QueuesKeepOrder'
    BY <2>1, <2>2, WorkerAdvances
  <2>4. ExporterTypeOK'
    BY <1>a, <2>1 DEF ExporterTypeOK, exporterVars
  <2> QED
    BY <1>a, <2>1, <2>2, <2>3, <2>4 DEF QueueInv, TypeOK, MaybeTrace
<1>4. CASE ExportOlder
  <2>1. /\ ExportBatch("worker", pendingBatch)
        /\ worker' = "olderBatch"
        /\ UNCHANGED <<pendingBatch, inboundQueue, outboundQueue, paused, current,
                       phase, lastRead, accepted, exposed>>
    BY <1>4 DEF ExportOlder
  <2>2. ExporterTypeOK'
    BY <1>a, <1>b, <2>1, ExportBatchType DEF ExporterTypeOK
  <2>3. Backpressure' /\ QueuesKeepOrder'
    BY <2>1 DEF QueueInv, Backpressure, QueuesKeepOrder
  <2> QED
    BY <1>a, <2>1, <2>2, <2>3 DEF QueueInv, TypeOK, MaybeTrace, WorkerStates
<1>5. CASE PushSameBlock
  BY <1>5, <1>b, ExportItemsStep DEF PushSameBlock
<1>6. CASE OlderExported
  BY <1>6, <1>a, <1>b, ReplyType, ExportItemsStep DEF OlderExported
<1>7. CASE WorkerReturns
  <2>1. /\ pendingBatch' = BatchAfter("worker")
        /\ exporting' = [exporting EXCEPT !["worker"] = "idle"]
        /\ WorkerLoop(outboundQueue, "none")
        /\ UNCHANGED <<debounceTimer, exportQueue, backgroundQueue, failures,
                       inboundQueue, paused, phase, lastRead, accepted, exposed>>
    BY <1>7 DEF WorkerReturns
  <2>2. /\ outboundQueue' \in Seq(Trace) /\ Advanced(outboundQueue, outboundQueue')
        /\ worker' \in WorkerStates /\ current' \in MaybeTrace
    BY <1>a, <2>1, LoopStep
  <2>3. Backpressure' /\ QueuesKeepOrder'
    BY <2>1, <2>2, WorkerAdvances
  <2>4. ExporterTypeOK'
    BY <1>a, <1>b, <2>1, ReplyType DEF ExporterTypeOK
  <2> QED
    BY <1>a, <2>1, <2>2, <2>3, <2>4 DEF QueueInv, TypeOK, MaybeTrace
<1>8. CASE Debounce
  <2>1. PICK t \in Timers : TimerFires(t)
    BY <1>8 DEF Debounce
  <2>2. ExporterTypeOK'
    BY <1>a, <1>b, <2>1, ExportBatchType DEF TimerFires, ExporterTypeOK
  <2> QED
    BY <1>8, <1>a, <2>2, ExporterStep DEF Debounce
<1>9. CASE DebounceReturns
  <2>1. PICK t \in Timers : TimerReturns(t)
    BY <1>9 DEF DebounceReturns
  <2>2. ExporterTypeOK'
    BY <1>a, <1>b, <2>1, ReplyType DEF TimerReturns, ExporterTypeOK
  <2> QED
    BY <1>9, <1>a, <2>2, ExporterStep DEF DebounceReturns
<1>10. CASE Close
  <2>1. ExporterTypeOK'
    BY <1>10, <1>a DEF Close, ExporterTypeOK, exporterVars
  <2> QED
    BY <1>10, <2>1, ExporterStep DEF Close, Phases
<1>11. CASE AwaitFlush
  <2>1. ExporterTypeOK'
    BY <1>11, <1>a, <1>b, ExportBatchType DEF AwaitFlush, ExporterTypeOK
  <2> QED
    BY <1>11, <2>1, ExporterStep DEF AwaitFlush, Phases
<1>12. CASE FlushReturns
  <2>1. ExporterTypeOK'
    BY <1>12, <1>a, <1>b, ReplyType DEF FlushReturns, ExporterTypeOK
  <2> QED
    BY <1>12, <2>1, ExporterStep DEF FlushReturns, Phases
<1>13. CASE FifoFails
  <2>1. ExporterTypeOK'
    BY <1>13, <1>a DEF FifoFails, ExporterTypeOK, exporterVars
  <2> QED
    BY <1>13, <2>1, ExporterStep DEF FifoFails, Phases
<1>14. CASE UNCHANGED vars
  BY <1>14 DEF vars, exporterVars, managerVars, QueueInv, TypeOK, ExporterTypeOK,
               Backpressure, QueuesKeepOrder
<1> QED
  BY <1>1, <1>2, <1>3, <1>4, <1>5, <1>6, <1>7, <1>8, <1>9, <1>10, <1>11, <1>12, <1>13, <1>14 DEF Next

\* The queues of a new TracerManager satisfy the invariant.
LEMMA QueueInit == Init => QueueInv
<1> SUFFICES ASSUME Init PROVE QueueInv
  OBVIOUS
<1>a. /\ pendingBatch \in Seq(BatchItem)
      /\ exportQueue \in Seq(SUBSET BatchItem)
      /\ backgroundQueue \in Seq(SUBSET BatchItem)
  BY DEF Init, ExporterInit
<1>b. exporting \in [Callers -> {"idle", "ok", "fail"}]
  BY DEF Init, ExporterInit
<1>g. debounceTimer \in BOOLEAN
  BY DEF Init, ExporterInit
<1>h. failures = 0
  BY DEF Init, ExporterInit
<1>c. failures \in 0..MaxFailures
  BY <1>h, ExporterAssumption
<1>1. ExporterTypeOK
  BY <1>a, <1>b, <1>c, <1>g DEF ExporterTypeOK
<1>d. inboundQueue \in Seq(Trace) /\ outboundQueue \in Seq(Trace)
  BY DEF Init
<1>e. current \in Trace \cup {NoTrace} /\ lastRead \in Trace \cup {NoTrace}
  BY DEF Init
<1>f. /\ paused \in BOOLEAN /\ worker \in WorkerStates /\ phase \in Phases
      /\ accepted \subseteq BatchItem /\ exposed \subseteq BatchItem
  BY DEF Init, WorkerStates, Phases
<1>2. TypeOK
  BY <1>1, <1>d, <1>e, <1>f DEF TypeOK
<1>3. outboundQueue \o inboundQueue = <<>>
  BY DEF Init
<1>4. Backpressure
  BY ManagerAssumption DEF Init, Backpressure
<1> QED
  BY <1>2, <1>3, <1>4 DEF QueueInv, QueuesKeepOrder

\* The invariant of the queues holds throughout.
LEMMA QueueInvariant == Spec => []QueueInv
BY QueueInit, QueueStep, PTL DEF Spec

\* The fields of TracerManager and BatchedTraceExporter keep their types.
THEOREM TypeCorrect == Spec => []TypeOK
<1>1. QueueInv => TypeOK
  BY DEF QueueInv
<1> QED
  BY <1>1, QueueInvariant, PTL

\* The outbound queue never exceeds its maximum, and traces are left in the
\* inbound queue only while the interval that resumes it is running.
THEOREM BackpressureHolds == Spec => []Backpressure
<1>1. QueueInv => Backpressure
  BY DEF QueueInv
<1> QED
  BY <1>1, QueueInvariant, PTL

\* Pausing and resuming lose no trace and keep the order of the FIFO.
THEOREM OrderIsKept == Spec => []QueuesKeepOrder
<1>1. QueueInv => QueuesKeepOrder
  BY DEF QueueInv
<1> QED
  BY <1>1, QueueInvariant, PTL

-----------------------------------------------------------------------------
(* The batches.                                                            *)

\* The worker holds a trace whose items have not been pushed.
Taken == worker \in {"blockTime", "olderBatch"}

\* The traces of the two queues, and the items that were pushed.
Waiting == Elements(outboundQueue) \cup Elements(inboundQueue)
Pushed == Elements(pendingBatch) \cup InExportQueue

\* x was read before t.
Before(x, t) == x.n < t.n /\ x.height <= t.height

UpTo(x, t) == x.n <= t.n /\ x.height <= t.height

\* What was pushed precedes the trace the worker holds, which precedes those that
\* are waiting; heights do not decrease along the FIFO.
FifoOrder ==
  /\ \A t \in Waiting : UpTo(t, lastRead)
  /\ \A s, t \in Waiting : s.n < t.n => s.height <= t.height
  /\ Taken => /\ current \in Trace /\ UpTo(current, lastRead)
              /\ \A t \in Waiting : Before(current, t)
  /\ \A x \in Pushed : /\ UpTo(x, lastRead)
                       /\ \A t \in Waiting : Before(x, t)
                       /\ Taken => Before(x, current)

JobItems(jobs) == UNION Elements(jobs)

\* A batch holds one block, in the order of the FIFO.
BatchOrdered(batch) ==
  \A i, j \in DOMAIN batch : /\ batch[i].height = batch[j].height
                             /\ i < j => batch[i].n <= batch[j].n

\* What the batch would add to the queue does not go back behind the jobs in it.
BatchFollows(batch, jobs) ==
  \A x \in JobItems(jobs), y \in UniqueBatchData(batch) :
    /\ x.height <= y.height
    /\ x.id = y.id => x.n <= y.n

BatchInv ==
  /\ BatchOrdered(pendingBatch)
  /\ BatchFollows(pendingBatch, exportQueue)
  /\ OneBlockPerBatch
  /\ QueueNeverGoesBack

\* While Redis has not failed every export in progress will clear the batch, and a
\* batch has an export or a timer.
ExporterInv ==
  /\ failures = 0 => \A c \in Callers : exporting[c] # "fail"
  /\ PendingHasExporter

\* x is in the queues it belongs to.
InQueues(x) ==
  /\ Covered(x, InExportQueue)
  /\ x.id \in BackgroundIds => Covered(x, InBackgroundQueue)

\* x, or a later write of its key, is queued, or it is in the batch while no export
\* that will clear the batch is waiting for its reply.
Kept(x) ==
  \/ InQueues(x)
  \/ Covered(x, Elements(pendingBatch)) /\ \A c \in Callers : exporting[c] # "ok"

KeptInv == \A x \in accepted \ exposed : Kept(x)

ExitInv ==
  /\ worker \in {"none", "settled"} => current = NoTrace
  /\ phase \in {"flushing", "exited"} =>
       inboundQueue = <<>> /\ outboundQueue = <<>> /\ worker \in {"none", "settled"}
  /\ phase = "exited" => pendingBatch = <<>>

TracerInv == QueueInv /\ FifoOrder /\ BatchInv /\ ExporterInv /\ KeptInv /\ ExitInv

-------------------------------------------------------------------------------
\* Elements of sequences, and the greatest index of a set of indices.

\* A set of naturals that is not empty has a least element.
LEMMA LeastNatural ==
  ASSUME NEW T \in SUBSET Nat, T # {}
  PROVE  \E m \in T : \A k \in T : m <= k
<1> DEFINE R == OpToRel(<, Nat)
<1>1. IsWellFoundedOn(R, Nat)
  BY NatLessThanWellFounded
<1>2. \A k, m \in Nat : <<k, m>> \in R <=> k < m
  BY DEF OpToRel
<1> HIDE DEF R
<1>3. PICK m \in T : \A k \in T : ~(<<k, m>> \in R)
  BY <1>1, WFMin
<1>4. \A k \in T : m <= k
  <2> SUFFICES ASSUME NEW k \in T PROVE m <= k
    OBVIOUS
  <2>1. ~(k < m)
    BY <1>2, <1>3, Zenon
  <2> QED
    BY <2>1
<1> QED
  BY <1>4

\* A set of indices that is not empty has a greatest element.
LEMMA LastIndex ==
  ASSUME NEW len \in Nat, NEW T \in SUBSET (1..len), T # {}
  PROVE  \E m \in T : \A k \in T : k <= m
<1> DEFINE D == {len - k : k \in T}
<1>0. PICK k0 \in T : TRUE
  OBVIOUS
<1>1. D \in SUBSET Nat /\ D # {}
  <2>1. len - k0 \in D
    BY <1>0
  <2>2. \A k \in T : len - k \in Nat
    OBVIOUS
  <2> QED
    BY <2>1, <2>2
<1>2. PICK d \in D : \A e \in D : d <= e
  BY <1>1, LeastNatural
<1>3. PICK m \in T : d = len - m
  OBVIOUS
<1>4. \A k \in T : len - m <= len - k
  BY <1>2, <1>3
<1> QED
  BY <1>4

\* The elements of a sequence that grows by one.
LEMMA ElementsAppend ==
  ASSUME NEW S, NEW s \in Seq(S), NEW e \in S
  PROVE  Elements(Append(s, e)) = Elements(s) \cup {e}
<1>1. /\ DOMAIN Append(s, e) = 1..(Len(s) + 1) /\ DOMAIN s = 1..Len(s) /\ Len(s) \in Nat
      /\ \A i \in 1..Len(s) : Append(s, e)[i] = s[i]
      /\ Append(s, e)[Len(s) + 1] = e
  BY AppendProperties
<1> QED
  BY <1>1 DEF Elements

\* The elements of a concatenation.
LEMMA ElementsConcat ==
  ASSUME NEW S, NEW a \in Seq(S), NEW b \in Seq(S)
  PROVE  Elements(a \o b) = Elements(a) \cup Elements(b)
<1>1. /\ DOMAIN (a \o b) = 1..(Len(a) + Len(b))
      /\ DOMAIN a = 1..Len(a) /\ DOMAIN b = 1..Len(b) /\ Len(a) \in Nat /\ Len(b) \in Nat
      /\ \A i \in 1..(Len(a) + Len(b)) :
           (a \o b)[i] = IF i <= Len(a) THEN a[i] ELSE b[i - Len(a)]
  BY ConcatProperties
<1>2. \A i \in 1..Len(a) : (a \o b)[i] = a[i] /\ i \in 1..(Len(a) + Len(b))
  BY <1>1
<1>3. \A i \in 1..Len(b) : (a \o b)[i + Len(a)] = b[i] /\ i + Len(a) \in 1..(Len(a) + Len(b))
  BY <1>1
<1>4. \A i \in 1..(Len(a) + Len(b)) : (a \o b)[i] \in Elements(a) \cup Elements(b)
  BY <1>1 DEF Elements
<1>5. Elements(a \o b) \subseteq Elements(a) \cup Elements(b)
  BY <1>1, <1>4 DEF Elements
<1>6. ASSUME NEW x \in Elements(a) PROVE x \in Elements(a \o b)
  <2>1. PICK i \in 1..Len(a) : x = a[i]
    BY <1>1 DEF Elements
  <2> QED
    BY <2>1, <1>1, <1>2 DEF Elements
<1>7. ASSUME NEW x \in Elements(b) PROVE x \in Elements(a \o b)
  <2>1. PICK i \in 1..Len(b) : x = b[i]
    BY <1>1 DEF Elements
  <2>2. x = (a \o b)[i + Len(a)] /\ i + Len(a) \in DOMAIN (a \o b)
    BY <2>1, <1>1, <1>3
  <2> QED
    BY <2>2 DEF Elements
<1> QED
  BY <1>5, <1>6, <1>7

\* The elements of an empty sequence, and of one that is not.
LEMMA ElementsTail ==
  ASSUME NEW S, NEW s \in Seq(S), s # <<>>
  PROVE  Head(s) \in Elements(s) /\ Elements(Tail(s)) \subseteq Elements(s)
BY DEF Elements

-------------------------------------------------------------------------------
\* uniqueBatchData and the order of a batch.

\* The items of a trace carry its position and height.
LEMMA ItemsOfTrace ==
  ASSUME NEW t \in MaybeTrace
  PROVE  \A x \in Elements(Items(t)) : x.n = t.n /\ x.height = t.height
<1> SUFFICES ASSUME NEW x \in Elements(Items(t)) PROVE x.n = t.n /\ x.height = t.height
  OBVIOUS
<1>1. PICK i \in DOMAIN Items(t) : x = Items(t)[i]
  BY DEF Elements
<1>2. i \in DOMAIN t.ids
  BY DEF Items
<1>3. x = [n |-> t.n, height |-> t.height, id |-> t.ids[i]]
  BY <1>1, <1>2 DEF Items
<1> QED
  BY <1>3

\* Every item of an ordered batch is in its job, or a later write of its key is.
LEMMA UniqueCovers ==
  ASSUME NEW batch \in Seq(BatchItem), BatchOrdered(batch), NEW x \in Elements(batch)
  PROVE  \E u \in UniqueBatchData(batch) : SameKey(x, u) /\ u.n >= x.n
<1>1. PICK i \in DOMAIN batch : x = batch[i]
  BY DEF Elements
<1> DEFINE T == {k \in DOMAIN batch : SameKey(batch[k], x)}
<1>2. /\ DOMAIN batch = 1..Len(batch) /\ Len(batch) \in Nat
      /\ \A k \in DOMAIN batch : batch[k] \in BatchItem
  OBVIOUS
<1>3. i \in T
  BY <1>1 DEF SameKey
<1>4. PICK m \in T : \A k \in T : k <= m
  BY <1>2, <1>3, LastIndex
<1>5. m \in DOMAIN batch /\ SameKey(batch[m], x)
  OBVIOUS
<1>6. \A j \in DOMAIN batch : j > m => ~SameKey(batch[j], batch[m])
  BY <1>2, <1>4, <1>5 DEF SameKey
<1>7. batch[m] \in UniqueBatchData(batch)
  BY <1>5, <1>6 DEF UniqueBatchData
<1>8. batch[m].n >= x.n
  <2>1. batch[i].n \in Nat /\ batch[m].n \in Nat /\ i <= m /\ i \in Nat /\ m \in Nat
    BY <1>1, <1>2, <1>3, <1>4, <1>5 DEF BatchItem
  <2>2. CASE i = m
    BY <2>1, <2>2, <1>1
  <2>3. CASE i < m
    BY <2>1, <2>3, <1>1, <1>5 DEF BatchOrdered
  <2> QED
    BY <2>1, <2>2, <2>3
<1> QED
  BY <1>5, <1>7, <1>8 DEF SameKey

\* A job has one item of a key.
LEMMA UniqueKeys ==
  ASSUME NEW batch \in Seq(BatchItem), NEW x \in UniqueBatchData(batch),
         NEW y \in UniqueBatchData(batch), SameKey(x, y)
  PROVE  x = y
<1>1. PICK i \in DOMAIN batch : /\ x = batch[i]
                                /\ \A j \in DOMAIN batch : j > i => ~SameKey(batch[j], batch[i])
  BY DEF UniqueBatchData
<1>2. PICK k \in DOMAIN batch : /\ y = batch[k]
                                /\ \A j \in DOMAIN batch : j > k => ~SameKey(batch[j], batch[k])
  BY DEF UniqueBatchData
<1>3. i \in Nat /\ k \in Nat
  OBVIOUS
<1>4. SameKey(batch[k], batch[i]) /\ SameKey(batch[i], batch[k])
  BY <1>1, <1>2 DEF SameKey
<1>5. ~(k > i) /\ ~(i > k)
  BY <1>1, <1>2, <1>4
<1> QED
  BY <1>1, <1>2, <1>3, <1>5

\* The items of a job are items of the batch.
LEMMA UniqueSubset ==
  ASSUME NEW batch \in Seq(BatchItem)
  PROVE  UniqueBatchData(batch) \subseteq Elements(batch) /\ Elements(batch) \subseteq BatchItem
BY DEF UniqueBatchData, Elements

\* The items of a trace of the batch's block keep the batch ordered.
LEMMA PushOrdered ==
  ASSUME NEW batch \in Seq(BatchItem), BatchOrdered(batch), NEW t \in MaybeTrace,
         \A x \in Elements(batch) : x.n < t.n /\ x.height = t.height
  PROVE  BatchOrdered(batch \o Items(t))
<1> DEFINE items == Items(t)
           pushed == batch \o items
<1>1. items \in Seq(BatchItem) /\ \A i \in DOMAIN items : items[i].n = t.n /\ items[i].height = t.height
  BY ItemsType DEF Items
<1>2. t.n \in Nat /\ t.height \in Nat
  BY TraceIds
<1> HIDE DEF items
<1>3. /\ DOMAIN pushed = 1..(Len(batch) + Len(items))
      /\ DOMAIN batch = 1..Len(batch) /\ DOMAIN items = 1..Len(items)
      /\ Len(batch) \in Nat /\ Len(items) \in Nat
      /\ \A i \in 1..(Len(batch) + Len(items)) :
           pushed[i] = IF i <= Len(batch) THEN batch[i] ELSE items[i - Len(batch)]
  BY <1>1, ConcatProperties
<1>4. \A i \in DOMAIN batch : batch[i].n < t.n /\ batch[i].height = t.height /\ batch[i].n \in Nat
  <2>1. \A i \in DOMAIN batch : batch[i] \in Elements(batch) /\ batch[i] \in BatchItem
    BY DEF Elements
  <2> QED
    BY <2>1 DEF BatchItem
<1>5. \A i \in DOMAIN pushed : /\ pushed[i].height = t.height
                               /\ i <= Len(batch) => pushed[i].n < t.n /\ pushed[i].n \in Nat
                               /\ i > Len(batch) => pushed[i].n = t.n
  BY <1>1, <1>3, <1>4
<1>6. ASSUME NEW i \in DOMAIN pushed, NEW j \in DOMAIN pushed, i < j
      PROVE  pushed[i].n <= pushed[j].n
  <2>1. i \in Nat /\ j \in Nat
    BY <1>3
  <2>2. CASE j <= Len(batch)
    <3>1. i \in DOMAIN batch /\ j \in DOMAIN batch /\ pushed[i] = batch[i] /\ pushed[j] = batch[j]
      BY <1>3, <1>6, <2>1, <2>2
    <3> QED
      BY <3>1, <1>6 DEF BatchOrdered
  <2>3. CASE j > Len(batch)
    <3>1. pushed[j].n = t.n
      BY <1>5, <2>3
    <3>2. CASE i <= Len(batch)
      BY <3>1, <3>2, <1>2, <1>5
    <3>3. CASE i > Len(batch)
      BY <3>1, <3>3, <1>2, <1>5
    <3> QED
      BY <3>2, <3>3, <2>1, <1>3
  <2> QED
    BY <1>3, <2>1, <2>2, <2>3
<1> QED
  BY <1>5, <1>6 DEF BatchOrdered, items

\* Items of a trace that was read after all the queued ones follow them.
LEMMA PushFollows ==
  ASSUME NEW batch \in Seq(BatchItem), NEW jobs \in Seq(SUBSET BatchItem),
         BatchFollows(batch, jobs), NEW t \in MaybeTrace,
         \A x \in JobItems(jobs) : Before(x, t)
  PROVE  BatchFollows(batch \o Items(t), jobs)
<1> DEFINE items == Items(t)
           pushed == batch \o items
<1>1. items \in Seq(BatchItem) /\ \A i \in DOMAIN items : items[i].n = t.n /\ items[i].height = t.height
  BY ItemsType DEF Items
<1>2. t.n \in Nat /\ t.height \in Nat
  BY TraceIds
<1> HIDE DEF items
<1>3. /\ DOMAIN pushed = 1..(Len(batch) + Len(items))
      /\ DOMAIN batch = 1..Len(batch) /\ DOMAIN items = 1..Len(items)
      /\ Len(batch) \in Nat /\ Len(items) \in Nat
      /\ \A i \in 1..(Len(batch) + Len(items)) :
           pushed[i] = IF i <= Len(batch) THEN batch[i] ELSE items[i - Len(batch)]
  BY <1>1, ConcatProperties
<1> SUFFICES ASSUME NEW x \in JobItems(jobs), NEW y \in UniqueBatchData(pushed)
             PROVE  x.height <= y.height /\ (x.id = y.id => x.n <= y.n)
  BY DEF BatchFollows, items
<1>4. PICK k \in DOMAIN pushed : /\ y = pushed[k]
                                 /\ \A j \in DOMAIN pushed : j > k => ~SameKey(pushed[j], pushed[k])
  BY DEF UniqueBatchData
<1>5. CASE k <= Len(batch)
  <2>1. k \in DOMAIN batch /\ y = batch[k]
    BY <1>3, <1>4, <1>5
  <2>2. \A j \in DOMAIN batch : j > k => ~SameKey(batch[j], batch[k])
    BY <1>3, <1>4, <2>1
  <2>3. y \in UniqueBatchData(batch)
    BY <2>1, <2>2 DEF UniqueBatchData
  <2> QED
    BY <2>3 DEF BatchFollows
<1>6. CASE k > Len(batch)
  <2>1. y.n = t.n /\ y.height = t.height
    BY <1>1, <1>3, <1>4, <1>6
  <2>2. Before(x, t) /\ x.n \in Nat
    BY DEF JobItems, Elements, BatchItem
  <2> QED
    BY <1>2, <2>1, <2>2 DEF Before
<1> QED
  BY <1>3, <1>5, <1>6

\* The job of a batch takes its place behind the others, and the batch, until it
\* is cleared, does not fall behind it.
LEMMA JobAppended ==
  ASSUME NEW batch \in Seq(BatchItem), NEW jobs \in Seq(SUBSET BatchItem),
         BatchOrdered(batch), BatchFollows(batch, jobs)
  PROVE  BatchFollows(batch, Append(jobs, UniqueBatchData(batch)))
<1> DEFINE job == UniqueBatchData(batch)
<1>1. job \subseteq BatchItem
  BY JobType
<1>2. JobItems(Append(jobs, job)) = JobItems(jobs) \cup job
  <2>1. Elements(Append(jobs, job)) = Elements(jobs) \cup {job}
    BY <1>1, ElementsAppend
  <2> QED
    BY <2>1 DEF JobItems
<1>3. ASSUME NEW x \in job, NEW y \in job
      PROVE  x.height <= y.height /\ (x.id = y.id => x.n <= y.n)
  <2>1. x.height = y.height /\ x.height \in Nat /\ x.n \in Nat
    <3>1. job \subseteq Elements(batch)
      BY UniqueSubset
    <3>2. PICK i, j \in DOMAIN batch : x = batch[i] /\ y = batch[j]
      BY <3>1 DEF Elements
    <3>3. x.height = y.height
      BY <3>2 DEF BatchOrdered
    <3>4. x \in BatchItem
      BY <1>1
    <3> QED
      BY <3>3, <3>4 DEF BatchItem
  <2>2. ASSUME x.id = y.id PROVE x = y
    BY <2>1, <2>2, UniqueKeys DEF SameKey
  <2> QED
    BY <2>1, <2>2
<1> QED
  BY <1>2, <1>3 DEF BatchFollows

-------------------------------------------------------------------------------
\* exportBatch and its reply, whoever calls it.

\* What a call of exportBatch with something to export makes of the queues.
Exported(c, batch) ==
  LET job == UniqueBatchData(batch)
  IN \/ /\ exporting' = [exporting EXCEPT ![c] = "ok"]
        /\ failures' = failures
        /\ exportQueue' = Append(exportQueue, job)
        /\ backgroundQueue' = IF BackgroundData(job) = {} THEN backgroundQueue
                              ELSE Append(backgroundQueue, BackgroundData(job))
     \/ /\ exporting' = [exporting EXCEPT ![c] = "fail"]
        /\ failures' = failures + 1
        /\ exportQueue' \in {exportQueue, Append(exportQueue, job)}
        /\ backgroundQueue' \in {backgroundQueue, Append(backgroundQueue, BackgroundData(job))}

\* Either both queues have the job and the call will return, or it will reject.
LEMMA ExportOutcome ==
  ASSUME NEW c \in Callers, NEW batch \in Seq(BatchItem), batch # <<>>,
         ExportBatch(c, batch)
  PROVE  debounceTimer' = FALSE /\ Exported(c, batch)
<1> DEFINE job == UniqueBatchData(batch)
<1>1. debounceTimer' = FALSE /\ AddJobs(c, job)
  BY DEF ExportBatch
<1> HIDE DEF job
<1> DEFINE background == BackgroundData(job)
           wanted == {"export"} \cup (IF background = {} THEN {} ELSE {"background"})
<1>2. PICK added \in SUBSET wanted :
        /\ failures' = IF added = wanted THEN failures ELSE failures + 1
        /\ failures' <= MaxFailures
        /\ exporting' = [exporting EXCEPT ![c] = IF added = wanted THEN "ok" ELSE "fail"]
        /\ exportQueue' = IF "export" \in added
                          THEN Append(exportQueue, job) ELSE exportQueue
        /\ backgroundQueue' = IF "background" \in added
                              THEN Append(backgroundQueue, background)
                              ELSE backgroundQueue
  BY <1>1 DEF AddJobs
<1>3. "export" \in wanted /\ ("background" \in wanted <=> background # {})
  OBVIOUS
<1> HIDE DEF wanted
<1>4. CASE added = wanted
  BY <1>1, <1>2, <1>3, <1>4 DEF Exported, job
<1>5. CASE added # wanted
  BY <1>1, <1>2, <1>5 DEF Exported, job
<1> QED
  BY <1>4, <1>5

\* The items of the queues after a call: those before it and those of the batch.
LEMMA QueuesAfter ==
  ASSUME ExporterTypeOK, NEW c \in Callers, NEW batch \in Seq(BatchItem),
         Exported(c, batch)
  PROVE  /\ InExportQueue \subseteq InExportQueue'
         /\ InExportQueue' \subseteq InExportQueue \cup UniqueBatchData(batch)
         /\ InBackgroundQueue \subseteq InBackgroundQueue'
         /\ exportQueue' \in {exportQueue, Append(exportQueue, UniqueBatchData(batch))}
         /\ exporting'[c] = "ok" =>
              /\ UniqueBatchData(batch) \subseteq InExportQueue'
              /\ BackgroundData(UniqueBatchData(batch)) \subseteq InBackgroundQueue'
<1> DEFINE job == UniqueBatchData(batch)
<1>1. job \in SUBSET BatchItem /\ BackgroundData(job) \in SUBSET BatchItem
  BY JobType DEF BackgroundData
<1>2. exportQueue \in Seq(SUBSET BatchItem) /\ backgroundQueue \in Seq(SUBSET BatchItem)
  BY DEF ExporterTypeOK
<1>3. Elements(Append(exportQueue, job)) = Elements(exportQueue) \cup {job}
  BY <1>1, <1>2, ElementsAppend
<1>4. Elements(Append(backgroundQueue, BackgroundData(job)))
        = Elements(backgroundQueue) \cup {BackgroundData(job)}
  BY <1>1, <1>2, ElementsAppend
<1>5. exportQueue' \in {exportQueue, Append(exportQueue, job)}
  BY DEF Exported
<1>6. \/ backgroundQueue' = backgroundQueue
      \/ backgroundQueue' = Append(backgroundQueue, BackgroundData(job))
  BY DEF Exported
<1>7. /\ InExportQueue \subseteq InExportQueue'
      /\ InExportQueue' \subseteq InExportQueue \cup job
  <2>1. CASE exportQueue' = exportQueue
    BY <2>1 DEF InExportQueue
  <2>2. CASE exportQueue' = Append(exportQueue, job)
    <3>1. UNION Elements(exportQueue)' = (UNION Elements(exportQueue)) \cup job
      BY <2>2, <1>3
    <3> QED
      BY <3>1 DEF InExportQueue
  <2> QED
    BY <1>5, <2>1, <2>2
<1>8. InBackgroundQueue \subseteq InBackgroundQueue'
  BY <1>4, <1>6 DEF InBackgroundQueue
<1>9. ASSUME exporting'[c] = "ok"
      PROVE  job \subseteq InExportQueue' /\ BackgroundData(job) \subseteq InBackgroundQueue'
  <2>1. exporting' # [exporting EXCEPT ![c] = "fail"]
    BY <1>9 DEF ExporterTypeOK
  <2>2. /\ exportQueue' = Append(exportQueue, job)
        /\ backgroundQueue' = IF BackgroundData(job) = {} THEN backgroundQueue
                              ELSE Append(backgroundQueue, BackgroundData(job))
    BY <2>1 DEF Exported
  <2>3. job \subseteq InExportQueue'
    BY <2>2, <1>3 DEF InExportQueue
  <2>4. BackgroundData(job) \subseteq InBackgroundQueue'
    BY <2>2, <1>4 DEF InBackgroundQueue
  <2> QED
    BY <2>3, <2>4
<1> QED
  BY <1>5, <1>7, <1>8, <1>9

\* Exporting an ordered batch that follows the queue keeps the queue going forward.
LEMMA ExportKeepsOrder ==
  ASSUME ExporterTypeOK, NEW batch \in Seq(BatchItem), pendingBatch' = batch,
         BatchOrdered(batch), BatchFollows(batch, exportQueue),
         OneBlockPerBatch, QueueNeverGoesBack,
         exportQueue' \in {exportQueue, Append(exportQueue, UniqueBatchData(batch))}
  PROVE  BatchInv'
<1> DEFINE job == UniqueBatchData(batch)
<1>1. exportQueue \in Seq(SUBSET BatchItem) /\ job \in SUBSET BatchItem
  BY JobType DEF ExporterTypeOK
<1>2. BatchOrdered(pendingBatch)' /\ BatchFollows(pendingBatch, exportQueue)'
  BY <1>1, JobAppended
<1>3. CASE exportQueue' = exportQueue
  BY <1>2, <1>3 DEF BatchInv, OneBlockPerBatch, QueueNeverGoesBack
<1>4. CASE exportQueue' = Append(exportQueue, job)
  <2>1. /\ DOMAIN exportQueue = 1..Len(exportQueue) /\ Len(exportQueue) \in Nat
        /\ DOMAIN (exportQueue') = 1..(Len(exportQueue) + 1)
        /\ \A k \in 1..Len(exportQueue) : exportQueue'[k] = exportQueue[k]
        /\ exportQueue'[Len(exportQueue) + 1] = job
    BY <1>1, <1>4, AppendProperties
  <2>2. \A x, y \in job : x.height = y.height
    BY UniqueSubset DEF BatchOrdered, Elements
  <2>3. OneBlockPerBatch'
    BY <2>1, <2>2 DEF OneBlockPerBatch
  <2>4. \A k \in 1..Len(exportQueue) : \A x \in exportQueue[k], y \in job :
          x.height <= y.height /\ (x.id = y.id => x.n <= y.n)
    BY <2>1 DEF BatchFollows, JobItems, Elements
  <2>5. QueueNeverGoesBack'
    <3> SUFFICES ASSUME NEW k \in 1..(Len(exportQueue) + 1), NEW l \in 1..(Len(exportQueue) + 1),
                        k < l, NEW x \in exportQueue'[k], NEW y \in exportQueue'[l]
                 PROVE  x.height <= y.height /\ (x.id = y.id => x.n <= y.n)
      BY <2>1 DEF QueueNeverGoesBack
    <3>1. k \in 1..Len(exportQueue) /\ exportQueue'[k] = exportQueue[k]
      BY <2>1
    <3>2. CASE l = Len(exportQueue) + 1
      BY <2>1, <2>4, <3>1, <3>2
    <3>3. CASE l \in 1..Len(exportQueue)
      BY <2>1, <3>1, <3>3 DEF QueueNeverGoesBack
    <3> QED
      BY <2>1, <3>2, <3>3
  <2> QED
    BY <1>2, <2>3, <2>5 DEF BatchInv
<1> QED
  BY <1>3, <1>4

\* A call that will succeed has queued whatever it is going to clear.
LEMMA ExportKeeps ==
  ASSUME ExporterTypeOK, NEW c \in Callers, NEW batch \in Seq(BatchItem),
         pendingBatch' = batch, BatchOrdered(batch), Exported(c, batch), NEW x \in BatchItem,
         \/ InQueues(x)
         \/ Covered(x, Elements(batch)) /\ \A d \in Callers \ {c} : exporting[d] # "ok"
  PROVE  Kept(x)'
<1> DEFINE job == UniqueBatchData(batch)
<1>1. /\ InExportQueue \subseteq InExportQueue'
      /\ InBackgroundQueue \subseteq InBackgroundQueue'
      /\ exporting'[c] = "ok" => /\ job \subseteq InExportQueue'
                                 /\ BackgroundData(job) \subseteq InBackgroundQueue'
  BY QueuesAfter
<1>2. CASE InQueues(x)
  BY <1>1, <1>2 DEF InQueues, Covered, Kept
<1>3. CASE ~InQueues(x)
  <2>1. Covered(x, Elements(batch)) /\ \A d \in Callers \ {c} : exporting[d] # "ok"
    BY <1>3
  <2>2. CASE exporting'[c] = "ok"
    <3>1. PICK y \in Elements(batch) : SameKey(x, y) /\ y.n >= x.n
      BY <2>1 DEF Covered
    <3>2. PICK u \in job : SameKey(y, u) /\ u.n >= y.n
      BY <3>1, UniqueCovers
    <3>3. x.n \in Nat /\ y.n \in Nat /\ u.n \in Nat
      BY <3>1, <3>2, UniqueSubset DEF BatchItem
    <3>4. SameKey(x, u) /\ u.n >= x.n
      BY <3>1, <3>2, <3>3 DEF SameKey
    <3>5. x.id \in BackgroundIds => u \in BackgroundData(job)
      BY <3>2, <3>4 DEF BackgroundData, SameKey
    <3> QED
      BY <1>1, <2>2, <3>2, <3>4, <3>5 DEF Kept, InQueues, Covered
  <2>3. CASE exporting'[c] # "ok"
    <3>1. \A d \in Callers : exporting'[d] # "ok"
      BY <2>1, <2>3 DEF Exported, ExporterTypeOK
    <3> QED
      BY <2>1, <3>1 DEF Kept
  <2> QED
    BY <2>2, <2>3
<1> QED
  BY <1>2, <1>3

\* A reply clears the batch only after what it held was queued.
LEMMA ReplyKeeps ==
  ASSUME ExporterTypeOK, NEW c \in Callers, NEW x \in BatchItem, Kept(x),
         pendingBatch' = BatchAfter(c),
         exporting' = [exporting EXCEPT ![c] = "idle"],
         UNCHANGED <<exportQueue, backgroundQueue>>
  PROVE  Kept(x)'
<1>1. InQueues(x) => InQueues(x)'
  BY DEF InQueues, Covered, InExportQueue, InBackgroundQueue
<1>2. ASSUME Covered(x, Elements(pendingBatch)), \A d \in Callers : exporting[d] # "ok"
      PROVE  Covered(x, Elements(pendingBatch))' /\ \A d \in Callers : exporting'[d] # "ok"
  BY <1>2 DEF BatchAfter, ExporterTypeOK
<1> QED
  BY <1>1, <1>2 DEF Kept

-------------------------------------------------------------------------------
\* The traces in the FIFO's order.

\* A trace taken from the front of the queues precedes all that stay.
LEMMA HeadFirst ==
  ASSUME NEW queue \in Seq(Trace), NEW inbound \in Seq(Trace), NEW m \in Nat,
         InOrder(queue \o inbound, m), queue # <<>>
  PROVE  \A t \in Elements(Tail(queue)) \cup Elements(inbound) : Head(queue).n < t.n
<1> DEFINE all == queue \o inbound
<1>1. /\ Len(queue) \in Nat /\ Len(queue) > 0 /\ Len(inbound) \in Nat
      /\ Len(all) = Len(queue) + Len(inbound)
      /\ \A i \in 1..(Len(queue) + Len(inbound)) :
           all[i] = IF i <= Len(queue) THEN queue[i] ELSE inbound[i - Len(queue)]
  BY ConcatProperties
<1> HIDE DEF all
<1>2. \A i \in 1..Len(all) : all[i].n = m - Len(all) + i
  BY DEF InOrder, all
<1>3. Head(queue) = all[1] /\ 1 \in 1..Len(all)
  BY <1>1
<1>4. \A i \in 2..Len(all) : Head(queue).n < all[i].n
  BY <1>1, <1>2, <1>3
<1> SUFFICES ASSUME NEW t \in Elements(Tail(queue)) \cup Elements(inbound)
             PROVE  Head(queue).n < t.n
  OBVIOUS
<1>5. CASE t \in Elements(Tail(queue))
  <2>1. PICK i \in DOMAIN Tail(queue) : t = Tail(queue)[i]
    BY <1>5 DEF Elements
  <2>2. i \in 1..(Len(queue) - 1) /\ t = queue[i + 1]
    BY <2>1, <1>1
  <2> QED
    BY <1>1, <1>4, <2>2
<1>6. CASE t \in Elements(inbound)
  <2>1. PICK i \in 1..Len(inbound) : t = inbound[i]
    BY <1>6 DEF Elements
  <2>2. i + Len(queue) \in 2..Len(all) /\ t = all[i + Len(queue)]
    BY <1>1, <2>1
  <2> QED
    BY <1>4, <2>2
<1> QED
  BY <1>5, <1>6

\* The traces of W and the items of P are in the order of the FIFO, whose last
\* trace was `last`.
Ordered(W, P, last) ==
  /\ \A t \in W : UpTo(t, last)
  /\ \A s, t \in W : s.n < t.n => s.height <= t.height
  /\ \A x \in P : UpTo(x, last) /\ \A t \in W : Before(x, t)

\* The worker's loop takes the next trace, which comes after all that was pushed.
LEMMA LoopOrder ==
  ASSUME NEW queue \in Seq(Trace), NEW ended \in {"none", "settled"},
         WorkerLoop(queue, ended), inboundQueue' \in Seq(Trace), lastRead'.n \in Nat,
         InOrder(queue \o inboundQueue', lastRead'.n),
         Ordered(Elements(queue) \cup Elements(inboundQueue'), Pushed', lastRead')
  PROVE  FifoOrder'
<1>1. CASE queue = <<>>
  BY <1>1 DEF WorkerLoop, Ordered, FifoOrder, Waiting, Taken
<1>2. CASE queue # <<>>
  <2>1. /\ worker' = "blockTime" /\ current' = Head(queue) /\ outboundQueue' = Tail(queue)
    BY <1>2 DEF WorkerLoop
  <2>2. Head(queue) \in Elements(queue) /\ Elements(Tail(queue)) \subseteq Elements(queue)
    BY <1>2, ElementsTail
  <2>3. Head(queue) \in Trace
    BY <1>2
  <2>4. \A t \in Waiting' : Head(queue).n < t.n
    BY <1>2, <2>1, HeadFirst DEF Waiting
  <2>5. Waiting' \subseteq Elements(queue) \cup Elements(inboundQueue')
    BY <2>1, <2>2 DEF Waiting
  <2>6. \A t \in Waiting' : Before(Head(queue), t)
    BY <2>2, <2>4, <2>5 DEF Ordered, Before
  <2> QED
    BY <2>1, <2>2, <2>3, <2>5, <2>6 DEF Ordered, FifoOrder, Taken
<1> QED
  BY <1>1, <1>2

\* Steps that leave the traces alone and export or clear what was pushed.
LEMMA SameTraces ==
  ASSUME FifoOrder, Pushed' \subseteq Pushed, Taken' = Taken,
         UNCHANGED <<inboundQueue, outboundQueue, current, lastRead>>
  PROVE  FifoOrder'
<1>1. Waiting' = Waiting
  BY DEF Waiting
<1> QED
  BY <1>1 DEF FifoOrder

\* ensureOutboundQueueWorker starts the loop or leaves a worker alone.
LEMMA EnsureOrder ==
  ASSUME NEW queue \in Seq(Trace), EnsureOutboundQueueWorker(queue),
         inboundQueue' \in Seq(Trace), lastRead'.n \in Nat,
         InOrder(queue \o inboundQueue', lastRead'.n),
         Ordered(Elements(queue) \cup Elements(inboundQueue'), Pushed', lastRead'),
         Taken => /\ current \in Trace /\ UpTo(current, lastRead')
                  /\ \A t \in Elements(queue) \cup Elements(inboundQueue') : Before(current, t)
                  /\ \A x \in Pushed' : Before(x, current)
  PROVE  FifoOrder'
<1>1. CASE worker = "none"
  BY <1>1, LoopOrder DEF EnsureOutboundQueueWorker
<1>2. CASE worker # "none"
  <2>1. outboundQueue' = queue /\ worker' = worker /\ current' = current
    BY <1>2 DEF EnsureOutboundQueueWorker
  <2> QED
    BY <2>1 DEF FifoOrder, Ordered, Waiting, Taken
<1> QED
  BY <1>1, <1>2

-------------------------------------------------------------------------------
\* Every step of the tracer leaves the exporter alone, calls exportBatch, takes a
\* reply to such a call or pushes the items of the current trace.

Quiet == UNCHANGED <<exporterVars, accepted, exposed>>

Exports(c) ==
  /\ ExportBatch(c, pendingBatch)
  /\ UNCHANGED <<pendingBatch, accepted, exposed>>

Replies(c) ==
  /\ pendingBatch' = BatchAfter(c)
  /\ exporting' = [exporting EXCEPT ![c] = "idle"]
  /\ UNCHANGED <<debounceTimer, exportQueue, backgroundQueue, failures, accepted, exposed>>

Pushes(batch) ==
  /\ Taken
  /\ \/ batch = pendingBatch /\ ~IsNewerBlock(current.height)
     \/ batch = <<>> /\ exporting["worker"] = "ok"
  /\ ExportItems(batch)

\* The callers that are not timers.
LEMMA CallerNames == "worker" \in Callers /\ "flush" \in Callers /\ Timers \subseteq Callers
BY DEF Callers

\* One of the four for every action.
LEMMA StepKinds ==
  ASSUME QueueInv, [Next]_vars
  PROVE  \/ Quiet
         \/ \E c \in Callers : Exports(c)
         \/ \E c \in Callers : Replies(c)
         \/ \E batch \in Seq(BatchItem) : Pushes(batch)
<1>1. CASE ReadTrace \/ Resume \/ SkipUnmatched \/ Close \/ FifoFails
  BY <1>1 DEF ReadTrace, Enqueue, Resume, SkipUnmatched, Close, FifoFails, Quiet
<1>2. CASE ExportOlder
  BY <1>2, CallerNames DEF ExportOlder, Exports
<1>3. CASE PushSameBlock
  <2>1. pendingBatch \in Seq(BatchItem)
    BY DEF QueueInv, TypeOK, ExporterTypeOK
  <2> QED
    BY <1>3, <2>1 DEF PushSameBlock, Pushes, Taken
<1>4. CASE OlderExported
  <2>1. BatchAfter("worker") = <<>> /\ <<>> \in Seq(BatchItem)
    BY <1>4 DEF OlderExported, BatchAfter
  <2> QED
    BY <1>4, <2>1 DEF OlderExported, Pushes, Taken
<1>5. CASE WorkerReturns
  BY <1>5, CallerNames DEF WorkerReturns, Replies
<1>6. CASE Debounce
  BY <1>6, CallerNames DEF Debounce, TimerFires, Exports
<1>7. CASE DebounceReturns
  BY <1>7, CallerNames DEF DebounceReturns, TimerReturns, Replies
<1>8. CASE AwaitFlush
  BY <1>8, CallerNames DEF AwaitFlush, Exports
<1>9. CASE FlushReturns
  BY <1>9, CallerNames DEF FlushReturns, Replies
<1>10. CASE UNCHANGED vars
  BY <1>10 DEF vars, Quiet
<1> QED
  BY <1>1, <1>2, <1>3, <1>4, <1>5, <1>6, <1>7, <1>8, <1>9, <1>10 DEF Next

\* What a push makes of the batch, and what becomes of it when it is full.
Pushing(batch, pushed) ==
  /\ pushed \in Seq(BatchItem) /\ pendingBatch' = pushed
  /\ Elements(pushed) = Elements(batch) \cup Elements(Items(current))
  /\ Elements(batch) \subseteq Elements(pendingBatch)
  /\ BatchOrdered(pushed) /\ BatchFollows(pushed, exportQueue)
  /\ \/ debounceTimer' = FALSE /\ Exported("worker", pushed) /\ worker' = "fullBatch"
     \/ /\ debounceTimer' = TRUE
        /\ exporting' = [exporting EXCEPT !["worker"] = "idle"]
        /\ UNCHANGED <<exportQueue, backgroundQueue, failures>>

\* The items of the current trace are of the batch's block, or the batch is empty.
LEMMA PushStep ==
  ASSUME QueueInv, FifoOrder, BatchInv, NEW batch \in Seq(BatchItem), Pushes(batch)
  PROVE  Pushing(batch, batch \o Items(current))
<1> DEFINE items == Items(current)
           pushed == batch \o items
<1>1. /\ current \in MaybeTrace /\ current.height \in Nat /\ ExporterTypeOK
      /\ pendingBatch \in Seq(BatchItem) /\ exportQueue \in Seq(SUBSET BatchItem)
  BY TraceIds DEF QueueInv, TypeOK, ExporterTypeOK, MaybeTrace
<1>2. items \in Seq(BatchItem)
  BY <1>1, ItemsType
<1>3. \A x \in Pushed : Before(x, current)
  BY DEF Pushes, FifoOrder
<1>4. /\ BatchOrdered(batch) /\ BatchFollows(batch, exportQueue)
      /\ Elements(batch) \subseteq Elements(pendingBatch)
      /\ \A x \in Elements(batch) : x.n < current.n /\ x.height = current.height
  <2>1. CASE batch = pendingBatch /\ ~IsNewerBlock(current.height)
    <3>1. ASSUME NEW x \in Elements(batch) PROVE x.n < current.n /\ x.height = current.height
      <4>1. PICK i \in DOMAIN pendingBatch : x = pendingBatch[i]
        BY <2>1, <3>1 DEF Elements
      <4>2. Len(pendingBatch) \in DOMAIN pendingBatch /\ pendingBatch # <<>>
        BY <1>1, <4>1
      <4>3. pendingBatch[Len(pendingBatch)].height = x.height
        BY <4>1, <4>2 DEF BatchInv, BatchOrdered
      <4>4. x.height \in Nat /\ x \in Pushed
        <5>1. x \in BatchItem
          BY <1>1, <4>1
        <5> QED
          BY <2>1, <3>1, <5>1 DEF BatchItem, Pushed
      <4>5. ~(current.height > x.height)
        BY <2>1, <4>2, <4>3 DEF IsNewerBlock
      <4> QED
        BY <1>1, <1>3, <4>4, <4>5 DEF Before
    <3> QED
      BY <2>1, <3>1 DEF BatchInv
  <2>2. CASE batch = <<>>
    BY <2>2 DEF BatchOrdered, BatchFollows, UniqueBatchData, Elements
  <2> QED
    BY <2>1, <2>2 DEF Pushes
<1>5. BatchOrdered(pushed)
  BY <1>1, <1>4, PushOrdered
<1>6. BatchFollows(pushed, exportQueue)
  <2>1. \A x \in JobItems(exportQueue) : Before(x, current)
    BY <1>3 DEF Pushed, InExportQueue, JobItems
  <2> QED
    BY <1>1, <1>4, <2>1, PushFollows
<1>7. pushed \in Seq(BatchItem) /\ Elements(pushed) = Elements(batch) \cup Elements(items)
  BY <1>2, ElementsConcat
<1>8. PushItems(batch, items)
  BY DEF Pushes, ExportItems
<1> HIDE DEF items
<1>9. pendingBatch' = pushed
  BY <1>8 DEF PushItems
<1>10. CASE Len(pushed) >= MaxBatchSize
  <2>1. pushed # <<>>
    BY <1>7, <1>10, ExporterAssumption
  <2>2. ExportBatch("worker", pushed)
    BY <1>8, <1>10 DEF PushItems
  <2>3. debounceTimer' = FALSE /\ Exported("worker", pushed)
    BY <1>7, <2>1, <2>2, CallerNames, ExportOutcome
  <2>4. worker' = "fullBatch"
    BY <1>10 DEF Pushes, ExportItems, items
  <2> QED
    BY <1>4, <1>5, <1>6, <1>7, <1>9, <2>3, <2>4 DEF Pushing, items
<1>11. CASE ~(Len(pushed) >= MaxBatchSize)
  <2>1. /\ debounceTimer' = TRUE
        /\ exporting' = [exporting EXCEPT !["worker"] = "idle"]
        /\ UNCHANGED <<exportQueue, backgroundQueue, failures>>
    BY <1>8, <1>11 DEF PushItems
  <2> QED
    BY <1>4, <1>5, <1>6, <1>7, <1>9, <2>1 DEF Pushing, items
<1> QED
  BY <1>10, <1>11

-------------------------------------------------------------------------------
\* The parts of the invariant, one by one.

\* The batches stay ordered and follow the queue.
LEMMA BatchStep ==
  ASSUME QueueInv, FifoOrder, BatchInv, [Next]_vars
  PROVE  BatchInv'
<1>1. /\ ExporterTypeOK /\ pendingBatch \in Seq(BatchItem)
      /\ BatchOrdered(pendingBatch) /\ BatchFollows(pendingBatch, exportQueue)
      /\ OneBlockPerBatch /\ QueueNeverGoesBack
  BY DEF QueueInv, TypeOK, ExporterTypeOK, BatchInv
<1>2. CASE Quiet
  BY <1>1, <1>2 DEF Quiet, exporterVars, BatchInv, OneBlockPerBatch, QueueNeverGoesBack
<1>3. ASSUME NEW c \in Callers, Exports(c) PROVE BatchInv'
  <2>1. CASE pendingBatch = <<>>
    BY <1>1, <1>3, <2>1, ExportKeepsOrder DEF Exports, ExportBatch
  <2>2. CASE pendingBatch # <<>>
    BY <1>1, <1>3, <2>2, ExportOutcome, QueuesAfter, ExportKeepsOrder DEF Exports
  <2> QED
    BY <2>1, <2>2
<1>4. ASSUME NEW c \in Callers, Replies(c) PROVE BatchInv'
  <2>1. /\ pendingBatch' \in Seq(BatchItem) /\ BatchOrdered(pendingBatch')
        /\ BatchFollows(pendingBatch', exportQueue) /\ exportQueue' = exportQueue
    <3>1. CASE exporting[c] = "ok"
      <4>1. pendingBatch' = <<>> /\ exportQueue' = exportQueue
        BY <1>4, <3>1 DEF Replies, BatchAfter
      <4> QED
        BY <4>1 DEF BatchOrdered, BatchFollows, UniqueBatchData
    <3>2. CASE exporting[c] # "ok"
      BY <1>1, <1>4, <3>2 DEF Replies, BatchAfter
    <3> QED
      BY <3>1, <3>2
  <2> QED
    BY <1>1, <2>1 DEF BatchInv, OneBlockPerBatch, QueueNeverGoesBack
<1>5. ASSUME NEW batch \in Seq(BatchItem), Pushes(batch) PROVE BatchInv'
  <2> DEFINE pushed == batch \o Items(current)
  <2>1. Pushing(batch, pushed)
    BY <1>5, PushStep
  <2> HIDE DEF pushed
  <2>2. exportQueue' \in {exportQueue, Append(exportQueue, UniqueBatchData(pushed))}
    BY <1>1, <2>1, CallerNames, QueuesAfter DEF Pushing
  <2> QED
    BY <1>1, <2>1, <2>2, ExportKeepsOrder DEF Pushing
<1> QED
  BY <1>2, <1>3, <1>4, <1>5, StepKinds

\* A batch that Redis has not refused has somebody to export it.
LEMMA ExporterInvStep ==
  ASSUME QueueInv, FifoOrder, BatchInv, ExporterInv, [Next]_vars
  PROVE  ExporterInv'
<1>1. /\ ExporterTypeOK /\ pendingBatch \in Seq(BatchItem) /\ failures \in Nat
      /\ exporting \in [Callers -> {"idle", "ok", "fail"}]
  BY DEF QueueInv, TypeOK, ExporterTypeOK
<1>a. ASSUME NEW c \in Callers, NEW batch, Exported(c, batch)
      PROVE  ExporterInv'
  <2>1. exporting'[c] # "idle"
    BY <1>1, <1>a DEF Exported
  <2>2. failures' = 0 => failures = 0 /\ exporting' = [exporting EXCEPT ![c] = "ok"]
    BY <1>1, <1>a DEF Exported
  <2> QED
    BY <1>1, <2>1, <2>2 DEF ExporterInv, PendingHasExporter
<1>2. CASE Quiet
  BY <1>2 DEF Quiet, exporterVars, ExporterInv, PendingHasExporter
<1>3. ASSUME NEW c \in Callers, Exports(c) PROVE ExporterInv'
  <2>1. CASE pendingBatch = <<>>
    BY <1>1, <1>3, <2>1 DEF Exports, ExportBatch, ExporterInv, PendingHasExporter
  <2>2. CASE pendingBatch # <<>>
    BY <1>1, <1>3, <1>a, <2>2, ExportOutcome DEF Exports
  <2> QED
    BY <2>1, <2>2
<1>4. ASSUME NEW c \in Callers, Replies(c) PROVE ExporterInv'
  <2>1. /\ pendingBatch' = BatchAfter(c) /\ exporting' = [exporting EXCEPT ![c] = "idle"]
        /\ UNCHANGED <<debounceTimer, failures>>
    BY <1>4 DEF Replies
  <2>2. failures' = 0 => \A d \in Callers : exporting'[d] # "fail"
    BY <1>1, <2>1 DEF ExporterInv
  <2>3. PendingHasExporter'
    <3> SUFFICES ASSUME failures = 0, pendingBatch' # <<>>, ~debounceTimer
                 PROVE  \E d \in Callers : exporting'[d] # "idle"
      BY <2>1 DEF PendingHasExporter
    <3>1. exporting[c] = "idle" /\ pendingBatch' = pendingBatch
      BY <1>1, <2>1 DEF BatchAfter, ExporterInv
    <3>2. PICK d \in Callers : exporting[d] # "idle"
      BY <3>1 DEF ExporterInv, PendingHasExporter
    <3> QED
      BY <1>1, <2>1, <3>1, <3>2
  <2> QED
    BY <2>2, <2>3 DEF ExporterInv
<1>5. ASSUME NEW batch \in Seq(BatchItem), Pushes(batch) PROVE ExporterInv'
  <2> DEFINE pushed == batch \o Items(current)
  <2>1. Pushing(batch, pushed)
    BY <1>5, PushStep
  <2> HIDE DEF pushed
  <2>2. CASE Exported("worker", pushed)
    BY <1>a, <2>2, CallerNames
  <2>3. CASE /\ debounceTimer' = TRUE
             /\ exporting' = [exporting EXCEPT !["worker"] = "idle"]
             /\ failures' = failures
    BY <1>1, <2>3 DEF ExporterInv, PendingHasExporter
  <2> QED
    BY <2>1, <2>2, <2>3 DEF Pushing
<1> QED
  BY <1>2, <1>3, <1>4, <1>5, StepKinds

\* Items pushed while nobody else's export waits stay in the batch until they are
\* queued.
LEMMA KeptStep ==
  ASSUME QueueInv, FifoOrder, BatchInv, KeptInv, [Next]_vars
  PROVE  KeptInv'
<1>1. /\ ExporterTypeOK /\ pendingBatch \in Seq(BatchItem)
      /\ exporting \in [Callers -> {"idle", "ok", "fail"}]
      /\ BatchOrdered(pendingBatch) /\ accepted \subseteq BatchItem
  BY DEF QueueInv, TypeOK, ExporterTypeOK, BatchInv
<1>2. CASE Quiet
  BY <1>2 DEF Quiet, exporterVars, KeptInv, Kept, InQueues, Covered, InExportQueue, InBackgroundQueue
<1>3. ASSUME NEW c \in Callers, Exports(c) PROVE KeptInv'
  <2> SUFFICES ASSUME NEW x \in accepted \ exposed PROVE Kept(x)'
    BY <1>3 DEF Exports, KeptInv
  <2>1. Kept(x) /\ x \in BatchItem
    BY <1>1 DEF KeptInv
  <2>2. CASE pendingBatch = <<>>
    <3>1. /\ pendingBatch' = BatchAfter(c) /\ exporting' = [exporting EXCEPT ![c] = "idle"]
          /\ UNCHANGED <<exportQueue, backgroundQueue>>
      BY <1>3, <2>2 DEF Exports, ExportBatch, BatchAfter
    <3> QED
      BY <1>1, <2>1, <3>1, ReplyKeeps
  <2>3. CASE pendingBatch # <<>>
    <3>1. Exported(c, pendingBatch) /\ pendingBatch' = pendingBatch
      BY <1>1, <1>3, <2>3, ExportOutcome DEF Exports
    <3> QED
      BY <1>1, <2>1, <3>1, ExportKeeps DEF Kept
  <2> QED
    BY <2>2, <2>3
<1>4. ASSUME NEW c \in Callers, Replies(c) PROVE KeptInv'
  <2> SUFFICES ASSUME NEW x \in accepted \ exposed PROVE Kept(x)'
    BY <1>4 DEF Replies, KeptInv
  <2>1. Kept(x) /\ x \in BatchItem
    BY <1>1 DEF KeptInv
  <2> QED
    BY <1>1, <1>4, <2>1, ReplyKeeps DEF Replies
<1>5. ASSUME NEW batch \in Seq(BatchItem), Pushes(batch) PROVE KeptInv'
  <2> DEFINE items == Elements(Items(current))
             pushed == batch \o Items(current)
  <2>1. Pushing(batch, pushed)
    BY <1>5, PushStep
  <2>2. /\ accepted' = accepted \cup items
        /\ \/ exposed' = exposed \cup items
           \/ /\ exposed' = exposed
              /\ \A c \in Callers \ {"worker"} : exporting[c] = "idle"
    BY <1>5 DEF Pushes, ExportItems
  <2>3. items \subseteq BatchItem
    BY ItemsType DEF QueueInv, TypeOK, MaybeTrace
  <2>4. Elements(pushed) = Elements(batch) \cup items
    BY <2>1 DEF Pushing
  <2> HIDE DEF items, pushed
  <2> SUFFICES ASSUME NEW x \in (accepted \ exposed)' PROVE Kept(x)'
    BY DEF KeptInv
  <2>5. x \in BatchItem
    BY <1>1, <2>2, <2>3
  <2>6. \/ InQueues(x)
        \/ Covered(x, Elements(pushed)) /\ \A d \in Callers \ {"worker"} : exporting[d] # "ok"
    <3>1. CASE x \in accepted \ exposed
      <4>1. Kept(x)
        BY <3>1 DEF KeptInv
      <4>2. CASE batch = pendingBatch
        BY <2>4, <4>1, <4>2 DEF Kept, Covered
      <4>3. CASE exporting["worker"] = "ok"
        BY <4>1, <4>3, CallerNames DEF Kept
      <4> QED
        BY <1>5, <4>2, <4>3 DEF Pushes
    <3>2. CASE x \in items /\ \A c \in Callers \ {"worker"} : exporting[c] = "idle"
      <4>1. x.n \in Nat /\ SameKey(x, x) /\ x \in Elements(pushed)
        BY <2>4, <2>5, <3>2 DEF BatchItem, SameKey
      <4> QED
        BY <3>2, <4>1 DEF Covered
    <3> QED
      BY <2>2, <3>1, <3>2
  <2>7. CASE Exported("worker", pushed)
    BY <1>1, <2>1, <2>5, <2>6, <2>7, CallerNames, ExportKeeps DEF Pushing
  <2>8. CASE /\ exporting' = [exporting EXCEPT !["worker"] = "idle"]
             /\ UNCHANGED <<exportQueue, backgroundQueue>>
    <3>1. InQueues(x) => InQueues(x)'
      BY <2>8 DEF InQueues, Covered, InExportQueue, InBackgroundQueue
    <3>2. (\A d \in Callers \ {"worker"} : exporting[d] # "ok") => \A d \in Callers : exporting'[d] # "ok"
      BY <1>1, <2>8
    <3>3. pendingBatch' = pushed
      BY <2>1 DEF Pushing
    <3> QED
      BY <2>6, <3>1, <3>2, <3>3 DEF Kept
  <2> QED
    BY <2>1, <2>7, <2>8 DEF Pushing
<1> QED
  BY <1>2, <1>3, <1>4, <1>5, StepKinds

\* What a call of exportBatch leaves pushed was pushed before.
LEMMA ExportPushed ==
  ASSUME ExporterTypeOK, NEW c \in Callers, Exports(c)
  PROVE  Pushed' \subseteq Pushed
<1>1. pendingBatch \in Seq(BatchItem) /\ pendingBatch' = pendingBatch
  BY DEF ExporterTypeOK, Exports
<1>2. CASE pendingBatch = <<>>
  BY <1>2, <1>1 DEF Exports, ExportBatch, Pushed, InExportQueue
<1>3. CASE pendingBatch # <<>>
  <2>1. InExportQueue' \subseteq InExportQueue \cup UniqueBatchData(pendingBatch)
    BY <1>1, <1>3, ExportOutcome, QueuesAfter DEF Exports
  <2> QED
    BY <1>1, <2>1, UniqueSubset DEF Pushed
<1> QED
  BY <1>2, <1>3

\* A reply adds nothing.
LEMMA ReplyPushed ==
  ASSUME NEW c \in Callers, pendingBatch' = BatchAfter(c), exportQueue' = exportQueue
  PROVE  Pushed' \subseteq Pushed
<1>1. Elements(pendingBatch') \subseteq Elements(pendingBatch)
  BY DEF BatchAfter, Elements
<1> QED
  BY <1>1 DEF Pushed, InExportQueue

\* The items of the current trace are pushed before any trace that waits.
LEMMA PushFifo ==
  ASSUME QueueInv, FifoOrder, BatchInv, QueueInv', NEW batch \in Seq(BatchItem), Pushes(batch),
         UNCHANGED <<inboundQueue, lastRead>>
  PROVE  FifoOrder'
<1> DEFINE items == Elements(Items(current))
           pushed == batch \o Items(current)
<1>1. /\ current \in Trace /\ UpTo(current, lastRead) /\ ExporterTypeOK
      /\ \A t \in Waiting : Before(current, t)
      /\ outboundQueue \in Seq(Trace) /\ inboundQueue \in Seq(Trace)
      /\ InOrder(outboundQueue \o inboundQueue, lastRead.n) /\ lastRead.n \in Nat
  BY OrderOfQueues DEF Pushes, FifoOrder, QueueInv, TypeOK
<1>2. Pushing(batch, pushed)
  BY PushStep
<1>3. \A x \in items : x.n = current.n /\ x.height = current.height
  BY <1>1, ItemsOfTrace DEF MaybeTrace
<1>4. Elements(pushed) = Elements(batch) \cup items /\ pendingBatch' = pushed
      /\ pushed \in Seq(BatchItem) /\ Elements(batch) \subseteq Elements(pendingBatch)
  BY <1>2 DEF Pushing
<1> HIDE DEF items, pushed
<1>5. InExportQueue' \subseteq InExportQueue \cup Elements(pushed)
  <2>1. CASE Exported("worker", pushed)
    BY <1>1, <1>4, <2>1, CallerNames, QueuesAfter, UniqueSubset
  <2>2. CASE exportQueue' = exportQueue
    BY <2>2 DEF InExportQueue
  <2> QED
    BY <1>2, <2>1, <2>2 DEF Pushing
<1>6. Pushed' \subseteq Pushed \cup items
  BY <1>4, <1>5 DEF Pushed
<1>7. Ordered(Waiting, Pushed', lastRead)
  BY <1>1, <1>3, <1>6 DEF Ordered, FifoOrder, UpTo, Before
<1>8. CASE worker' = "fullBatch" /\ UNCHANGED <<outboundQueue, current>>
  <2>1. Waiting' = Waiting /\ ~Taken'
    BY <1>8 DEF Waiting, Taken
  <2> QED
    BY <1>7, <2>1 DEF FifoOrder, Ordered
<1>9. CASE WorkerLoop(outboundQueue, "none")
  BY <1>1, <1>7, <1>9, LoopOrder DEF Waiting
<1> QED
  BY <1>8, <1>9 DEF Pushes, ExportItems

\* What is read, moved and taken keeps the order of the FIFO.
LEMMA FifoStep ==
  ASSUME QueueInv, FifoOrder, BatchInv, QueueInv', [Next]_vars
  PROVE  FifoOrder'
<1>a. /\ ExporterTypeOK /\ worker \in WorkerStates /\ current \in MaybeTrace
      /\ inboundQueue \in Seq(Trace) /\ outboundQueue \in Seq(Trace)
      /\ lastRead \in MaybeTrace /\ pendingBatch \in Seq(BatchItem) /\ Backpressure
  BY DEF QueueInv, TypeOK, ExporterTypeOK, MaybeTrace
<1>b. InOrder(outboundQueue \o inboundQueue, lastRead.n) /\ lastRead.n \in Nat /\ lastRead.height \in Nat
  BY <1>a, OrderOfQueues, TraceIds DEF QueueInv
<1>c. /\ inboundQueue' \in Seq(Trace) /\ outboundQueue' \in Seq(Trace)
      /\ InOrder(outboundQueue' \o inboundQueue', lastRead'.n)
  <2>1. (outboundQueue \o inboundQueue)' \in Seq(Trace) /\ inboundQueue' \in Seq(Trace)
        /\ outboundQueue' \in Seq(Trace)
    BY DEF QueueInv, TypeOK
  <2>2. DOMAIN (outboundQueue' \o inboundQueue') = 1..Len(outboundQueue' \o inboundQueue')
    BY <2>1
  <2> QED
    BY <2>1, <2>2 DEF QueueInv, QueuesKeepOrder, InOrder
<1>d. \A t \in Waiting : t \in Trace /\ t.n \in Nat /\ t.height \in Nat
  BY <1>a, TraceIds DEF Waiting, Elements, MaybeTrace
<1>e. \A x \in Pushed : x.n \in Nat /\ x.height \in Nat
  <2>1. Pushed \subseteq BatchItem
    BY <1>a DEF Pushed, InExportQueue, Elements, ExporterTypeOK
  <2> QED
    BY <2>1 DEF BatchItem
<1>f. ASSUME NEW inbound \in Seq(Trace), ProcessInboundQueue(inbound),
             Len(outboundQueue) < MaxOutboundQueueSize,
             lastRead'.n \in Nat, InOrder(outboundQueue \o inbound, lastRead'.n),
             Ordered(Elements(outboundQueue) \cup Elements(inbound), Pushed', lastRead'),
             Taken => /\ UpTo(current, lastRead')
                      /\ \A t \in Elements(outboundQueue) \cup Elements(inbound) : Before(current, t)
                      /\ \A x \in Pushed' : Before(x, current)
      PROVE  FifoOrder'
  <2>1. PICK queue \in Seq(Trace) : /\ queue \o inboundQueue' = outboundQueue \o inbound
                                    /\ EnsureOutboundQueueWorker(queue)
    BY <1>a, <1>f, ProcessStep
  <2>2. Elements(queue) \cup Elements(inboundQueue') = Elements(outboundQueue) \cup Elements(inbound)
    <3>1. Elements(queue \o inboundQueue') = Elements(queue) \cup Elements(inboundQueue')
      <4>1. inboundQueue' \in Seq(Trace)
        BY <1>c
      <4> QED
        BY <4>1, ElementsConcat
    <3>2. Elements(outboundQueue \o inbound) = Elements(outboundQueue) \cup Elements(inbound)
      BY <1>a, <1>f, ElementsConcat
    <3> QED
      BY <2>1, <3>1, <3>2
  <2>3. Taken => current \in Trace
    BY DEF FifoOrder
  <2> QED
    BY <1>c, <1>f, <2>1, <2>2, <2>3, EnsureOrder
<1>1. CASE ReadTrace
  <2>1. PICK height \in {lastRead.height, lastRead.height + 1}, ids \in Matches :
          Enqueue([n |-> lastRead.n + 1, height |-> height, ids |-> ids])
    BY <1>1 DEF ReadTrace
  <2> DEFINE t == [n |-> lastRead.n + 1, height |-> height, ids |-> ids]
             inbound == Append(inboundQueue, t)
  <2>2. t \in Trace /\ t.n = lastRead.n + 1 /\ t.height >= lastRead.height
        /\ t.n \in Nat /\ t.height \in Nat /\ Enqueue(t)
    BY <1>b, <2>1 DEF Trace
  <2> HIDE DEF t
  <2>3. /\ inbound \in Seq(Trace)
        /\ InOrder(outboundQueue \o inbound, lastRead.n + 1)
        /\ Elements(inbound) = Elements(inboundQueue) \cup {t}
    BY <1>a, <1>b, <2>2, OrderAppend, ElementsAppend
  <2>4. lastRead' = t /\ Pushed' = Pushed
    BY <2>2 DEF Enqueue, exporterVars, Pushed, InExportQueue
  <2>5. Elements(outboundQueue) \cup Elements(inbound) = Waiting \cup {t}
    BY <2>3 DEF Waiting
  <2> HIDE DEF inbound
  <2>6. \A s \in Waiting \cup Pushed : UpTo(s, t) /\ Before(s, t)
    BY <1>b, <1>d, <1>e, <2>2 DEF FifoOrder, UpTo, Before
  <2>7. Ordered(Waiting \cup {t}, Pushed, t)
    BY <1>d, <2>2, <2>6 DEF Ordered, FifoOrder, UpTo, Before
  <2>8. Taken => UpTo(current, t) /\ Before(current, t)
    <3>1. current.n \in Nat /\ current.height \in Nat
      BY <1>a, TraceIds
    <3> QED
      BY <1>b, <2>2, <3>1 DEF FifoOrder, UpTo, Before
  <2>9. CASE paused
    <3>1. inboundQueue' = inbound /\ UNCHANGED <<outboundQueue, worker, current>>
      BY <2>2, <2>9 DEF Enqueue, inbound
    <3>2. Waiting' = Waiting \cup {t} /\ Taken' = Taken
      BY <2>5, <3>1 DEF Waiting, Taken
    <3> QED
      BY <2>4, <2>7, <2>8, <3>1, <3>2 DEF FifoOrder, Ordered
  <2>10. CASE ~paused
    <3>1. ProcessInboundQueue(inbound) /\ Len(outboundQueue) < MaxOutboundQueueSize
      BY <1>a, <2>2, <2>10 DEF Enqueue, Backpressure, inbound
    <3>2. Taken => /\ \A s \in Waiting \cup {t} : Before(current, s)
                   /\ \A x \in Pushed : Before(x, current)
      BY <2>8 DEF FifoOrder
    <3> QED
      BY <1>f, <2>2, <2>3, <2>4, <2>5, <2>7, <2>8, <3>1, <3>2
  <2> QED
    BY <2>9, <2>10
<1>2. CASE Resume
  <2>1. ProcessInboundQueue(inboundQueue) /\ lastRead' = lastRead /\ Pushed' = Pushed
    BY <1>2 DEF Resume, exporterVars, Pushed, InExportQueue
  <2>2. Len(outboundQueue) < MaxOutboundQueueSize
    <3>1. Len(outboundQueue) \in Nat /\ MaxOutboundQueueSize \in Nat
      BY <1>a, ManagerAssumption
    <3> QED
      BY <1>2, <3>1 DEF Resume
  <2>3. Ordered(Waiting, Pushed, lastRead)
    BY DEF Ordered, FifoOrder
  <2> QED
    BY <1>a, <1>b, <1>f, <2>1, <2>2, <2>3 DEF Waiting, FifoOrder
<1>3. CASE SkipUnmatched \/ WorkerReturns
  <2>1. /\ WorkerLoop(outboundQueue, "none") /\ UNCHANGED <<inboundQueue, lastRead>>
        /\ Pushed' \subseteq Pushed
    <3>1. CASE SkipUnmatched
      BY <3>1 DEF SkipUnmatched, exporterVars, Pushed, InExportQueue
    <3>2. CASE WorkerReturns
      BY <3>2, CallerNames, ReplyPushed DEF WorkerReturns
    <3> QED
      BY <1>3, <3>1, <3>2
  <2>2. Ordered(Waiting, Pushed', lastRead)
    BY <2>1 DEF Ordered, FifoOrder
  <2> QED
    BY <1>a, <1>b, <2>1, <2>2, LoopOrder DEF Waiting
<1>4. CASE PushSameBlock
  <2>1. Pushes(pendingBatch)
    BY <1>4 DEF PushSameBlock, Pushes, Taken
  <2> QED
    BY <1>4, <1>a, <2>1, PushFifo DEF PushSameBlock
<1>5. CASE OlderExported
  <2>1. Pushes(<<>>) /\ <<>> \in Seq(BatchItem)
    <3>1. BatchAfter("worker") = <<>>
      BY <1>5 DEF OlderExported, BatchAfter
    <3> QED
      BY <1>5, <3>1 DEF OlderExported, Pushes, Taken
  <2> QED
    BY <1>5, <2>1, PushFifo DEF OlderExported
<1>6. CASE ExportOlder
  <2>1. Exports("worker") /\ Taken /\ Taken' /\ UNCHANGED <<inboundQueue, outboundQueue, current, lastRead>>
    BY <1>6 DEF ExportOlder, Exports, Taken
  <2> QED
    BY <1>a, <2>1, CallerNames, ExportPushed, SameTraces
<1>7. CASE Debounce
  <2>1. PICK c \in Callers : Exports(c)
    BY <1>7, CallerNames DEF Debounce, TimerFires, Exports
  <2> QED
    BY <1>7, <1>a, <2>1, ExportPushed, SameTraces DEF Debounce, managerVars, Taken
<1>8. CASE AwaitFlush
  <2>1. Exports("flush")
    BY <1>8 DEF AwaitFlush, Exports
  <2> QED
    BY <1>8, <1>a, <2>1, CallerNames, ExportPushed, SameTraces DEF AwaitFlush, managerVars, Taken
<1>9. CASE DebounceReturns
  <2>1. PICK c \in Callers : pendingBatch' = BatchAfter(c) /\ exportQueue' = exportQueue
    BY <1>9, CallerNames DEF DebounceReturns, TimerReturns
  <2> QED
    BY <1>9, <2>1, ReplyPushed, SameTraces DEF DebounceReturns, managerVars, Taken
<1>10. CASE FlushReturns
  BY <1>10, CallerNames, ReplyPushed, SameTraces DEF FlushReturns, managerVars, Taken
<1>11. CASE Close \/ FifoFails \/ UNCHANGED vars
  <2>1. UNCHANGED <<exporterVars, managerVars, lastRead>>
    BY <1>11 DEF Close, FifoFails, vars
  <2> QED
    BY <2>1, SameTraces DEF exporterVars, managerVars, Taken, Pushed, InExportQueue
<1> QED
  BY <1>1, <1>2, <1>3, <1>4, <1>5, <1>6, <1>7, <1>8, <1>9, <1>10, <1>11 DEF Next

\* The process exits with 0 only from a flush of everything.
LEMMA ExitStep ==
  ASSUME QueueInv, ExitInv, [Next]_vars
  PROVE  ExitInv'
<1>a. /\ worker \in WorkerStates /\ current \in MaybeTrace /\ Backpressure
      /\ inboundQueue \in Seq(Trace) /\ outboundQueue \in Seq(Trace)
  BY DEF QueueInv, TypeOK, MaybeTrace
<1>b. ASSUME NEW queue, NEW ended, WorkerLoop(queue, ended)
      PROVE  worker' \in {"none", "settled"} => current' = NoTrace
  BY <1>b DEF WorkerLoop
<1>c. ASSUME NEW queue, EnsureOutboundQueueWorker(queue)
      PROVE  worker' \in {"none", "settled"} => current' = NoTrace
  BY <1>b, <1>c DEF EnsureOutboundQueueWorker, ExitInv
<1>1. CASE ReadTrace
  <2>1. phase = "reading" /\ phase' = phase
    BY <1>1 DEF ReadTrace, Enqueue
  <2>2. worker' \in {"none", "settled"} => current' = NoTrace
    <3>1. PICK t : Enqueue(t)
      BY <1>1 DEF ReadTrace
    <3> QED
      BY <1>c, <3>1 DEF Enqueue, ProcessInboundQueue, ExitInv
  <2> QED
    BY <2>1, <2>2 DEF ExitInv
<1>2. CASE Resume
  <2>1. phase \notin {"exited", "failed"} /\ phase' = phase /\ ProcessInboundQueue(inboundQueue)
    BY <1>2 DEF Resume, Running
  <2>2. Len(outboundQueue) < MaxOutboundQueueSize
    <3>1. Len(outboundQueue) \in Nat /\ MaxOutboundQueueSize \in Nat
      BY <1>a, ManagerAssumption
    <3> QED
      BY <1>2, <3>1 DEF Resume
  <2>3. PICK queue \in Seq(Trace) : /\ queue \o inboundQueue' = outboundQueue \o inboundQueue
                                    /\ EnsureOutboundQueueWorker(queue)
                                    /\ inboundQueue' \in Seq(Trace)
    BY <1>a, <2>1, <2>2, ProcessStep
  <2>4. ASSUME phase = "flushing"
        PROVE  inboundQueue' = <<>> /\ outboundQueue' = <<>> /\ worker' \in {"none", "settled"}
    <3>1. outboundQueue = <<>> /\ inboundQueue = <<>> /\ worker \in {"none", "settled"}
      BY <2>4 DEF ExitInv
    <3>2. Len(queue \o inboundQueue') = Len(queue) + Len(inboundQueue')
          /\ Len(queue) \in Nat /\ Len(inboundQueue') \in Nat
      BY <2>3
    <3>3. Len(queue \o inboundQueue') = 0
      BY <2>3, <3>1
    <3>4. queue = <<>> /\ inboundQueue' = <<>>
      BY <2>3, <3>2, <3>3
    <3> QED
      BY <2>3, <3>1, <3>4 DEF EnsureOutboundQueueWorker, WorkerLoop
  <2> QED
    BY <1>c, <2>1, <2>3, <2>4 DEF ExitInv
<1>3. CASE SkipUnmatched \/ PushSameBlock \/ OlderExported \/ WorkerReturns
  <2>1. worker \notin {"none", "settled"} /\ phase \notin {"exited", "failed"} /\ phase' = phase
    BY <1>3 DEF SkipUnmatched, PushSameBlock, OlderExported, WorkerReturns, Running
  <2>2. worker' = "fullBatch" \/ WorkerLoop(outboundQueue, "none")
    BY <1>3 DEF SkipUnmatched, PushSameBlock, OlderExported, WorkerReturns, ExportItems
  <2>3. worker' \in {"none", "settled"} => current' = NoTrace
    BY <1>b, <2>2
  <2> QED
    BY <2>1, <2>3 DEF ExitInv
<1>4. CASE ExportOlder
  BY <1>4 DEF ExportOlder, ExitInv, Running
<1>5. CASE Debounce \/ DebounceReturns
  BY <1>5 DEF Debounce, DebounceReturns, ExitInv, Running, managerVars
<1>6. CASE Close \/ FifoFails
  BY <1>6 DEF Close, FifoFails, ExitInv, managerVars
<1>7. CASE AwaitFlush
  BY <1>7 DEF AwaitFlush, ExitInv, managerVars
<1>8. CASE FlushReturns
  BY <1>8 DEF FlushReturns, ExitInv, managerVars, BatchAfter
<1>9. CASE UNCHANGED vars
  BY <1>9 DEF vars, managerVars, exporterVars, ExitInv
<1> QED
  BY <1>1, <1>2, <1>3, <1>4, <1>5, <1>6, <1>7, <1>8, <1>9 DEF Next

-------------------------------------------------------------------------------
\* The inductive invariant and the theorems.

\* A new process satisfies the invariant.
LEMMA TracerInit == Init => TracerInv
<1> SUFFICES ASSUME Init PROVE TracerInv
  OBVIOUS
<1>1. QueueInv
  BY QueueInit
<1>2. /\ pendingBatch = <<>> /\ exportQueue = <<>> /\ accepted = {}
      /\ outboundQueue = <<>> /\ inboundQueue = <<>> /\ worker = "none" /\ current = NoTrace
      /\ phase = "reading" /\ exporting = [c \in Callers |-> "idle"]
  BY DEF Init, ExporterInit
<1>3. Elements(<<>>) = {}
  BY DEF Elements
<1>4. FifoOrder
  BY <1>2, <1>3 DEF FifoOrder, Waiting, Pushed, InExportQueue, Taken
<1>5. BatchInv
  BY <1>2 DEF BatchInv, BatchOrdered, BatchFollows, UniqueBatchData, OneBlockPerBatch,
              QueueNeverGoesBack
<1>6. ExporterInv /\ KeptInv /\ ExitInv
  BY <1>2 DEF ExporterInv, PendingHasExporter, KeptInv, ExitInv
<1> QED
  BY <1>1, <1>4, <1>5, <1>6 DEF TracerInv

\* Every step preserves it.
LEMMA TracerStep == TracerInv /\ [Next]_vars => TracerInv'
BY QueueStep, FifoStep, BatchStep, ExporterInvStep, KeptStep, ExitStep DEF TracerInv

\* So it holds throughout.
LEMMA TracerInvariant == Spec => []TracerInv
BY TracerInit, TracerStep, PTL DEF Spec

\* BatchedTraceExporter: however the worker's, the timers' and the flush's exports
\* overlap and fail, a job holds one block, the export queue never goes back, and
\* a batch that Redis has not refused has a timer or an export to send it.
THEOREM BatchesHold == Spec => []BatchesAreSound
<1>1. TracerInv => BatchesAreSound
  BY DEF TracerInv, BatchInv, ExporterInv, BatchesAreSound
<1> QED
  BY <1>1, TracerInvariant, PTL

\* exportBatch: an item is lost only if it was pushed while another export was
\* waiting for Redis; any other item stays pending until both queues have it.
THEOREM OnlyOverlapLoses == Spec => []LossNeedsOverlap
<1>1. TracerInv => LossNeedsOverlap
  BY DEF TracerInv, KeptInv, Kept, InQueues, LossNeedsOverlap, Safe
<1> QED
  BY <1>1, TracerInvariant, PTL

\* scripts/tracer.ts: a process that exits with 0 has nothing left to export.
THEOREM ExitIsFlushed == Spec => []FlushedOnExit
<1>1. TracerInv => FlushedOnExit
  BY DEF TracerInv, ExitInv, FlushedOnExit
<1> QED
  BY <1>1, TracerInvariant, PTL
=============================================================================
