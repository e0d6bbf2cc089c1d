----------------------------- MODULE TracerManager -----------------------------
(***************************************************************************)
(* The tracer process: src/scripts/tracer.ts reads traces from the FIFO,   *)
(* src/tracer/clients/TracerManager.ts moves them through its two queues   *)
(* and its single worker hands them to the BatchedTraceExporter.           *)
(*                                                                         *)
(* JavaScript runs to completion between two awaits, so an action is the   *)
(* code from one macrotask to the next await that really waits.            *)
(***************************************************************************)
EXTENDS BatchedTraceExporter

CONSTANTS Matches,              \* what the handlers can match in a trace
          MaxOutboundQueueSize, \* this.maxOutboundQueueSize
          MaxTraces,            \* bound: traces the node writes
          MaxHeight             \* bound: block heights of the node

ASSUME ManagerAssumption ==
  /\ Matches \subseteq Seq(Ids)
  /\ MaxOutboundQueueSize \in Nat \ {0}
  /\ MaxTraces \in Nat
  /\ MaxHeight \in Nat

VARIABLES inboundQueue,  \* this.inboundQueue
          outboundQueue, \* this.outboundQueue
          paused,        \* this.paused; the resume interval runs while it is set
          worker,        \* this.outboundQueueWorker and where its loop is
          current,       \* the trace the worker is exporting
          phase,         \* the main function of scripts/tracer.ts
          lastRead,      \* the last trace read
          accepted,      \* history: items pushed to a batch
          exposed        \* history: those pushed while another export waited

managerVars == <<inboundQueue, outboundQueue, paused, worker, current>>
vars == <<exporterVars, managerVars, phase, lastRead, accepted, exposed>>

\* A trace of the FIFO: its position, its block and what the handlers match.
Trace == [n : Nat, height : Nat, ids : Matches]

NoTrace == [n |-> 0, height |-> 0, ids |-> <<>>]

\* "none": the handle is null.  "settled": the handle is a promise that has
\* resolved already.  Otherwise the loop is waiting, in export(current), for the
\* block time, for an older batch's export or for a full batch's export.
WorkerStates == {"none", "settled", "blockTime", "olderBatch", "fullBatch"}

Phases == {"reading", "draining", "flushing", "exited", "failed"}

\* Mutant: the trace is pushed in place of the matched items.
MutItems(trace) == [i \in DOMAIN trace.ids |-> trace]

Items(trace) ==
  [i \in DOMAIN trace.ids |->
     [n |-> trace.n, height |-> trace.height, id |-> trace.ids[i]]]

Elements(seq) == {seq[i] : i \in DOMAIN seq}

Init ==
  /\ ExporterInit
  /\ inboundQueue = <<>>
  /\ outboundQueue = <<>>
  /\ paused = FALSE
  /\ worker = "none"
  /\ current = NoTrace
  /\ phase = "reading"
  /\ lastRead = NoTrace
  /\ accepted = {}
  /\ exposed = {}

-------------------------------------------------------------------------------

(***************************************************************************)
(* The worker's loop with `queue` the outbound queue: take the next trace  *)
(* and wait for its block time, or end, leaving the handle as `ended`.     *)
(***************************************************************************)
WorkerLoop(queue, ended) ==
  IF queue = <<>>
  THEN /\ worker' = ended
       /\ current' = NoTrace
       /\ outboundQueue' = queue
  ELSE /\ worker' = "blockTime"
       /\ current' = Head(queue)
       /\ outboundQueue' = Tail(queue)

(***************************************************************************)
(* ensureOutboundQueueWorker.  An async function runs at once up to its    *)
(* first await: with nothing to export its `finally` clears the handle     *)
(* before the promise it returns is stored in the handle.                  *)
(***************************************************************************)
EnsureOutboundQueueWorker(queue) ==
  IF worker = "none"
  THEN WorkerLoop(queue, "settled")
  ELSE /\ outboundQueue' = queue
       /\ UNCHANGED <<worker, current>>

\* How many traces processInboundQueue moves: all of them, or up to the one that
\* fills the outbound queue.
Movable(inbound) ==
  LET room == MaxOutboundQueueSize - Len(outboundQueue)
      upToFull == IF room < 1 THEN 1 ELSE room
  IN IF Len(inbound) < upToFull THEN Len(inbound) ELSE upToFull

\* Mutant: the queue is paused one trace too late.
MutPauseLate(inbound) ==
  LET k == Movable(inbound)
      queue == outboundQueue \o SubSeq(inbound, 1, k)
  IN /\ inboundQueue' = SubSeq(inbound, k + 1, Len(inbound))
     /\ paused' = (k > 0 /\ Len(queue) > MaxOutboundQueueSize)
     /\ EnsureOutboundQueueWorker(queue)

\* Mutant: the newest traces are moved first.
MutNewestFirst(inbound) ==
  LET k == Movable(inbound)
      left == Len(inbound) - k
      queue == outboundQueue \o SubSeq(inbound, left + 1, Len(inbound))
  IN /\ inboundQueue' = SubSeq(inbound, 1, left)
     /\ paused' = (k > 0 /\ Len(queue) >= MaxOutboundQueueSize)
     /\ EnsureOutboundQueueWorker(queue)

ProcessInboundQueue(inbound) ==
  LET k == Movable(inbound)
      queue == outboundQueue \o SubSeq(inbound, 1, k)
  IN /\ inboundQueue' = SubSeq(inbound, k + 1, Len(inbound))
     /\ paused' = (k > 0 /\ Len(queue) >= MaxOutboundQueueSize)
     /\ EnsureOutboundQueueWorker(queue)

\* The FIFO's onData callback with a trace that passes its filters.
Enqueue(trace) ==
  /\ phase = "reading"
  /\ lastRead' = trace
  /\ LET inbound == Append(inboundQueue, trace)
     IN IF paused
        THEN /\ inboundQueue' = inbound
             /\ UNCHANGED <<outboundQueue, paused, worker, current>>
        ELSE ProcessInboundQueue(inbound)
  /\ UNCHANGED <<exporterVars, phase, accepted, exposed>>

\* The node writes the next trace, of the block it is at or of the next one.
ReadTrace ==
  \E height \in {lastRead.height, lastRead.height + 1}, ids \in Matches :
    /\ lastRead.n < MaxTraces
    /\ height <= MaxHeight
    /\ Enqueue([n |-> lastRead.n + 1, height |-> height, ids |-> ids])

Running == phase \notin {"exited", "failed"}

\* A tick of the interval that finds the outbound queue drained.
Resume ==
  /\ Running
  /\ paused
  /\ 5 * Len(outboundQueue) < MaxOutboundQueueSize
  /\ ProcessInboundQueue(inboundQueue)
  /\ UNCHANGED <<exporterVars, phase, lastRead, accepted, exposed>>

-------------------------------------------------------------------------------

\* exportItems pushes the items of the current trace on top of `batch`; the
\* worker goes on when the call returns, at once unless the batch is full.
ExportItems(batch) ==
  LET items == Items(current)
      waiting == \E c \in Callers \ {"worker"} : exporting[c] # "idle"
  IN /\ PushItems(batch, items)
     /\ accepted' = accepted \cup Elements(items)
     /\ exposed' = IF waiting THEN exposed \cup Elements(items) ELSE exposed
     /\ IF Len(batch \o items) >= MaxBatchSize
        THEN /\ worker' = "fullBatch"
             /\ UNCHANGED <<outboundQueue, current>>
        ELSE WorkerLoop(outboundQueue, "none")

\* blockTimeFetcher.fetch returns and nothing matches: exportItems returns.
SkipUnmatched ==
  /\ Running
  /\ worker = "blockTime"
  /\ Items(current) = <<>>
  /\ WorkerLoop(outboundQueue, "none")
  /\ UNCHANGED <<exporterVars, inboundQueue, paused, phase, lastRead, accepted, exposed>>

\* The trace is of a newer block: exportItems exports the older batch first.
ExportOlder ==
  /\ Running
  /\ worker = "blockTime"
  /\ Items(current) # <<>>
  /\ IsNewerBlock(current.height)
  /\ ExportBatch("worker", pendingBatch)
  /\ worker' = "olderBatch"
  /\ UNCHANGED <<pendingBatch, inboundQueue, outboundQueue, paused, current,
                 phase, lastRead, accepted, exposed>>

\* The trace is of the batch's block: its items are pushed.
PushSameBlock ==
  /\ Running
  /\ worker = "blockTime"
  /\ Items(current) # <<>>
  /\ ~IsNewerBlock(current.height)
  /\ ExportItems(pendingBatch)
  /\ UNCHANGED <<inboundQueue, paused, phase, lastRead>>

\* The older batch is out, exportBatch has cleared it, and the items are pushed.
OlderExported ==
  /\ Running
  /\ worker = "olderBatch"
  /\ exporting["worker"] = "ok"
  /\ ExportItems(BatchAfter("worker"))
  /\ UNCHANGED <<inboundQueue, paused, phase, lastRead>>

\* The worker's exportBatch rejects before the push, or returns or rejects after
\* it: an error is logged by export, and the worker takes the next trace.
WorkerReturns ==
  /\ Running
  /\ \/ worker = "olderBatch" /\ exporting["worker"] = "fail"
     \/ worker = "fullBatch"
  /\ pendingBatch' = BatchAfter("worker")
  /\ exporting' = [exporting EXCEPT !["worker"] = "idle"]
  /\ WorkerLoop(outboundQueue, "none")
  /\ UNCHANGED <<debounceTimer, exportQueue, backgroundQueue, failures,
                 inboundQueue, paused, phase, lastRead, accepted, exposed>>

Debounce ==
  /\ Running
  /\ \E t \in Timers : TimerFires(t)
  /\ UNCHANGED <<managerVars, phase, lastRead, accepted, exposed>>

DebounceReturns ==
  /\ Running
  /\ \E t \in Timers : TimerReturns(t)
  /\ UNCHANGED <<managerVars, phase, lastRead, accepted, exposed>>

-------------------------------------------------------------------------------

\* The FIFO ends or a signal closes it: no more data is enqueued.
Close ==
  /\ phase = "reading"
  /\ phase' = "draining"
  /\ UNCHANGED <<exporterVars, managerVars, lastRead, accepted, exposed>>

\* Reading the FIFO fails: the process exits with 1 without flushing.
FifoFails ==
  /\ phase = "reading"
  /\ phase' = "failed"
  /\ UNCHANGED <<exporterVars, managerVars, lastRead, accepted, exposed>>

\* Mutant: the flush does not wait for the worker.
MutFlushEarly ==
  /\ phase = "draining"
  /\ inboundQueue = <<>> /\ outboundQueue = <<>>
  /\ ExportBatch("flush", pendingBatch)
  /\ phase' = IF pendingBatch = <<>> THEN "exited" ELSE "flushing"
  /\ UNCHANGED <<pendingBatch, managerVars, lastRead, accepted, exposed>>

\* Mutant: the flush waits for the batch to be exported instead of exporting it.
MutFlushWaits ==
  /\ phase = "draining"
  /\ inboundQueue = <<>> /\ outboundQueue = <<>> /\ pendingBatch = <<>>
  /\ worker \in {"none", "settled"}
  /\ phase' = "exited"
  /\ UNCHANGED <<exporterVars, managerVars, lastRead, accepted, exposed>>

\* awaitFlush: the queues are empty and the worker's promise has resolved, so
\* the exporter is flushed; with nothing pending the process exits.
AwaitFlush ==
  /\ phase = "draining"
  /\ inboundQueue = <<>> /\ outboundQueue = <<>>
  /\ worker \in {"none", "settled"}
  /\ ExportBatch("flush", pendingBatch)
  /\ phase' = IF pendingBatch = <<>> THEN "exited" ELSE "flushing"
  /\ UNCHANGED <<pendingBatch, managerVars, lastRead, accepted, exposed>>

\* The flush returns and the process exits with 0, or rejects and it exits with 1.
FlushReturns ==
  /\ phase = "flushing"
  /\ exporting["flush"] # "idle"
  /\ pendingBatch' = BatchAfter("flush")
  /\ exporting' = [exporting EXCEPT !["flush"] = "idle"]
  /\ phase' = IF exporting["flush"] = "ok" THEN "exited" ELSE "failed"
  /\ UNCHANGED <<debounceTimer, exportQueue, backgroundQueue, failures,
                 managerVars, lastRead, accepted, exposed>>

Next ==
  \/ ReadTrace \/ Resume
  \/ SkipUnmatched \/ ExportOlder \/ PushSameBlock \/ OlderExported \/ WorkerReturns
  \/ Debounce \/ DebounceReturns
  \/ Close \/ FifoFails \/ AwaitFlush \/ FlushReturns

Spec == Init /\ [][Next]_vars

\* The event loop runs what is due: the worker's continuations, Redis' replies,
\* timers and intervals.  The node need not write and nobody need close the FIFO.
Fairness ==
  /\ WF_vars(SkipUnmatched \/ ExportOlder \/ PushSameBlock)
  /\ WF_vars(OlderExported \/ WorkerReturns)
  /\ WF_vars(Debounce)
  /\ \A t \in Timers : WF_vars(TimerReturns(t) /\ DebounceReturns)
  /\ WF_vars(Resume)
  /\ WF_vars(AwaitFlush)
  /\ WF_vars(FlushReturns)

FairSpec == Spec /\ Fairness

-------------------------------------------------------------------------------

TypeOK ==
  /\ ExporterTypeOK
  /\ inboundQueue \in Seq(Trace)
  /\ outboundQueue \in Seq(Trace)
  /\ paused \in BOOLEAN
  /\ worker \in WorkerStates
  /\ current \in Trace \cup {NoTrace}
  /\ phase \in Phases
  /\ lastRead \in Trace \cup {NoTrace}
  /\ accepted \subseteq BatchItem
  /\ exposed \subseteq BatchItem

(***************************************************************************)
(* TracerManager.processInboundQueue: the outbound queue never grows past  *)
(* its maximum, and traces wait in the inbound queue only while the queue  *)
(* is paused, when the interval that resumes it is running.                *)
(***************************************************************************)
Backpressure ==
  /\ Len(outboundQueue) <= MaxOutboundQueueSize
  /\ ~paused => Len(outboundQueue) < MaxOutboundQueueSize /\ inboundQueue = <<>>

(***************************************************************************)
(* Pausing and resuming neither drop nor reorder a trace: the two queues   *)
(* hold the last traces read, consecutively.                               *)
(***************************************************************************)
QueuesKeepOrder ==
  LET queued == outboundQueue \o inboundQueue
  IN \A i \in DOMAIN queued : queued[i].n = lastRead.n - Len(queued) + i

(***************************************************************************)
(* A job is labelled with the height of its last item and its handlers     *)
(* take it for one block: a batch never mixes blocks, however the          *)
(* debounced exports overlap the worker's.                                 *)
(***************************************************************************)
OneBlockPerBatch ==
  \A k \in DOMAIN exportQueue : \A x, y \in exportQueue[k] : x.height = y.height

(***************************************************************************)
(* The export worker applies jobs in queue order and the last write wins:  *)
(* no job carries an older write of a key than a job before it, and jobs   *)
(* of an older block never follow those of a newer one.                    *)
(***************************************************************************)
QueueNeverGoesBack ==
  \A k, l \in DOMAIN exportQueue : k < l =>
    \A x \in exportQueue[k], y \in exportQueue[l] :
      /\ x.height <= y.height
      /\ x.id = y.id => x.n <= y.n

\* x, or a later write of x's key in x's block, is in S.
Covered(x, S) == \E y \in S : SameKey(x, y) /\ y.n >= x.n

InExportQueue == UNION Elements(exportQueue)
InBackgroundQueue == UNION Elements(backgroundQueue)

Safe(x) ==
  \/ Covered(x, Elements(pendingBatch))
  \/ /\ Covered(x, InExportQueue)
     /\ x.id \in BackgroundIds => Covered(x, InBackgroundQueue)

(***************************************************************************)
(* exportBatch clears the batch only after both queues have it: an item    *)
(* pushed while no other export was waiting for Redis stays pending until  *)
(* it (or a later write of its key) is in the export queue and, if its     *)
(* handler has background work, in the background queue too, whichever     *)
(* additions fail.                                                         *)
(***************************************************************************)
LossNeedsOverlap == \A x \in accepted \ exposed : Safe(x)

(***************************************************************************)
(* exportItems and exportBatch: while Redis has not failed, a pending      *)
(* batch always has a timer or an export in progress that will send it.    *)
(***************************************************************************)
PendingHasExporter ==
  failures = 0 /\ pendingBatch # <<>> =>
    debounceTimer \/ \E c \in Callers : exporting[c] # "idle"

(***************************************************************************)
(* scripts/tracer.ts, "Wait for everything to export": a process that      *)
(* exits with 0 has left nothing in its queues, with its worker or in its  *)
(* batch.                                                                  *)
(***************************************************************************)
FlushedOnExit ==
  phase = "exited" =>
    /\ inboundQueue = <<>> /\ outboundQueue = <<>> /\ pendingBatch = <<>>
    /\ current = NoTrace

(***************************************************************************)
(* The debounce of BatchedTraceExporter: a pending batch is eventually     *)
(* exported, provided neither Redis nor the FIFO fails.                    *)
(***************************************************************************)
PendingDrains ==
  (pendingBatch # <<>> /\ failures = 0)
    ~> (pendingBatch = <<>> \/ failures > 0 \/ phase = "failed")

(***************************************************************************)
(* scripts/tracer.ts: after the FIFO closes the process ends (awaitFlush   *)
(* returns or rejects), paused or not, unless the worker's handle was      *)
(* already a settled promise (see OutboundHasWorker).                      *)
(***************************************************************************)
ShutdownCompletes ==
  (phase = "draining" /\ worker # "settled") ~> phase \in {"exited", "failed"}

(***************************************************************************)
(* README.md: "ensuring no data is missed/lost".  Every item pushed to a   *)
(* batch stays pending until it has been queued.                           *)
(***************************************************************************)
NoTraceLost == \A x \in accepted : Safe(x)

(***************************************************************************)
(* TracerManager.ts: "Ensure the worker is exporting the outbound queue."  *)
(* Traces in the outbound queue have a worker whose loop is running.       *)
(***************************************************************************)
OutboundHasWorker == outboundQueue # <<>> => worker \notin {"none", "settled"}

\* Batches hold one block, the queues only go forward, and a pending batch has
\* somebody to export it.
BatchesAreSound ==
    /\ OneBlockPerBatch
    /\ QueueNeverGoesBack
    /\ PendingHasExporter
=============================================================================
