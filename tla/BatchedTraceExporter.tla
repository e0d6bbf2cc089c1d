------------------------- MODULE BatchedTraceExporter -------------------------
(***************************************************************************)
(* src/tracer/clients/BatchedTraceExporter.ts: the pending batch of the    *)
(* tracer, and exportBatch, the asynchronous call that sends it to Redis.  *)
(*                                                                         *)
(* Several calls of exportBatch can be waiting for Redis at once: one of   *)
(* the tracer's worker, one of the final flush, and any number started by  *)
(* the debounce timer.  Redis executes the commands of a connection in the *)
(* order they were sent, so a job enters a queue (or the command fails)    *)
(* when the call starts, and the reply is what the call waits for.         *)
(***************************************************************************)
EXTENDS Integers, Sequences, FiniteSets

CONSTANTS Ids,           \* handlers with what their matched data is about
          BackgroundIds, \* those whose handler has processBackground
          MaxBatchSize,  \* this.maxBatchSize
          Timers,        \* bound: debounced exports that can overlap
          MaxFailures    \* bound: exports that Redis fails

ASSUME ExporterAssumption ==
  /\ BackgroundIds \subseteq Ids
  /\ MaxBatchSize \in Nat \ {0}
  /\ MaxFailures \in Nat
  /\ {"worker", "flush"} \cap Timers = {}

VARIABLES pendingBatch,    \* this.pendingBatch
          debounceTimer,   \* this.debounceTimer !== null
          exporting,       \* what each exportBatch in progress will return
          exportQueue,     \* jobs of ExportQueue, oldest first
          backgroundQueue, \* jobs of ExportBackgroundQueue
          failures         \* exports failed so far

exporterVars ==
  <<pendingBatch, debounceTimer, exporting, exportQueue, backgroundQueue, failures>>

Callers == Timers \cup {"worker", "flush"}

\* An item of a batch.  n is the position of its trace in the FIFO; the data of
\* an item is told apart by n alone.
BatchItem == [n : Nat, height : Nat, id : Ids]

\* The id of matched data names its block too.
SameKey(x, y) == x.id = y.id /\ x.height = y.height

(***************************************************************************)
(* The data of a job: of the items with the same handler and id the last.  *)
(* The job's array is ordered by index, hence by n, so a set keeps it all. *)
(***************************************************************************)
UniqueBatchData(batch) ==
  {batch[i] : i \in {k \in DOMAIN batch :
                       \A j \in DOMAIN batch : j > k => ~SameKey(batch[j], batch[k])}}

BackgroundData(job) == {item \in job : item.id \in BackgroundIds}

ExporterTypeOK ==
  /\ pendingBatch \in Seq(BatchItem)
  /\ debounceTimer \in BOOLEAN
  /\ exporting \in [Callers -> {"idle", "ok", "fail"}]
  /\ exportQueue \in Seq(SUBSET BatchItem)
  /\ backgroundQueue \in Seq(SUBSET BatchItem)
  /\ failures \in 0..MaxFailures

ExporterInit ==
  /\ pendingBatch = <<>>
  /\ debounceTimer = FALSE
  /\ exporting = [c \in Callers |-> "idle"]
  /\ exportQueue = <<>>
  /\ backgroundQueue = <<>>
  /\ failures = 0

(***************************************************************************)
(* Promise.all of the two queue additions.  Either of them can fail while  *)
(* the other one's job has been added; c's call then rejects.              *)
(***************************************************************************)
AddJobs(c, job) ==
  LET background == BackgroundData(job)
      wanted == {"export"} \cup (IF background = {} THEN {} ELSE {"background"})
  IN \E added \in SUBSET wanted :
       /\ failures' = IF added = wanted THEN failures ELSE failures + 1
       /\ failures' <= MaxFailures
       /\ exporting' = [exporting EXCEPT ![c] = IF added = wanted THEN "ok" ELSE "fail"]
       /\ exportQueue' = IF "export" \in added
                         THEN Append(exportQueue, job) ELSE exportQueue
       /\ backgroundQueue' = IF "background" \in added
                             THEN Append(backgroundQueue, background)
                             ELSE backgroundQueue

\* exportBatch called by c when the pending batch is `batch`, up to its await.
ExportBatch(c, batch) ==
  /\ debounceTimer' = FALSE
  /\ IF batch = <<>>
     THEN /\ exporting' = [exporting EXCEPT ![c] = "idle"]
          /\ UNCHANGED <<exportQueue, backgroundQueue, failures>>
     ELSE AddJobs(c, UniqueBatchData(batch))

\* Mutant: the batch survives a successful export.
MutBatchKept(c) == pendingBatch

\* Mutant: the batch is cleared even when Redis failed.
MutBatchDropped(c) == <<>>

\* The pending batch after the reply to c: cleared on success, whatever has
\* been pushed since the call started.
BatchAfter(c) == IF exporting[c] = "ok" THEN <<>> ELSE pendingBatch

\* Mutant: the debounced export is not scheduled.
MutPushWithoutTimer(batch, items) ==
  LET pushed == batch \o items
  IN /\ pendingBatch' = pushed
     /\ IF Len(pushed) >= MaxBatchSize
        THEN ExportBatch("worker", pushed)
        ELSE /\ exporting' = [exporting EXCEPT !["worker"] = "idle"]
             /\ UNCHANGED <<debounceTimer, exportQueue, backgroundQueue, failures>>

\* The rest of exportItems once an older batch is out of the way: `batch` is
\* the pending batch and items are appended to it.
PushItems(batch, items) ==
  LET pushed == batch \o items
  IN /\ pendingBatch' = pushed
     /\ IF Len(pushed) >= MaxBatchSize
        THEN ExportBatch("worker", pushed)
        ELSE /\ debounceTimer' = TRUE
             /\ exporting' = [exporting EXCEPT !["worker"] = "idle"]
             /\ UNCHANGED <<exportQueue, backgroundQueue, failures>>

\* Mutant: the comparison with the last item's height is reversed.
MutIsOlderBlock(height) ==
  /\ pendingBatch # <<>>
  /\ height < pendingBatch[Len(pendingBatch)].height

\* Whether exportItems has to export an older block's batch first.
IsNewerBlock(height) ==
  /\ pendingBatch # <<>>
  /\ height > pendingBatch[Len(pendingBatch)].height

\* The debounce timer elapses and calls exportBatch without waiting for it.
TimerFires(t) ==
  /\ debounceTimer
  /\ exporting[t] = "idle"
  /\ ExportBatch(t, pendingBatch)
  /\ UNCHANGED pendingBatch

\* Redis replies to a debounced export; a rejection is only logged.
TimerReturns(t) ==
  /\ exporting[t] # "idle"
  /\ pendingBatch' = BatchAfter(t)
  /\ exporting' = [exporting EXCEPT ![t] = "idle"]
  /\ UNCHANGED <<debounceTimer, exportQueue, backgroundQueue, failures>>

=============================================================================
