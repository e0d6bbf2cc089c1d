----------------------------- MODULE ExportQueue -----------------------------
(***************************************************************************)
(* The worker of ExportQueue (src/queues/queues/export.ts) and the two     *)
(* handlers that write most of the data: wasm and bank, src/tracer/        *)
(* handlers.  A job is a batch of the tracer.  The worker takes one job at *)
(* a time and runs its handlers in parallel; BullMQ (external) retries a   *)
(* job that rejects after a delay, and one whose worker died once its lock *)
(* has expired; other jobs may have overtaken it by then.  A run that      *)
(* timed out, or whose other handler rejected, is not stopped.             *)
(*                                                                         *)
(* The wasm handler drops state events: those of excluded contracts, those *)
(* outside an allowlist for the contract's code, and, if it is configured  *)
(* so, those of contracts whose code is not a known one or could not be    *)
(* looked up.                                                              *)
(***************************************************************************)
EXTENDS Integers, Sequences, FiniteSets

CONSTANTS BankIds,     \* address and denomination pairs
          HistoryIds,  \* those of BankIds whose history is kept
          WasmIds,     \* contract and key pairs
          ContractOf,  \* the contract of each of WasmIds
          Excluded,    \* contracts that are not indexed
          Unlisted,    \* those of WasmIds that the allowlist of the contract's code leaves out
          OnlyKnown,   \* whether only known codes are exported
          KnownCode,   \* the contracts whose code has a key
          Identified,  \* the contracts whose code id is stored at the start
          Jobs,        \* the items of each job, in the order the tracer adds them
          Instantiates,\* the contracts that each job has a contract event of
          Attempts,    \* attempts of a job (defaultJobOptions)
          Tries,       \* tries of a handler (retry)
          MaxFailures, \* bound: database or Redis calls that fail
          MaxTimeouts, \* bound: jobs that take more than 30 seconds
          MaxCrashes   \* bound: crashes of the worker process

Item == [n : Nat, height : Nat, id : BankIds \cup WasmIds]

JobIds == DOMAIN Jobs

\* The tracer's batches: one block each, and never back (see TracerManager).
ASSUME ExportQueueAssumption ==
  /\ BankIds \cap WasmIds = {} /\ HistoryIds \subseteq BankIds
  /\ DOMAIN ContractOf = WasmIds /\ OnlyKnown \in BOOLEAN
  /\ Unlisted \subseteq WasmIds /\ DOMAIN Instantiates = JobIds
  /\ Jobs \in Seq(SUBSET Item)
  /\ \A j \in JobIds : \A x, y \in Jobs[j] : x.height = y.height /\ (x.id = y.id => x = y)
  /\ \A j, k \in JobIds : j < k => \A x \in Jobs[j], y \in Jobs[k] :
       x.height <= y.height /\ (x.id = y.id => x.n < y.n)
  /\ Attempts \in Nat \ {0} /\ Tries \in Nat \ {0}
  /\ MaxFailures \in Nat /\ MaxTimeouts \in Nat /\ MaxCrashes \in Nat

VARIABLES
  added,         \* jobs the tracer has added
  waiting,       \* BullMQ: jobs to process, in order
  delayed,       \* BullMQ: jobs to be retried after a delay
  active,        \* BullMQ: the job being processed, 0 if none
  attemptsMade,  \* BullMQ: rejected attempts of each job
  completed,     \* BullMQ: jobs that succeeded
  failed,        \* BullMQ: jobs that used up their attempts, or stalled too often
  stalled,       \* BullMQ: jobs whose worker died, locked until the lock expires
  stalls,        \* BullMQ: how often each job was found stalled
  runs,          \* calls of process whose handlers may still be running
  identified,    \* Contracts: those with a code id above 0
  unfound,       \* codeIdCache: contracts whose code id is cached as 0
  missed,        \* history: contracts whose code id was ever cached as 0
  rows,          \* WasmStateEvents, BankStateEvents: <<id, height>> -> n of the value
  balances,      \* BankDenomBalances: id -> height and n of the balance
  lastExported,  \* State.lastWasmBlockHeightExported, lastBankBlockHeightExported
  latestHeight,  \* State.latestBlockHeight
  accountQueued, \* items AccountWebhook events were created for
  notified,      \* items whose webhooks were queued
  failures, timeouts, crashes \* bounds so far

bullVars == <<waiting, delayed, active, attemptsMade, completed, failed, stalled, stalls>>
codeVars == <<identified, unfound, missed>>
dbVars == <<rows, balances, lastExported, latestHeight, accountQueued>>
boundVars == <<failures, timeouts, crashes>>
vars == <<added, bullVars, runs, codeVars, dbVars, notified, boundVars>>

Handlers == {"wasm", "bank"}
Stages == {"codes", "write", "account", "cursor", "notify", "done", "failed"}

\* How often BullMQ puts a stalled job back (maxStalledCount).
MaxStalled == 1

\* A handler's items: wasm drops those of excluded contracts first.
IsStateEvent(x) == x.id \in WasmIds /\ ContractOf[x.id] \notin Excluded
ItemsOf(j, h) == {x \in Jobs[j] : IF h = "wasm" THEN IsStateEvent(x) ELSE x.id \in BankIds}
NewContracts(j) == Instantiates[j] \ Excluded

\* A call of process: what each handler does next, its try, and the state events
\* that the wasm handler has not dropped.
Run == [job : JobIds, attempt : 1..Attempts, kept : SUBSET Item,
        stage : [Handlers -> Stages], try : [Handlers -> 1..Tries]]

FirstStage(j, h) ==
  CASE h = "bank" /\ ItemsOf(j, h) # {} -> "write"
    [] h = "wasm" /\ (ItemsOf(j, h) # {} \/ NewContracts(j) # {}) -> "codes"
    [] OTHER -> "done"

NewRun(j) ==
  [job |-> j, attempt |-> attemptsMade[j] + 1, kept |-> ItemsOf(j, "wasm"),
   stage |-> [h \in Handlers |-> FirstStage(j, h)],
   try |-> [h \in Handlers |-> 1]]

\* The run whose promise BullMQ is waiting for.
Awaited(r) == r.job = active /\ r.attempt = attemptsMade[r.job] + 1

Init ==
  /\ added = 0
  /\ waiting = <<>>
  /\ delayed = {}
  /\ active = 0
  /\ attemptsMade = [j \in JobIds |-> 0]
  /\ completed = {}
  /\ failed = {}
  /\ stalled = {}
  /\ stalls = [j \in JobIds |-> 0]
  /\ runs = {}
  /\ identified = Identified
  /\ unfound = {}
  /\ missed = {}
  /\ rows = <<>>
  /\ balances = <<>>
  /\ lastExported = [h \in Handlers |-> 0]
  /\ latestHeight = 0
  /\ accountQueued = {}
  /\ notified = {}
  /\ failures = 0 /\ timeouts = 0 /\ crashes = 0

Greatest(a, b) == IF a >= b THEN a ELSE b

-------------------------------------------------------------------------------
\* BullMQ (external) and the outcome of process.

\* The tracer adds its next job.
AddJob ==
  /\ added < Len(Jobs)
  /\ added' = added + 1
  /\ waiting' = Append(waiting, added + 1)
  /\ UNCHANGED <<delayed, active, attemptsMade, completed, failed, stalled, stalls, runs, codeVars, dbVars, notified, boundVars>>

\* Mutant: the worker has a concurrency of 2.
MutTakeJob ==
  /\ waiting # <<>>
  /\ active' = Head(waiting)
  /\ waiting' = Tail(waiting)
  /\ runs' = runs \cup {NewRun(Head(waiting))}
  /\ UNCHANGED <<added, delayed, attemptsMade, completed, failed, stalled, stalls, codeVars, dbVars, notified, boundVars>>

\* The worker, which has a concurrency of 1, takes the next job.
TakeJob ==
  /\ active = 0 /\ waiting # <<>>
  /\ active' = Head(waiting)
  /\ waiting' = Tail(waiting)
  /\ runs' = runs \cup {NewRun(Head(waiting))}
  /\ UNCHANGED <<added, delayed, attemptsMade, completed, failed, stalled, stalls, codeVars, dbVars, notified, boundVars>>

\* The delay of a retry is over.
DelayOver(j) ==
  /\ j \in delayed
  /\ delayed' = delayed \ {j}
  /\ waiting' = Append(waiting, j)
  /\ UNCHANGED <<added, active, attemptsMade, completed, failed, stalled, stalls, runs, codeVars, dbVars, notified, boundVars>>

\* Mutant: the job resolves as soon as one handler is done.
MutResolves(r) ==
  /\ Awaited(r)
  /\ \E h \in Handlers : r.stage[h] = "done"
  /\ completed' = completed \cup {r.job}
  /\ active' = 0
  /\ runs' = runs \ {r}
  /\ UNCHANGED <<added, waiting, delayed, attemptsMade, failed, stalled, stalls, codeVars, dbVars, notified, boundVars>>

\* All handlers are done in time: the job resolves.
Resolves(r) ==
  /\ Awaited(r)
  /\ \A h \in Handlers : r.stage[h] = "done"
  /\ completed' = completed \cup {r.job}
  /\ active' = 0
  /\ runs' = runs \ {r}
  /\ UNCHANGED <<added, waiting, delayed, attemptsMade, failed, stalled, stalls, codeVars, dbVars, notified, boundVars>>

\* Mutant: a job that rejects is not attempted again, nor counted as failed.
MutReject(j) ==
  /\ attemptsMade' = [attemptsMade EXCEPT ![j] = @ + 1]
  /\ active' = 0
  /\ UNCHANGED <<delayed, failed, waiting, completed, stalled, stalls>>

\* BullMQ is told that the job's attempt was rejected.
Reject(j) ==
  /\ attemptsMade' = [attemptsMade EXCEPT ![j] = @ + 1]
  /\ active' = 0
  /\ IF attemptsMade[j] + 1 < Attempts
     THEN delayed' = delayed \cup {j} /\ UNCHANGED failed
     ELSE failed' = failed \cup {j} /\ UNCHANGED delayed
  /\ UNCHANGED <<waiting, completed, stalled, stalls>>

\* One handler rejects: so does the job.  The other handler goes on.
Rejects(r) ==
  /\ Awaited(r)
  /\ \E h \in Handlers : r.stage[h] = "failed"
  /\ Reject(r.job)
  /\ UNCHANGED <<added, runs, codeVars, dbVars, notified, boundVars>>

\* 30 seconds have passed: the job rejects.  Its handlers go on.
TimesOut(r) ==
  /\ timeouts < MaxTimeouts
  /\ timeouts' = timeouts + 1
  /\ Awaited(r)
  /\ Reject(r.job)
  /\ UNCHANGED <<added, runs, codeVars, dbVars, notified, failures, crashes>>

\* The process dies with its runs and its cache, and is restarted. The job it was
\* processing stays locked.
Crash ==
  /\ crashes < MaxCrashes
  /\ crashes' = crashes + 1
  /\ runs' = {}
  /\ unfound' = {}
  /\ active' = 0
  /\ stalled' = stalled \cup ({active} \ {0})
  /\ UNCHANGED <<added, waiting, delayed, attemptsMade, completed, failed, stalls, identified, missed,
                 dbVars, notified, failures, timeouts>>

\* Mutant: a stalled job is dropped.
MutFindStalled(j) ==
  /\ j \in stalled
  /\ stalled' = stalled \ {j}
  /\ stalls' = [stalls EXCEPT ![j] = @ + 1]
  /\ UNCHANGED <<waiting, failed>>
  /\ UNCHANGED <<added, delayed, active, attemptsMade, completed, runs, codeVars, dbVars, notified, boundVars>>

\* The lock of a stalled job has expired: the job is put back in front, or fails
\* if it has stalled before.
FindStalled(j) ==
  /\ j \in stalled
  /\ stalled' = stalled \ {j}
  /\ stalls' = [stalls EXCEPT ![j] = @ + 1]
  /\ IF stalls[j] < MaxStalled
     THEN waiting' = <<j>> \o waiting /\ UNCHANGED failed
     ELSE failed' = failed \cup {j} /\ UNCHANGED waiting
  /\ UNCHANGED <<added, delayed, active, attemptsMade, completed, runs, codeVars, dbVars, notified, boundVars>>

-------------------------------------------------------------------------------
\* The handlers of a run r, from one await to the next.

Move(r, h, stage) == runs' = (runs \ {r}) \cup {[r EXCEPT !.stage[h] = stage]}

\* The table f after an upsert of the keys and values of g.
Upsert(f, g) == [k \in DOMAIN f \cup DOMAIN g |-> IF k \in DOMAIN g THEN g[k] ELSE f[k]]

\* rows after bulkCreate with updateOnDuplicate, of events of one block.
RowsWith(items) ==
  Upsert(rows, [k \in {<<x.id, x.height>> : x \in items} |->
                  (CHOOSE x \in items : <<x.id, x.height>> = k).n])

\* Mutant: the events of contracts with an unknown code id are dropped as well.
MutKept(items, known) ==
  {x \in items : ContractOf[x.id] \in known \cap KnownCode /\ x.id \notin Unlisted}

\* The events that are exported when these contracts have a code id: unless the
\* allowlist for the code leaves the key out, or the code is unknown where only
\* known ones are exported.
Kept(items, known) ==
  {x \in items : /\ ContractOf[x.id] \in known => x.id \notin Unlisted
                 /\ OnlyKnown => ContractOf[x.id] \in known \cap KnownCode}

\* wasm: the contracts of contract events are stored with their code id, the code
\* ids that are missing are looked up once (getCodeId), and events are filtered.
\* A look-up that fails, or finds no contract, is cached as 0.
ReadCodes(r) ==
  LET contracts == {ContractOf[x.id] : x \in ItemsOf(r.job, "wasm")}
      stored == identified \cup NewContracts(r.job)
      asked == contracts \ (stored \cup unfound)
  IN  /\ r.stage["wasm"] = "codes"
      /\ \E zero \in SUBSET asked :
           /\ IF zero = {} THEN UNCHANGED failures
              ELSE failures < MaxFailures /\ failures' = failures + 1
           /\ identified' = stored \cup (asked \ zero)
           /\ unfound' = unfound \cup zero
           /\ missed' = missed \cup zero
      /\ runs' = (runs \ {r}) \cup
           {[r EXCEPT !.kept = Kept(@, identified'),
                      !.stage["wasm"] = IF ItemsOf(r.job, "wasm") = {} THEN "done" ELSE "write"]}
      /\ UNCHANGED <<added, bullVars, dbVars, notified, timeouts, crashes>>

\* wasm: the state events that were kept are upserted.
WriteRows(r) ==
  /\ r.stage["wasm"] = "write"
  /\ rows' = RowsWith(r.kept)
  /\ Move(r, "wasm", "account")
  /\ UNCHANGED <<added, bullVars, codeVars, balances, lastExported, latestHeight, accountQueued, notified, boundVars>>

\* Mutant: the height of a stored balance is not compared.
MutNewBalances(new) == new

\* The balances an upsert takes: those of a higher block than the row's.
NewBalances(new) ==
  [id \in {i \in DOMAIN new : i \notin DOMAIN balances \/ new[i].height > balances[i].height} |->
     new[id]]

\* balances after INSERT ... ON CONFLICT, which keeps a row unless the block is newer.
BalancesWith(items) ==
  Upsert(balances, NewBalances(
    [id \in {x.id : x \in items} |->
       LET x == CHOOSE y \in items : y.id = id IN [height |-> x.height, n |-> x.n]]))

History(j) == {x \in Jobs[j] : x.id \in HistoryIds}

\* bank: the history of some addresses and the balances of all are upserted.
WriteBalances(r) ==
  /\ r.stage["bank"] = "write"
  /\ rows' = RowsWith(History(r.job))
  /\ balances' = BalancesWith(ItemsOf(r.job, "bank"))
  /\ Move(r, "bank", "cursor")
  /\ UNCHANGED <<added, bullVars, codeVars, lastExported, latestHeight, accountQueued, notified, boundVars>>

\* Mutant: events of the last exported block are skipped too.
MutUnsent(r) == {x \in r.kept : x.height > lastExported["wasm"]}

\* The events that account webhooks may not have been sent for.
Unsent(r) == {x \in r.kept : x.height >= lastExported["wasm"]}

\* wasm: account webhooks are queued.
QueueAccountWebhooks(r) ==
  /\ r.stage["wasm"] = "account"
  /\ accountQueued' = accountQueued \cup Unsent(r)
  /\ Move(r, "wasm", "cursor")
  /\ UNCHANGED <<added, bullVars, codeVars, rows, balances, lastExported, latestHeight, notified, boundVars>>

\* The block of a job.
HeightOf(j) == (CHOOSE x \in Jobs[j] : TRUE).height

\* State.updateSingleton.
MoveCursor(r, h) ==
  /\ r.stage[h] = "cursor"
  /\ latestHeight' = Greatest(latestHeight, HeightOf(r.job))
  /\ lastExported' = [lastExported EXCEPT ![h] = Greatest(@, HeightOf(r.job))]
  /\ Move(r, h, "notify")
  /\ UNCHANGED <<added, bullVars, codeVars, rows, balances, accountQueued, notified, boundVars>>

\* The events a handler returns.
Exported(r, h) == IF h = "wasm" THEN r.kept ELSE ItemsOf(r.job, h)

\* queueWebhooks adds the jobs of the configured webhooks, or fails; an error is
\* logged.
Notify(r, h) ==
  /\ r.stage[h] = "notify"
  /\ \/ notified' = notified \cup Exported(r, h) /\ UNCHANGED failures
     \/ /\ failures < MaxFailures
        /\ failures' = failures + 1
        /\ UNCHANGED notified
  /\ Move(r, h, "done")
  /\ UNCHANGED <<added, bullVars, codeVars, dbVars, timeouts, crashes>>

\* Of bank's two queries, which run in parallel, one may have been made when the
\* other fails.
PartlyWritten(r, h) ==
  \/ UNCHANGED <<rows, balances>>
  \/ /\ r.stage[h] = "write" /\ h = "bank"
     /\ \/ rows' = RowsWith(History(r.job)) /\ UNCHANGED balances
        \/ balances' = BalancesWith(ItemsOf(r.job, "bank")) /\ UNCHANGED rows

\* The contracts of contract events may have been stored when the handler fails.
PartlyStored(r, h) ==
  \/ UNCHANGED identified
  \/ r.stage[h] = "codes" /\ identified' = identified \cup NewContracts(r.job)

\* The next try, of process or of a part of it, which goes on with the events
\* that are left.
TryAgain(r, h) ==
  \E items \in {r.kept, ItemsOf(r.job, "wasm")} :
    runs' = (runs \ {r}) \cup {[r EXCEPT !.stage[h] = FirstStage(r.job, h), !.try[h] = @ + 1,
                                       !.kept = IF h = "wasm" THEN items ELSE @]}

\* Mutant: one try too many.
MutThrows(r, h) ==
  /\ failures < MaxFailures
  /\ failures' = failures + 1
  /\ r.stage[h] \in {"codes", "write", "account", "cursor"}
  /\ IF r.try[h] <= Tries THEN TryAgain(r, h) ELSE Move(r, h, "failed")
  /\ PartlyStored(r, h) /\ PartlyWritten(r, h)
  /\ UNCHANGED <<added, bullVars, unfound, missed, lastExported, latestHeight, accountQueued, notified,
                 timeouts, crashes>>

\* A call of the handler's process fails: it is tried again from the start, or
\* the handler rejects.
Throws(r, h) ==
  /\ failures < MaxFailures
  /\ failures' = failures + 1
  /\ r.stage[h] \in {"codes", "write", "account", "cursor"}
  /\ IF r.try[h] < Tries THEN TryAgain(r, h) ELSE Move(r, h, "failed")
  /\ PartlyStored(r, h) /\ PartlyWritten(r, h)
  /\ UNCHANGED <<added, bullVars, unfound, missed, lastExported, latestHeight, accountQueued, notified,
                 timeouts, crashes>>

HandlerStep(r) ==
  \/ ReadCodes(r) \/ WriteRows(r) \/ QueueAccountWebhooks(r) \/ WriteBalances(r)
  \/ \E h \in Handlers : MoveCursor(r, h) \/ Notify(r, h) \/ Throws(r, h)

Settles(r) == Resolves(r) \/ Rejects(r)

Next ==
  \/ AddJob \/ TakeJob \/ Crash
  \/ \E j \in JobIds : DelayOver(j) \/ FindStalled(j)
  \/ \E r \in runs : HandlerStep(r) \/ Settles(r) \/ TimesOut(r)

Spec == Init /\ [][Next]_vars

\* The worker takes jobs, delays end, locks expire, and the handlers of the awaited run get on.
Fairness ==
  /\ WF_vars(TakeJob)
  /\ \A j \in JobIds : WF_vars(DelayOver(j)) /\ WF_vars(FindStalled(j))
  /\ WF_vars(\E r \in runs : Awaited(r) /\ HandlerStep(r))
  /\ WF_vars(\E r \in runs : Settles(r))

FairSpec == Spec /\ Fairness

-------------------------------------------------------------------------------

TypeOK ==
  /\ added \in 0..Len(Jobs)
  /\ waiting \in Seq(JobIds)
  /\ delayed \subseteq JobIds
  /\ active \in JobIds \cup {0}
  /\ attemptsMade \in [JobIds -> 0..Attempts]
  /\ completed \subseteq JobIds /\ failed \subseteq JobIds /\ stalled \subseteq JobIds
  /\ stalls \in [JobIds -> 0..MaxStalled + 1]
  /\ runs \subseteq Run
  /\ \A k \in DOMAIN rows : rows[k] \in Nat
  /\ \A id \in DOMAIN balances : balances[id] \in [height : Nat, n : Nat]
  /\ lastExported \in [Handlers -> Nat] /\ latestHeight \in Nat
  /\ accountQueued \subseteq Item /\ notified \subseteq Item
  /\ failures \in 0..MaxFailures /\ timeouts \in 0..MaxTimeouts /\ crashes \in 0..MaxCrashes

\* A state event may be missing because the allowlist leaves it out, or, where
\* only known codes are exported, because its contract's code is not one, or a
\* look-up of its code id failed.
MayMiss(x, known, notFound) ==
  \/ ContractOf[x.id] \in known /\ x.id \in Unlisted
  \/ OnlyKnown /\ (ContractOf[x.id] \notin KnownCode \/ ContractOf[x.id] \in notFound)

\* A job that was attempted again, or put back after a crash.
Repeated(j) == attemptsMade[j] > 0 \/ stalls[j] > 0

(***************************************************************************)
(* export.ts, "Process handlers in parallel": a job that BullMQ counts as  *)
(* completed has all of its items in the tables, except events that the    *)
(* filters drop (MayMiss), and the cursors at its block or later, however  *)
(* many of its attempts failed, timed out, stalled or are still running.   *)
(***************************************************************************)
CompletedIsExported ==
  \A j \in completed :
    /\ \A x \in ItemsOf(j, "wasm") : <<x.id, x.height>> \in DOMAIN rows \/ MayMiss(x, identified, missed)
    /\ \A x \in History(j) : <<x.id, x.height>> \in DOMAIN rows
    /\ \A x \in ItemsOf(j, "bank") :
         x.id \in DOMAIN balances /\ balances[x.id].height >= x.height
    /\ \A h \in Handlers : \A x \in ItemsOf(j, h) :
         lastExported[h] >= x.height /\ latestHeight >= x.height

(***************************************************************************)
(* wasm.ts and bank.ts, updateOnDuplicate: a row is replaced by an older   *)
(* write of the same block only by a job that was retried or put back.     *)
(***************************************************************************)
RowGoesBackOnlyAfterRetry ==
  [][\A k \in DOMAIN rows : rows'[k] < rows[k] =>
       \E j \in JobIds : Repeated(j) /\ \E x \in Jobs[j] : x.n = rows'[k]]_vars

(***************************************************************************)
(* bank.ts, "only update when blockHeight is newer": out-of-order retries  *)
(* and runs that outlive their timeout never take a balance back to an     *)
(* earlier block.                                                          *)
(***************************************************************************)
BalanceNeverGoesBack ==
  [][\A id \in DOMAIN balances :
       balances'[id].height >= balances[id].height /\ balances'[id].n >= balances[id].n]_vars

(***************************************************************************)
(* wasm.ts, lastWasmBlockHeightExported: the events of a completed job     *)
(* have had their account webhooks queued, unless the filters drop them,   *)
(* or the job was retried or put back and a newer block was exported in    *)
(* between.                                                                *)
(***************************************************************************)
AccountWebhooksQueued ==
  \A j \in completed : \A x \in ItemsOf(j, "wasm") :
    \/ x \in accountQueued \/ MayMiss(x, identified, missed)
    \/ Repeated(j) /\ lastExported["wasm"] > x.height

(***************************************************************************)
(* connection.ts, "attempts: 3": every job added ends, completed or failed.*)
(***************************************************************************)
JobsEnd == \A j \in JobIds : (added >= j) ~> (j \in completed \cup failed)

(***************************************************************************)
(* wasm.ts: on a duplicate "we update the `value`, `valueJson`, and        *)
(* `delete` fields in case event processing for a block was batched        *)
(* separately".  A completed job's value is not replaced by an older one.  *)
(***************************************************************************)
RowsKeepLastWrite ==
  \A j \in completed : \A x \in ItemsOf(j, "wasm") :
    <<x.id, x.height>> \in DOMAIN rows => rows[<<x.id, x.height>>] >= x.n

(***************************************************************************)
(* bank.ts: "Get latest event for each address/denom."  A completed job's  *)
(* balance, or a later one, is the row's.                                  *)
(***************************************************************************)
BalanceIsLatest ==
  \A j \in completed : \A x \in ItemsOf(j, "bank") :
    x.id \in DOMAIN balances => balances[x.id].n >= x.n

\* A job that completed is in the tables and its account webhooks are queued.
CompletedIsHandled ==
    /\ CompletedIsExported
    /\ AccountWebhooksQueued

\* No write goes back: a balance never, a row only by a retried job.
WritesGoForward ==
    /\ RowGoesBackOnlyAfterRetry
    /\ BalanceNeverGoesBack
=============================================================================
