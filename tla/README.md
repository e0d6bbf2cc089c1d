# A verification of the DAO DAO indexer

TLA+ specifications of the parts of the indexer that are hard to test: the
processes that carry blocks and state changes from a chain's node to the
database, the jobs that bring the database in line with a contract, the services
beside them, and the computations and formulas that answer from what was indexed.
TLC checks them on small instances, TLAPS proves the invariants of the pipeline,
and of the services, jobs and formulas beside it for every value of the constants. Source
paths are relative to the repository's `src/` unless they begin with `docs/`;
`PROJECT.json` maps every definition to its lines and lists, under `hazards`, what
can go wrong and where.

## 1. The system

The indexer is a set of processes (`ecosystem.config.js`) around one PostgreSQL
database and Redis (BullMQ queues):

    node --FIFO--> tracer ----> ExportQueue, ExportBackgroundQueue --> workers --> database
    node --RPC/WebSocket--> listener ----> ExtractQueue ------------> workers --> database
    recovery, transformations and sync jobs, the import script ------> workers --> database
                                            workers --> webhook and search queues
    API servers <--> database        account-webhooks, server_accounts <--> accounts database

| Component | State | Operations | Hard behaviour |
|---|---|---|---|
| Tracer process: `scripts/tracer.ts`, `tracer/clients/TracerManager.ts` | inbound and outbound queue, paused flag, handle of the one worker | read a trace, enqueue, pause and resume, export one trace, flush on shutdown | callbacks interleave at awaits; back-pressure; shutdown while work is pending |
| Trace batching: `tracer/clients/BatchedTraceExporter.ts` | pending batch, debounce timer | push items, export a batch (size, newer block, timer, flush) | overlapping exports; one of two Redis additions fails |
| Block iterator: `services/BlockIterator.ts` | buffer by height, fetches in flight, heights | fetch in parallel, take in order, emit callbacks, stop | out-of-order completion, stale polls, stop at any time |
| Listener process: `scripts/listener.ts` | cursor in the `State` row | onBlock moves the cursor, onTx queues jobs | crash between the two; other processes move the cursor |
| WebSocket client: `services/ChainWebSocketListener.ts` | generation, socket, pending attempt and delay | connect, disconnect, retry, reconnect | late callbacks, cancellation, timeouts |
| Export worker: `queues/queues/export.ts`, `tracer/handlers/*` | tables, cursors, job states | run a job's handlers in parallel, look up code ids, drop events by code, retry, time out | retries and stalled jobs overtaken by later jobs; runs that outlive their timeout; look-ups that fail |
| Node clients: `utils/AutoCosmWasmClient`, `services/BlockTimeFetcher.ts`, code ids in `tracer/handlers/wasm.ts` | client, cached times and code ids | update, wait for a block event or ask the node | timeout racing the event; overlapping updates; failures cached |
| Computations: `formulas/compute.ts`, `formulas/env.ts`, `db/models/Computation.ts`, `server/routes/indexer/computer.ts` | stored results with validity intervals | compute at a block or over a range, store, extend, invalidate, revalidate | rows exported late; compute, invalidate and store interleave |
| Contract state recovery and import: `services/contract-state-*.ts` | rows and cursors | page through a contract's state or an export, save what differs, transform, invalidate, verify | races the exporter; restarts |
| Transformations: `queues/queues/transformations.ts`, `transformers/` | derived rows | transform a batch; page through events again | events inserted meanwhile; batches repeated or split |
| Extractors: `listener/extractors/*`, `queues/queues/sync-extractors.ts` | extractions | on an event, ask the node and save under the event's block | jobs late, out of order, failed for good; preferred over fresher sources |
| Code ids: `services/wasm-codes`, `wasmCodeTrackers` | map of code keys | periodic reload, tracking | reloads that overlap, shared objects |
| Account webhooks, deposit webhooks, credits: `db/models/Account*.ts`, `server/routes/account` | filters, events, attempts, registration cache, credits | edit, match, fire, invalidate, charge, pay | check-then-act across awaits, several processes |
| Formulas: `formulas/formulas/**` | none of their own | put past and present values together from indexed entries | boundaries of heights, rounding, pages |
| Aggregators, search indexers, configuration, migrations | none of their own | read or declare | — |

## 2. The modules

The pipeline:

| Module | Models | State and actions |
|---|---|---|
| `BatchedTraceExporter` | `BatchedTraceExporter.ts` | `exporting[c]` is the reply that caller c's `exportBatch` waits for; the job enters the Redis queue when the call starts because a connection executes its commands in order. |
| `TracerManager` (extends it) | `TracerManager.ts`, `scripts/tracer.ts`, `tracer/utils.ts` | An action is the code from one macrotask to the next real await. `worker` is the handle together with the await its loop is at; `"settled"` is a handle holding a promise that has already resolved. |
| `BlockIterator` | `BlockIterator.ts` | `fetcher`, `consumer`, every fetch in `inFlight` and the tracker of the chain's height move independently. A block is the sequence of callbacks it leads to. |
| `Listener` (extends it) | `scripts/listener.ts` with `State.updateSingleton` | The callbacks refine `CallbackReturns` and `Rejects`; `Restart` is a crash, or an exit, and a new process. `ExportMovesCursor` is what `wasm.ts` and `bank.ts` do to the shared cursor. |
| `Connection` | the promise of the WebSocket client to its owner | Abstract: at most one live socket, none unless wanted, reported as connected only when live. |
| `ChainWebSocketListener` | `ChainWebSocketListener.ts` | One loop per generation, one record per attempt; a socket is named by its attempt. Refines `Connection`. |
| `ExportQueue` | `export.ts`, `wasm.ts` and `bank.ts` (`process`), `retry`, `queueWebhooks` | BullMQ is external: waiting, delayed, active and stalled jobs; a stalled one is found only when its lock expires, after others may have run, and fails the second time. A run of `process` goes on after its promise was rejected, as JavaScript cannot stop it. `kept` is what the filters of the wasm handler have left of a run's events. |

Computations:

| Module | Models | State and actions |
|---|---|---|
| `FormulaEnv` | `formulas/env.ts`, the `getWhereClauseForDependentKeys` of the event models, the snapshot helpers of `formulas/utils.ts` | Pure: a getter takes the rows and an environment (block, cache, dependent keys, events used) and returns its successor. A row is namespace, key, height and value; a dependent key an exact key, a prefix or one with wildcards. |
| `Compute` (extends it) | `formulas/compute.ts` | `compute`, and `computeRange` as a fold over the blocks of the range, with the events kept by key and the cache rebuilt from them. A formula is the sequence of getters it calls. Reference for the range: `compute` at each block. |
| `Computer` (extends it) | `server/routes/indexer/computer.ts`, `db/models/Computation.ts`, `db/computation.ts`, scripts `preCompute`, `revalidate` | A request is in a phase per await (`find`, `extend`, `missing`, `store`, ...); blocks are exported, rows written late and an import invalidates between any two. |

Services:

| Module | Models | State and actions |
|---|---|---|
| `AccountWebhooks` | routes of webhooks and code id sets, `AccountWebhook`, `AccountWebhookEvent`, `scripts/accountWebhooks.ts` | Routes validate what they read and write later: the columns first, then the code id sets taken out and added, a step each; a call can end between two of them. Firing reads the attempts, posts, and stores attempt and status after it. |
| `DepositWebhooks` | `AccountDepositWebhookRegistration`, its routes, `extractors/xion/depositWebhook.ts`, the extract jobs | The worker's cache, the query that fills it and the invalidation through Redis are separate steps; attempts of a job overlap after a timeout. |
| `WasmCodes` | `services/wasm-codes`, `wasmCodeTrackers` | A reload reads the database and applies later; the entries of the merged list that share their object with the defaults are kept as such. |
| `Transformations` | `transformers/utils.ts`, `transform.ts`, `queues/queues/transformations.ts` | `storage` is the contract by height, `batches` what is still to be exported; a job pages over `(height, key)` while rows are added. |
| `NodeClient` | `AutoCosmWasmClient`, `BlockTimeFetcher.ts`, `getCodeId` of the wasm handler | The node goes down and up, prunes and limits; a wait races an event and its timeout; several `update`s overlap. |
| `Credits` | `AccountKey`, `AccountKeyCredit`, `paymentWebhook`, charging in the computer route | A request finds a credit in one step and increments its two columns in others; a notification may be delivered again. |

Formulas and the jobs that feed them:

| Module | Models | State and actions |
|---|---|---|
| `Proposals` | `contract/proposal/utils/*`, `intoResponse` of both proposal formulas | The module contract votes, delegates, revotes, executes, closes, vetoes; status, timelock and dates are worked out from what it stored. |
| `VotingPower` | `formulas/utils.ts` (snapshot maps, vector maps, wormholes), `contract/voting`, `contract/staking`, `contract/delegation`, `external/cw4Group.ts` | The contracts' stores with their changelogs; `past[h]` is what there was when block h began, the reference. |
| `DaoTree` | `getUniqueSubDaosInTree`, `indexToProposalModulePrefix` | The walk over any graph of SubDAOs; the prefixes in order. |
| `DaoCore` | `extractors/dao.ts`, `contract/daoCore/{base,items,dump}.ts` | A DAO, its jobs, several at a time and each with a step per query and page, the exit for an unknown code id, the three sources a formula chooses from. |
| `ProposalModule` | `extractors/proposal.ts`, `sync-extractors.ts`, `transformers/proposal`, lists and votes of the proposal formulas | Three writers and three tables; a client that walks pages. |
| `NftStaking` | `extractors/nftStakeUpdate.ts`, `daoVotingCw721Staked.ts`, `daoVotingOnftStaked.ts` | Jobs with a step per query and page, the exit for an unknown code id; formulas over extractions and over state. |
| `Recovery` | `services/contract-state-recovery.ts` and its queue | Pages of the node's present, compared with the latest events and stored under one height, beside the exporter, its lost blocks and its webhooks. |
| `StateImport` | `services/contract-state-import.ts` and its script, `hasAuthenticator`, the formulas `authenticatorIdentities` and `accountsByAuthenticator` | Snapshot by snapshot, validated, told by a dry run, saved, transformed and transformed again, invalidating stored computations, verified in both directions, dying anywhere. |

`MC*` modules give the constants their values; `*Proofs` hold the theorems
(section 5): `TracerProofs`, `ListenerProofs` of the listener and its iterator,
`ChainWebSocketListenerProofs`, `ExportQueueProofs`, `ServicesProofs` of `Credits`,
`AccountWebhooks`, `WasmCodes`, `DepositWebhooks`, `NodeClient`, `Recovery` and
`StateImport`, `DaoProofs` of `DaoTree`, `DaoCore`, `NftStaking` and `ProposalModule`,
and `VotingProofs` of `VotingPower` and `Proposals`. `Induction` holds the lemmas on induction,
recursion, least and greatest elements and pages that the last ones use.
`MCServices`, `MCFormulas` and `MCIndexing` compose components that share no
state: a behaviour has a `focus`, one component that acts, while the others stay
in one state. The composed state space is then the union of the components', not
their product, and the component at rest has no fair action enabled, so the
fairness of the conjunction asks nothing of it.

Data is abstracted to what the properties tell apart: a trace or an event is
its position in the FIFO, its block and its key; a transaction is one job; a
row holds what identifies the value last written; a key is a tuple of numbers in
the order of the store. Left out: the text of lines, keys and values and their
decoding, metrics, logging, formatting of responses, authentication, search
index updates, and `Block` rows. The nested retries of a handler are one `Tries`;
rate-limit waits do not count as tries and are left out.

## 3. What TLC checks

All processes may stop (a process exits, an iteration ends, jobs and blocks are
bounded), so deadlock is not checked; that work which should be done is done is
what the liveness properties check. A property with several parts is the
conjunction of named definitions, each with its own comment in its module.

### Tracer

`tracer`: three traces of two blocks matching none, one or two handlers,
batches of 3 items, an outbound queue of 1, two overlapping debounced exports,
one failing export of Redis (either addition or both). These are the smallest
values for which a batch fills up, a block ends in the middle, the queue pauses
and resumes with traces left inbound, and three exports overlap.

* `Backpressure`, `QueuesKeepOrder`: pausing neither passes the limit, nor strands,
  drops or reorders traces.
* `BatchesAreSound`: jobs hold one block and never an older write than an earlier
  job, which the handlers' upserts rely on; a pending batch always has somebody
  who will export it.
* `LossNeedsOverlap`: an item pushed while no other export waited is pending until
  both queues have it, whichever addition fails.
* `FlushedOnExit`, and `PendingDrains` and `ShutdownCompletes`, liveness, under weak
  fairness of the worker's continuations, Redis' replies, timers and intervals,
  which Node's event loop runs when due. The node need not write and nobody need
  close the FIFO.

`tracer_lost` (violation): `README.md` promises that no data is lost, but a
trace pushed while a debounced export waits for Redis is cleared with that
export (`BatchedTraceExporter.ts:205`).

### Block iterator and listener

`iterator`: every start height, an end height of 4, a buffer of 2, errors of
blocks and of transactions, a pruning node. `NoGap` (every height between consumer
and fetcher is buffered or in flight, once), `BufferBounded`, `ResolvesAtEnd`.
Four heights let the fetcher go through two full rounds of its list of fetches; a
start margin of 0 lets an iteration begin at each of them.
`BlocksAreReached` and `StopWhileIteratingEnds` are liveness. Fairness: timers fire,
the node answers polls and fetches (retries are bounded), callbacks return.
WebSocket events and new blocks need not come. `BufferBounded` is what the code
keeps: buffered and in-flight blocks stay below twice `bufferSize`, since the size
is compared when a fetch starts and not when it settles.

`listener_cursor`: four blocks, two restarts at any point, and export workers that
move the same cursor to any block of the chain. `BelowCursorQueued`:
although the cursor moves before a block's transactions are queued, a crash
loses none, because the restart begins at the cursor's block; only blocks below
one that an export moved the cursor to are exempt. `RestartRepeatsOneBlock`: nor
does a restart repeat more than the cursor's block.

### WebSocket client

`websocket`: four calls of the owner and three failures in any order, with
the port probed first. `Cancellable` and `ImplementsConnection`, the refinement
of `Connection` (live sockets are the attempts whose socket is connecting or
open; the mapping is the identity otherwise). Four calls allow
connect, disconnect, connect, disconnect around a lost connection.
`Reconnects` is liveness. Fairness: continuations and timers run and handshakes
complete; failures are bounded, so an attempt succeeds in the end.

### Export worker

`export`: one block in two jobs that write the same contract key and, the second, a
balance (with history) that the first wrote, then a job of the next block with a key
outside the allowlist and one of an excluded contract. The contract of the keys has no
code id at first: the second job has the event of its instantiation, and before it a
look-up may find nothing. Only known codes are exported. Two attempts of two tries, a
failing call, a timeout and a crash: a job is rejected while its handlers run on, or
stalls, and is overtaken before it runs again.
`CompletedIsHandled` (a completed job is in the tables, and its account webhooks
were queued unless a newer block was exported before, but for events the filters drop:
those outside the allowlist, and those of contracts whose code is not a known one or
whose look-up once failed) and `WritesGoForward` (a balance never goes back to an
older block; a row only by a job that was retried or put back). The real numbers are 3
attempts and 3 tries; a third of either repeats the same step. The look-ups of a try
are one step, and so is the cache of their failures.

`export_live`: two jobs, one try of a handler, a failure, a timeout and two crashes, so
that a job stalls once more than BullMQ allows: `JobsEnd`. Fairness: the worker takes
jobs, delays end, locks of stalled jobs expire and the awaited run's handlers get on;
a run that timed out need not.

### Computations

`compute`: eleven formulas, each a few getters as the repository's formulas
combine them, over every way to write two or three rows in three blocks; queries by
block and by time, with and without steps; the `preCompute` and `revalidate`
scripts. The first formula also has two requests or scripts in a behaviour and a
row that is written late or imported. Two rows and three blocks suffice for a
change before, at and after each end of a range; values are "set" and "deleted".

* `AnswersAgreeWithCompute`: a range, from the table or computed, holds at every
  block what a query for that block alone answers; a stepped query has every step.
* `StoredIsRight`: a stored computation holds wherever it claims to be valid, unless
  a row below was written late, or an import's invalidation was overtaken by a
  computation in flight.
* `RevalidateRepairs`: revalidation makes a computation right even then.

`compute_range` (violation): the same range property for a formula that reads a
snapshot at the current height, which is what every voting module does.
`computeRange` computes again only at blocks with events of its dependencies, and
such a value changes one block later. It is the one formula of this run. `MCComputer`
lists further formulas whose ranges differ from single computations, each for a reason
of its own (`FurtherRangeFormulas`, in no configuration): first-set dates with prefetched rows, pages of proposals and votes, the
community pool (not among the models whose events are looked up), wildcards,
transaction events, and prefetched null transformations.

### Services

`services`, with one component acting per behaviour; the sizes are sets of bounds
in `MCServices`, so that each combination of edits, failures and repetitions that
matters is there without their product.
`ServicesRecover` is the conjunction of what the services come to under their
fairness, told below with each.

* `WebhooksAreSound`: a webhook is without a filter only after a deleted code id set,
  two updates at once or an edit that ended between two of its writes, or until the
  edit that created or changed it has added its sets; an event is given up only after `MAX_ATTEMPTS` earlier
  attempts, and the number of automatic ones is bounded, however firings by hand and
  restarts of the script overlap. `EventsSettleForGood`: every event is delivered
  or given up, and a delivery is not taken back except by a firing already under
  way. Fairness: the script's loop goes on (`Fire`).
* `DepositsAreSound`: registrations keep a wallet and an asset; one deposit has one
  idempotency key over retries unless its registration changed, and two never share
  one; the worker's list is fresh or about to be. `CacheCatchesUp`: a stale list does
  not stay.
  Fairness: the cache expires and published invalidations arrive.
* `CodesAreKnown`: configured codes are always known, tracked ones were matched and
  removed ones are forgotten. `SavedBecomesKnown`: those that are saved become known.
  Fairness: the timer, and reloads that were started end.
* `TransformationsAreRight`: items are right at every settled height in whatever
  batches events came, twice or transformed again; lists too if no block was split,
  repeated or removed from; a job covers what there was when it started, repairs and
  ends although blocks are exported meanwhile. Fairness: the exporter and the job
  go on.
* `NodeIsKnown`: a time of 0 and an unknown code id need a failure or a miss; an
  event's time is kept. `NodeRecovers`: a fetch ends; a client comes back after the
  node did.
  Fairness: the node comes back, waits time out, loads and updates return.

### Formulas

`formulas`:

* `CreditsAreSound`: three requests at once, ranges and payments in parts. More is
  spent than there is only where requests overlapped; what was paid is credited to
  half a credit a notification.
* `PowersAgree`: over every history of four blocks with three members, two delegates and four changes,
  a delegation expiring after three, so that it may also be revoked before,
  power, totals, delegations and the cap at each height are what there was when the
  block began; totals are sums; shares add up except at a block that changed a stake;
  pages find every staker; the wormhole and the vector map of delegations tell the
  same; what a delegate has left is what was delegated by members that did not vote.
* `TreeIsNamed`: over every graph of the DAOs the walk finds exactly the reachable
  ones; prefixes are distinct and in order over two lengths.
* `StatusIsKept`: over every threshold, quorum, minimum period, veto, revoting and
  delegated vote, a reported outcome is final, a timelock keeps its end, and what the
  contract completed is dated.

### Indexing

`indexing`:

* `StakingSettles`: three blocks, two tokens, two stakers, pages of 1, one failure, the
  code id known from the start or learnt later. Once the jobs are done a staker's tokens
  and share are the contract's unless the job of its last event failed for good or was
  ignored; stakers, shares and owners are if none was; totals are right at heights
  whose jobs were in time.
* `ModuleSettles`: two proposals, two voters, pages of 1, with events only, with a
  listener, one started late, a failing job, or a sync. Once the table that answers
  is complete, lists, votes and open proposals are the module's; votes are dated by
  their block, or later after a sync; a client that walks pages misses nothing and
  sees nothing twice unless the table that answers changed under it.
* `RecoveryIsSound`: one job over three blocks or two over two, one lost block; or
  two over three blocks that change one key, two of them lost. The first size has
  every order of a job and the exporter, the second of two jobs; the third lets a key
  change and change back with both changes lost. The two jobs are interchangeable,
  and so are the two stakers (`IndexingSymmetry`). A finished recovery that no older one overtook leaves live
  keys right; events are dated right unless pages were read after later blocks;
  webhooks are dropped only below a recovery's height.
* `ImportIsSound`: an export of three heights with any of its events and of their
  transformations missing, an authenticator with a name or with one that is too long,
  the chain's answer missing, the contract under another code, two runs. Snapshots are
  stored, a second run writes nothing, a dry run tells what is
  written, stored computations are right after the invalidation even if an earlier
  run died before it. The verification fails only if there is nothing to compare with,
  the contract or the name cannot be looked up, or a change was missed that no snapshot
  can tell: a removal, or one after the last snapshot.
* `DaoSettles`: three operations, pages of 1, two runs at a time (10 in the code, of
  which each sees of the others only what they saved), a lost and a repeated job, the
  code id known from the start or learnt later. Once the jobs are done the formulas
  answer what the DAO holds if the job of its last change was not lost or ignored.

### Mutants

Every property of a passing run has a mutant in `PROJECT.json`: the definition of a
handler with a plausible bug, under which TLC finds that property violated. The
other definitions named `Mut...` or `<definition>_<variant>` break the remaining
parts of the conjunctions in the same way, under the same configurations.

## 4. Where the code and what is said of it differ

Two differences are runs (`tracer_lost`, `compute_range`, see above and `findings`).
The following are stated as properties that the code does not meet. They are in
no configuration; adding one to that of the run named shows the behaviour.

| Property (run) | Code | What is said |
|---|---|---|
| `OutboundHasWorker` (`tracer`) | `TracerManager.ts:122`: with empty queues the resume interval stores a settled promise in the worker's handle, after which nothing exports the outbound queue | `:113` "Ensure the worker is exporting the outbound queue." |
| `StopEnds` (`iterator`) | `BlockIterator.ts:315`: a `stopFetching` before `startFetching` is overwritten | comment at `:302` |
| `ResumesWithoutGap` (`listener_cursor`) | `listener.ts:115`: a restart after an export moved the cursor ahead skips the blocks in between | `contract-state-import.ts:352` on what moving the cursor would do |
| `RowsKeepLastWrite` (`export`) | `wasm.ts:500`: a retried job overwrites newer values of the same block | comment at `:496` |
| `BalanceIsLatest` (`export`) | `bank.ts:224`: a block's second batch never updates a balance | comment at `:177` |
| `RemovingKeepsOthers` (`services`) | `transform.ts:94`: a removed key stores null for the whole list | `transformers/utils.ts:105` takes only the key out of the list |
| `RejectedIsFinal` (`formulas`) | `proposal/utils/math.ts:52`: `1 - Number(percent)` in floating point is too low for 0.9 or 0.67, so a proposal that can still pass is reported as rejected | `:37` refers to the contract's exact arithmetic |

Further observations made while modelling; the properties above are stated so that
they show exactly where these end, by a ghost or an exception:

* An error of `queueWebhooks` is logged and the job completes (`export.ts:112`), though
  `docs/webhooks.md:26` promises delivery at least once.
* `latestBlockHeight` is ahead of the exported events, and nothing invalidates
  computations for rows exported late (`db/computation.ts:49` returns at once):
  `StoredIsRight` excuses those rows.
* `getTransformationMatches` caches under the name alone, whatever the filter; the
  page of `getProposals` at an offset loses earlier ids in a range.
* A range that ends before it starts costs no credits; a notification delivered
  twice is credited twice; automatic attempts are `MAX_ATTEMPTS + 1`.
* Deleting a code id set can leave a webhook that matches everything.
* The index in a deposit's idempotency key counts coins the registration allows, so
  editing the registration between two attempts changes it.
* A query of registrations that started before an invalidation is cached after it.
* Reloading wasm codes changes the list of defaults through shared objects.
* Shares of stakers at a block that changed a stake use the total of its start.
* A block split over two batches makes a list transformation lose keys.
* A look-up of a code id that fails is cached as 0; where only known codes are exported
  the job then completes without the contract's events (`wasm.ts:490`), and nothing
  exports them later.
* A webhook is created, and changed, before its code id sets are
  (`createWebhook.ts:188`, `updateWebhook.ts:215`): until then, or for good if the server
  dies in between or a set was deleted meanwhile, one that is filtered by sets alone
  matches everything.
* A late NFT job saves later totals under its old block; deletions are never
  recovered; a sync dates votes by its start; a job of a contract whose code id is
  unknown saves nothing and completes.
* An extraction hides fresher events, and the first one of a module every proposal
  that only transformations or events have.
* Two recoveries of one contract at once may leave a key at an old value for good
  (`contract-state-recovery.ts`, the comparison with the stored events and the write
  after it are not one step): a key goes from a to b and back to a, both changes are
  lost, the recovery at the later height skips the key because the stored value is
  the newest, and the one at the lower height then writes b. `overtaken` in
  `Recovery` marks the recoveries this may happen to. The attempt to prove
  `RecoveryIsSound` showed it, beyond the bounds TLC had been given; the third size
  now has it.
* A recovery moves `lastWasmBlockHeightExported` past blocks that are still to be
  exported, whose webhooks are then dropped.

## 5. What is proved

For every value of the constants that the named assumptions of the modules allow,
the bounds on heights, jobs, requests, failures and restarts included. The
assumptions say that sizes and limits are naturals, that batches, pages and numbers
of attempts are positive, and that the values that stand for "nothing" are not data.
Some say more:

* `ExportQueueAssumption`: a job holds one block, with one item per key, and later
  jobs hold no older write. That is `BatchesAreSound`, which is proved of the tracer
  that makes the jobs.
* `ListenerAssumption`: `ThrowBlock = TRUE`. `scripts/listener.ts:116-118` sets only
  `throwErrors.tx`, and `BlockIterator.ts:149` makes `block` true by default.
* `WebhooksAssumption`, `ImportAssumption`, `NftStakingAssumption`, `PmAssumption`,
  `VotingPowerAssumption`: an account has finitely many webhooks, an export finitely
  many keys, a collection finitely many tokens, a proposal module finitely many
  voters, a voting module finitely many members. A cap of the voting power is a part
  of the whole, not more.
* `DepositsBeginAssumption`: the registrations there are at first are valid, a `MsgSend` has
  one output, and the coins of one transfer are of different denominations, as the
  chain's bank module demands. Were one listed twice, the index of a coin would still
  tell the two keys apart, but a deposit could no longer be named by its denomination.
* `DaoTreeAssumption`: the alphabet has at least two letters (26 in the code).
* `ProposalsAssumption`: the precision is at least 100 (10^9 in `proposals/math.ts:4`),
  portions are in hundredths, and a proposal is as the contract makes it: a passing
  percentage is not 0, and a minimum voting period ends before the expiration.

`ImportAssumption` says nothing of when a contract changes: it may do so after the
last snapshot, and between any two.

Each theorem is of the form `Spec => []Inv` and is proved from an inductive
invariant, which TLC checked on the run's instance before the proof was tried
(except `PowersInv`, which speaks of all heights). The parts of the larger invariants are operators over tables, queues or rows, not over
the variables, so that one lemma moves them from any state to the next.

| Module | Theorems | Inductive invariant |
|---|---|---|
| `TracerProofs` | `TypeCorrect`, `BackpressureHolds`, `OrderIsKept`; `BatchesHold`, `OnlyOverlapLoses`, `ExitIsFlushed` | `QueueInv`; `TracerInv` |
| `ListenerProofs` | `TypeCorrect`, `BufferIsBounded`, `NoBlockIsSkipped`, `ResolvedIsComplete`; `ListenerTypeCorrect`, `RestartsIterate`, `CursorIsSound`, `OneBlockIsRepeated` | `IndInv`; `ListenerInv` |
| `ChainWebSocketListenerProofs` | `TypeCorrect`, `CancellableHolds`, `ImplementsTheConnection` | `WSInv` |
| `ExportQueueProofs` | `ExportTypeCorrect`, `CompletedHolds`, `WritesHold` | `ExportInv` |
| `ServicesProofs` | `CreditsHold`; `WebhooksHold`, `DeliveryIsKept`; `CodesHold`; `DepositsHold`; `NodeHolds`; `RecoveryHolds`; `ImportHolds` | `CreditsInv`; `FilterInv`, `FireInv`; `CodesInv`; `DepositsInv`; `NodeInv`; `RecoveryInv`; `ImportInv` |
| `DaoProofs` | `TreeHolds`; `DaoHolds`; `StakingHolds`; `ProposalsHold` | `WalkInv`; `DaoInv`; `NftInv`; `PmInv` |
| `VotingProofs` | `PowersHold`; `ProposalsKeep` | `PowersInv`; `ProposalsInv` |

**Tracer queues.** The order of the queues alone is not inductive: moving traces
between them keeps their concatenation only while the inbound queue is empty when
not paused, which is `Backpressure`. `QueueInv` is the conjunction of the three.

**Batches.** That the export queue never goes back needs the order of everything
between the FIFO and the queue: `FifoOrder` says that what was pushed precedes the
trace the worker holds, which precedes those that wait. `BatchInv` says that the
pending batch is of one block, in order, and that what it would add follows the jobs
in the queue; so any of the overlapping exports may add it. `KeptInv` is the reason
that only overlapping exports lose items: an item pushed while no reply was
outstanding is in its queues, or is in the batch while no export that will clear the
batch waits for its reply. The last write of a key in a batch exists for every batch
by the principle of the least natural number (`NatLessThanWellFounded`, `WFMin`),
which stands in for the induction the prover cannot do.

**Iterator.** `IndInv` adds to the properties `SizeInv` (fetches in flight are those
launched in this round, at most `BufferSize` of them, so that a launch with fewer
than `BufferSize` buffered keeps the bound), `ControlInv` (nothing is buffered or in
flight before the start or after the fetcher stopped) and `RangeInv` (the fetcher
passes the end height only by one). Cardinalities come from `FiniteSetTheorems`.

**Listener.** A step of the listener is a step of its iterator with the cursor moved
or a job queued, or a restart, after which the iterator is as at its start:
`RestartsIterate` carries the iterator's invariants over. For the cursor, `EmitInv`
says that what is left of the block being emitted is a suffix of its callbacks and
that the transactions before it are queued, `DoneInv` that blocks behind are, back
through earlier runs of the process, and `CursorInv` where the cursor may be.

**WebSocket client.** `Cancellable` needs that only the last attempt is unsettled or
has a socket (`AttemptInv`), and only the current generation's loop waits
(`LoopInv`). `Budget` says by which requests and failures generations and attempts
are paid for; without it the bounded arrays of the model could overflow. In the
refinement every step is one of five (`Asks`, `Dials`, `Establishes`, `Closes`,
`Stays`), and these are steps of `Connection` or stutters.

**Export queue.** `StageInv` says what a run's handlers have done by the stage they
are at, for runs that outlived their attempt too, and everything it says is
monotone in the tables, which only grow (`Grown`). What a run has filtered out is what
may be missing (`KeptOK`), and stays so: the codes that are stored and the look-ups that
failed only become more. A job is in one place while it has attempts left and has not
stalled too often (`PlaceInv`, `Left`). That no write goes back needs that
no job overtakes one that was neither attempted nor stalled before (`OrderInv`), hence
that what is in the tables comes from jobs before it (`OlderInv`). `WritesHold` is an
action property and follows from these for each step: a row goes back only by a job
that is repeated, after a failure or because it stalled.

**Recovery.** `ReadOK` and `PagesOK` say of the pages read so far that each value was
the state at some height since the job began, and that no key that lived all the
while is missing. `ComparedOK` carries over the gap between comparing and
writing: the latest event is still the one compared with, or there is one beyond the
job, which newer blocks wrote. `SavedOK` carries over what follows the write. Together with
`ExportedOK` (the exporter wrote each change it did not lose) they give the state at
the tip. An older recovery that writes in the gap breaks `ComparedOK`; see section 4.

**Import.** Snapshots are written in ascending order and a row written under one
height does not change what is stored at lower heights (`RowsAreTrue`: every row is
the history's value at its height), so what was stored for a snapshot stays stored
(`ImportRunInv`). A dry run is a recursive function of the height; `ToldInv` says that a
run which has come to a height has written what that function counted there, and
that its rows read like the rows of the dry run laid under its pending events
(`AsDry`). `RangesInv` says where a stored range is right until the run that changes
a row below it invalidates it, through runs that died in between. `NamesInv` says that
once `transformContracts` is over every stored authenticator can be looked up by name,
those included that a run saved before it died. For `FailureHasACause` every key has a
block of its last change (`LastChangeOf`, by `NoneChanged`): a key that is shown wrongly
has been wrong since that block, so that change was missed and no snapshot came after it.

**Credits.** That overspending needs an overlap needs `AloneInv`: at most one request
is pending on a credit where none overlapped. The bound on rounding, half a credit
for each notification, adds up over notifications in `PaymentError`.

**Webhooks.** A route writes the row, then removes code id sets, then adds others, and
may end after any of these. `FilterInv` says of a webhook that nothing unsettled (no
overlapping call, no call cut short, no set deleted) that it has a filter or that one
call is under way whose writes to come give it one (`Promise`). `FireInv` bounds the script's attempts
at an event by `Spare`: `MAX_ATTEMPTS`, one for each stop and one for each firing by
hand that is over. The bound is not inductive as the property states it, since a
firing by hand under way has been counted but can still put the event back to
retrying; and the script's own firing relates the attempts it has seen to those that
were made (`FiringKnown`). `DeliveryIsKept` is the safety part of
`EventsSettleForGood`.

**Codes.** The list in memory shares sets with the defaults, so a reload changes both.
`DefaultsInv` says how far that goes: the defaults are the configuration and at most
what was merged, and the list has the configuration. A reload that was overtaken can take back what is saved (which is why `SavedBecomesKnown` needs the
timer) but not what is configured.

**Deposits.** Two deposits of a transfer are told apart by their keys because the key
names the wallet, the output and the asset (`Told`, which holds of every extraction
whatever became of its registration), and one deposit has one key because an
extraction of a registration that has not changed since the first list was read was
drawn from the registration there is (`Drawn`, `KnownInv`): registrations as old as
that are in every list. Freshness needs of attempts that still query that what they
were answered is fresh too (`CacheInv`), since it will be cached. An update in flight that raced
with nothing makes a valid registration (`PendingValid`).

**Node.** The cache is a sequence in which a height is set by removing its entry and
appending one; `TimesOK`, `RemoveAtIs` and `IsSet` say what is in it after. `TimeInv` says
of the fetch under way that its height is not one whose event's time counts as kept,
so that a failure overwrites none of those. `ChainIdNeedsQuery` is inductive as it
stands, since a client is only ever set by an update that goes on to the query.

**Recursion.** A recursive function is not known to the prover until one is shown to
exist that satisfies its equation. `Induction` shows it once (`Recursion`), for
functions over the naturals whose value at n comes from the value at a smaller
number; induction itself is applied to sets (`Successors`, `AllBelow`), since a theorem
with an operator for a parameter cannot be instantiated. `Prefix`, `Reach` and the
function of a dry run are instances.

**DAO tree.** The walk has seen only what the root reaches, and the SubDAOs of what it
has seen are seen or pending; when nothing is pending what was seen is closed, hence
everything reachable. A set that grows by a step of `Reach` cannot grow more often
than there are DAOs, so `Cardinality(Daos)` steps are enough. Prefixes follow by
induction on the index: the next index carries to the letter before exactly when the
last letter is the last of the alphabet.

**DAO dumps and staked NFTs.** The extractors save under the block of an event what
the node answers at a later block. `DaoInv` and `NftInv` say of every value that was
read for block h, in a job or in a row, that it is the present one unless something
changed it since h (`SameConfig`, `SameStaker`, `SameToken`, ...), and that every
block that changed something has a job, a row or was lost: one whose attempts all failed, and one
that completed without a row since the code id was not known. Any number of jobs are at
work, each with what its queries have answered so far, and a run
that timed out may go on beside the one that repeats it. Pages are read one at a time, so what is said of a
token holds of each page since it was read. Once no job is left, the row of the last
change is the latest, and nothing changed since it. For totals, which are read from
the block before the node's, it is being late that is recorded (`TotalOK`).

**Proposal modules.** Here three writers fill three tables, each at its own pace.
`PmInv` has for every table what its rows say (`RowOK`: a row is the present unless
its proposal or vote changed since the row's block) and what it has (`Complete`: the
last change of everything up to the block that was exported). For the extractor's
table completeness is in three places: the last change is in a row, a job is
to ask for it, or a sync is still to list it (`AllCovered`, `SyncCovers`). That a
sync lists everything although proposals and votes are added under it needs that a
page takes all that lies between two cursors (`PageOK`, proved in `PageIs` from
counting), and that what was made behind the cursor has a job of its own. A vote is
dated exactly only while no sync began (`dated`), since a sync's jobs carry a later
block than the votes they ask for. The walk of a client is `ClientOK`: what it was to
find and its cursor has passed is in the pages it saw, as long as one table answers.

**Voting power.** `PowersInv` compares what is indexed with `past`, what the contracts
held as each block began. A changelog has at most one entry per block (`IsSnap`), so a
change made in a block leaves every load at that block and before it as it was and
gives the new value after it (`SnapSaved`): this keeps balances (`BalancesOK`),
delegates (`DelegatesOK`), the cap (`CapOK`) and the vectors of delegations
(`DelegationsOK`) level with `past` at every height so far. Of a wormhole that is not
enough: it is written for heights to come, when delegations expire. `Counts` says that
at every height, reached or not, it loads the number of members whose delegation to
the delegate is active there. A new delegation adds one from the next block on and
takes it back at its expiration; a revocation cancels both. `BallotOK` says of an open
proposal how many of a delegate's members have not voted. From these follow the parts
of `PowersAgree`: totals and shares by lemmas on sums over a finite set (the library's
sum is a fold, hence a recursive function, which is first shown to exist), and the
pages of stakers from a cursor below which everything was read.

**Proposals.** A status is a function of the votes and of whether the proposal is
expired. For each kind of threshold, a proposal that would pass whatever the votes to come
still passes after one of them and later (`PassKeeps`), and one that cannot pass any more
never does (`FailForbids`); with several options, one that leads beyond reach stays there
(`Beats`, `BeatsForGood`). Both comparisons are of products, which are divided out once
(`SinglePassKeeps`, `MultiplePassKeeps` and their counterparts), and once a proposal is
expired its votes are settled. What rounding moves is a rejection only. For the dates,
`LogFits` says that the statuses that were written have heights that are not in the
future and that the present one is among them.

Only model-checked, and why:

* liveness (`PendingDrains`, `ShutdownCompletes`, `BlocksAreReached`,
  `StopWhileIteratingEnds`, `Reconnects`, `JobsEnd`, `ServicesRecover`): fairness and
  `ENABLED` are beyond the prover here;
* what `computeRange` and the folds of `FormulaEnv` compute, and the properties of
  `Computer` that rest on them: they fold over sequences of rows with an
  environment, which would need an induction of its own for each getter;
* `TransformationsAreRight`: what a batch of events is transformed to is a fold over
  the batch, and what a job covers a count over pages of a sorted sequence.

## 6. Not modelled, and plan

Not modelled:

* gov, feegrant and distribution handlers: the shape of the bank handler (decode, keep
  the newest event of a key, upsert); how their rows are read is `FormulaEnv`'s.
* Background export, search, webhook and code tracker queues: jobs that call one
  service or endpoint and keep nothing between calls.
* Formulas other than those of proposals, voting, staking, delegation and DAOs:
  several hundred independent queries over the indexed state.
* Of the import: `--verify-only`; the verification at the end of a dry run, whose result
  is ignored; what ends the script before it starts (another chain, an export above the
  indexer, no tracked code id); and more candidates of a name than it looks through. The
  names are read by formulas that no stored range of the model is of.
* The `contractAddresses` of a code tracker.
* Claims, pre-propose modules, balances and TVL of DAOs; the contract and RBAM
  extractors; the decoding of transactions; logging in and managing keys; routes that
  only read; key and value decoding of the handlers.
* Aggregators, search indexers, configuration and migrations: declarative.

Next:

* claims and pre-propose modules beside `NftStaking` and `ProposalModule`;
* `StoredIsRight` for one formula at a time, from a lemma on what each getter of
  `FormulaEnv` depends on.
