----------------------------- MODULE BlockIterator -----------------------------
(***************************************************************************)
(* src/services/BlockIterator.ts: blocks are fetched in parallel ahead of  *)
(* the consumer, buffered by height, and handed to the callbacks one       *)
(* height after the other.  The fetcher, the fetches in flight, the        *)
(* consumer and the tracker of the chain's height interleave at awaits.    *)
(***************************************************************************)
EXTENDS Integers, Sequences, FiniteSets

CONSTANTS BufferSize,      \* this.bufferSize
          EndHeight,       \* this.endHeight, 0 if there is none
          ThrowBlock,      \* this.throwErrors.block
          ThrowTx,         \* this.throwErrors.tx
          MinStartMargin,  \* the 10 blocks kept clear of the node's pruning
          TxLists,         \* what the transactions of a block can be
          MaxHeight        \* bound: the height the chain reaches

ASSUME IteratorAssumption ==
  /\ BufferSize \in Nat \ {0}
  /\ EndHeight \in Nat
  /\ ThrowBlock \in BOOLEAN
  /\ ThrowTx \in BOOLEAN
  /\ MinStartMargin \in Nat
  /\ TxLists \subseteq Seq({"tx", "txError"})
  /\ MaxHeight \in Nat \ {0}

VARIABLES
  chainHeight,         \* the node's latest block
  earliestBlockHeight, \* the oldest block the node still has
  startHeight,         \* this._startHeight
  fetching,            \* this.fetching
  fetcher,             \* where startFetching is
  fetchHeight,         \* this.fetchHeight
  launched,            \* fetchingBlocks.length
  inFlight,            \* heights whose fetchBlockData has not settled
  buffer,              \* this.buffer: height -> callbacks its item calls for
  latestBlockHeight,   \* this.latestBlockHeight
  polled,              \* the height a poll's answer carries, 0 if none is due
  consumer,            \* where iterate is
  currentHeight,       \* this.currentHeight
  remaining,           \* callbacks left of the item being emitted
  stopRequested        \* history: stopFetching was called from outside

nodeVars == <<chainHeight, earliestBlockHeight>>
trackerVars == <<latestBlockHeight, polled>>
fetcherVars == <<fetching, fetcher, fetchHeight, launched, inFlight, trackerVars>>
consumerVars == <<startHeight, consumer, currentHeight, remaining>>
iteratorVars == <<nodeVars, fetcherVars, consumerVars, buffer, stopRequested>>

FetcherStates == {"idle", "tracking", "looping", "settling", "finishing", "stopped"}
ConsumerStates == {"starting", "polling", "emitting", "resolved", "rejected"}

\* The callbacks of a buffered item: a block that could not be loaded, or the
\* block followed by its transactions in order.
BlockError == <<"blockError">>
Items == {BlockError} \cup {<<"block">> \o txs : txs \in TxLists}

Ended == consumer \in {"resolved", "rejected"}

\* A BlockIterator as constructed, with no start height (0) or any other, at a
\* node that has its blocks from 1 on.
IteratorInit ==
  /\ chainHeight \in 1..MaxHeight
  /\ earliestBlockHeight = 1
  /\ startHeight \in 0..MaxHeight
  /\ fetching = FALSE
  /\ fetcher = "idle"
  /\ fetchHeight = 0
  /\ launched = 0
  /\ inFlight = {}
  /\ buffer = <<>>
  /\ latestBlockHeight = 0
  /\ polled = 0
  /\ consumer = "starting"
  /\ currentHeight = 0
  /\ remaining = <<>>
  /\ stopRequested = FALSE

-------------------------------------------------------------------------------
\* The node (external).

\* A block is committed.
NewBlock ==
  /\ chainHeight < MaxHeight
  /\ chainHeight' = chainHeight + 1
  /\ UNCHANGED <<earliestBlockHeight, fetcherVars, consumerVars, buffer, stopRequested>>

\* The node prunes its oldest block.
Prune ==
  /\ earliestBlockHeight < chainHeight
  /\ earliestBlockHeight' = earliestBlockHeight + 1
  /\ UNCHANGED <<chainHeight, fetcherVars, consumerVars, buffer, stopRequested>>

-------------------------------------------------------------------------------
\* iterate, up to its loop.

MinStartHeight == earliestBlockHeight + MinStartMargin

StartTooLow == startHeight > 0 /\ startHeight < MinStartHeight

\* The node answers: the start height is raised above the pruned blocks, the
\* fetcher is started and the consumer enters its loop, unless the range is empty.
Start ==
  /\ consumer = "starting"
  /\ startHeight' = IF startHeight < MinStartHeight THEN MinStartHeight ELSE startHeight
  /\ IF EndHeight # 0 /\ EndHeight < startHeight'
     THEN /\ consumer' = "rejected"
          /\ UNCHANGED <<fetching, fetcher, fetchHeight, currentHeight>>
     ELSE /\ consumer' = "polling"
          /\ fetching' = TRUE
          /\ fetcher' = "tracking"
          /\ fetchHeight' = startHeight'
          /\ currentHeight' = startHeight'
  /\ UNCHANGED <<nodeVars, launched, inFlight, trackerVars, remaining, buffer, stopRequested>>

\* The node cannot be reached: iterate rejects.
StartFails ==
  /\ consumer = "starting"
  /\ consumer' = "rejected"
  /\ UNCHANGED <<nodeVars, fetcherVars, startHeight, currentHeight, remaining, buffer, stopRequested>>

-------------------------------------------------------------------------------
\* startFetching and fetchBlockData.

\* The first height received lets startFetching enter its loop.
Tracked == IF fetcher = "tracking" THEN "looping" ELSE fetcher

\* The first WebSocket attempt fails before any height is received.
FirstAttemptFails ==
  /\ fetching
  /\ fetcher = "tracking"
  /\ fetcher' = Tracked
  /\ UNCHANGED <<nodeVars, fetching, fetchHeight, launched, inFlight, trackerVars,
                 consumerVars, buffer, stopRequested>>

\* The WebSocket delivers the chain's latest block.
NewBlockEvent ==
  /\ fetching
  /\ latestBlockHeight # chainHeight
  /\ latestBlockHeight' = chainHeight
  /\ fetcher' = Tracked
  /\ UNCHANGED <<nodeVars, fetching, fetchHeight, launched, inFlight, polled,
                 consumerVars, buffer, stopRequested>>

\* The interval asks the node for its height; the answer is on its way.
PollHeight ==
  /\ fetching
  /\ polled = 0
  /\ polled' = chainHeight
  /\ UNCHANGED <<nodeVars, fetching, fetcher, fetchHeight, launched, inFlight,
                 latestBlockHeight, consumerVars, buffer, stopRequested>>

\* The answer is stored, although a newer block may have been seen meanwhile or
\* the tracking been stopped.
PollReturns ==
  /\ polled # 0
  /\ polled' = 0
  /\ latestBlockHeight' = polled
  /\ fetcher' = Tracked
  /\ UNCHANGED <<nodeVars, fetching, fetchHeight, launched, inFlight,
                 consumerVars, buffer, stopRequested>>

InRange == EndHeight = 0 \/ fetchHeight <= EndHeight

\* Mutant: the buffer is not checked.
MutMayFetchAlways == latestBlockHeight >= fetchHeight

\* Neither the buffer is full nor the block in the future.
MayFetch ==
  /\ Cardinality(DOMAIN buffer) < BufferSize
  /\ latestBlockHeight >= fetchHeight

\* Mutant: the list of fetches is not limited.
MutLaunchUnlimited ==
  /\ fetcher = "looping" /\ fetching /\ InRange /\ MayFetch
  /\ inFlight' = inFlight \cup {fetchHeight}
  /\ launched' = launched + 1
  /\ fetchHeight' = fetchHeight + 1
  /\ UNCHANGED <<nodeVars, fetching, fetcher, trackerVars, consumerVars, buffer, stopRequested>>

\* A block's fetch is started; the list of fetches being full is waited for
\* before the height is advanced.
Launch ==
  /\ fetcher = "looping" /\ fetching /\ InRange /\ MayFetch
  /\ inFlight' = inFlight \cup {fetchHeight}
  /\ launched' = launched + 1
  /\ IF launched + 1 >= BufferSize
     THEN fetcher' = "settling" /\ UNCHANGED fetchHeight
     ELSE fetchHeight' = fetchHeight + 1 /\ UNCHANGED fetcher
  /\ UNCHANGED <<nodeVars, fetching, trackerVars, consumerVars, buffer, stopRequested>>

\* Promise.allSettled in the loop.
AllSettled ==
  /\ fetcher = "settling"
  /\ inFlight = {}
  /\ fetcher' = "looping"
  /\ launched' = 0
  /\ fetchHeight' = fetchHeight + 1
  /\ UNCHANGED <<nodeVars, fetching, inFlight, trackerVars, consumerVars, buffer, stopRequested>>

\* The loop's condition fails.
LoopEnds ==
  /\ fetcher = "looping"
  /\ ~(fetching /\ InRange)
  /\ fetcher' = "finishing"
  /\ UNCHANGED <<nodeVars, fetching, fetchHeight, launched, inFlight, trackerVars,
                 consumerVars, buffer, stopRequested>>

\* Mutant: the remaining fetches are not waited for.
MutFetcherStopsEarly ==
  /\ fetcher = "finishing"
  /\ fetcher' = "stopped"
  /\ fetching' = FALSE
  /\ UNCHANGED <<nodeVars, fetchHeight, launched, inFlight, trackerVars,
                 consumerVars, buffer, stopRequested>>

\* The remaining fetches have settled: stopFetching.
FetcherStops ==
  /\ fetcher = "finishing"
  /\ inFlight = {}
  /\ fetcher' = "stopped"
  /\ fetching' = FALSE
  /\ UNCHANGED <<nodeVars, fetchHeight, launched, inFlight, trackerVars,
                 consumerVars, buffer, stopRequested>>

\* Mutant: a block is buffered without the block itself.
MutFetchTxsOnly(height, item) ==
  /\ height \in inFlight
  /\ height <= chainHeight
  /\ inFlight' = inFlight \ {height}
  /\ buffer' = [h \in DOMAIN buffer \cup {height} |->
                  IF h = height THEN Tail(item) ELSE buffer[h]]
  /\ UNCHANGED <<nodeVars, fetching, fetcher, fetchHeight, launched, trackerVars,
                 consumerVars, stopRequested>>

\* Mutant: a fetch that fails leaves nothing in the buffer.
MutFetchErrorDropped(height, item) ==
  /\ height \in inFlight
  /\ height <= chainHeight
  /\ inFlight' = inFlight \ {height}
  /\ buffer' = IF item = BlockError THEN buffer
               ELSE [h \in DOMAIN buffer \cup {height} |->
                       IF h = height THEN item ELSE buffer[h]]
  /\ UNCHANGED <<nodeVars, fetching, fetcher, fetchHeight, launched, trackerVars,
                 consumerVars, stopRequested>>

\* fetchBlockData(height) settles with a block, in the buffer, or with the error
\* of its retries.  A block not yet committed is fetched again.
FetchSettles(height, item) ==
  /\ height \in inFlight
  /\ height <= chainHeight
  /\ inFlight' = inFlight \ {height}
  /\ buffer' = [h \in DOMAIN buffer \cup {height} |->
                  IF h = height THEN item ELSE buffer[h]]
  /\ UNCHANGED <<nodeVars, fetching, fetcher, fetchHeight, launched, trackerVars,
                 consumerVars, stopRequested>>

-------------------------------------------------------------------------------
\* iterate's loop.

\* Mutant: the item stays in the buffer.
MutTakeKeeps ==
  /\ consumer = "polling"
  /\ currentHeight \in DOMAIN buffer
  /\ remaining' = buffer[currentHeight]
  /\ consumer' = "emitting"
  /\ UNCHANGED <<nodeVars, fetcherVars, startHeight, currentHeight, buffer, stopRequested>>

\* The item of the current height is there: it is taken out of the buffer.
Take ==
  /\ consumer = "polling"
  /\ currentHeight \in DOMAIN buffer
  /\ remaining' = buffer[currentHeight]
  /\ buffer' = [h \in DOMAIN buffer \ {currentHeight} |-> buffer[h]]
  /\ consumer' = "emitting"
  /\ UNCHANGED <<nodeVars, fetcherVars, startHeight, currentHeight, stopRequested>>

Callback == Head(remaining)

\* Whether the callback just made is that of an error that ends the iteration.
Throws == \/ Callback = "blockError" /\ ThrowBlock
          \/ Callback = "txError" /\ ThrowTx

\* The awaited callback returns; after the item's last one comes the next height.
CallbackReturns ==
  /\ consumer = "emitting"
  /\ ~Throws
  /\ remaining' = Tail(remaining)
  /\ IF Tail(remaining) = <<>>
     THEN consumer' = "polling" /\ currentHeight' = currentHeight + 1
     ELSE UNCHANGED <<consumer, currentHeight>>
  /\ UNCHANGED <<nodeVars, fetcherVars, startHeight, buffer, stopRequested>>

\* The error is thrown, or a callback (onBlock, onTx) rejects: the `finally`
\* stops the fetcher.
Rejects ==
  /\ consumer = "emitting"
  /\ Throws \/ Callback \in {"block", "tx"}
  /\ consumer' = "rejected"
  /\ fetching' = FALSE
  /\ UNCHANGED <<nodeVars, fetcher, fetchHeight, launched, inFlight, trackerVars,
                 startHeight, currentHeight, remaining, buffer, stopRequested>>

\* Mutant: iterate ends although blocks are still buffered.
MutResolvesEarly ==
  /\ consumer = "polling"
  /\ ~fetching
  /\ consumer' = "resolved"
  /\ UNCHANGED <<nodeVars, fetcherVars, startHeight, currentHeight, remaining, buffer, stopRequested>>

\* The fetcher has stopped and the buffer is empty.
Resolves ==
  /\ consumer = "polling"
  /\ ~fetching
  /\ DOMAIN buffer = {}
  /\ consumer' = "resolved"
  /\ UNCHANGED <<nodeVars, fetcherVars, startHeight, currentHeight, remaining, buffer, stopRequested>>

\* stopFetching, called by the owner on SIGINT or SIGTERM.
StopFetching ==
  /\ ~stopRequested
  /\ ~Ended
  /\ stopRequested' = TRUE
  /\ fetching' = FALSE
  /\ UNCHANGED <<nodeVars, fetcher, fetchHeight, launched, inFlight, trackerVars,
                 consumerVars, buffer>>

FetcherNext ==
  \/ FirstAttemptFails
  \/ NewBlockEvent \/ PollHeight \/ PollReturns
  \/ Launch \/ AllSettled \/ LoopEnds \/ FetcherStops
  \/ \E height \in inFlight, item \in Items : FetchSettles(height, item)

IteratorNext ==
  \/ NewBlock \/ Prune
  \/ Start \/ StartFails
  \/ FetcherNext
  \/ Take \/ CallbackReturns \/ Rejects \/ Resolves
  \/ StopFetching

IteratorSpec == IteratorInit /\ [][IteratorNext]_iteratorVars

\* Timers fire, fetches settle (retry is bounded) and callbacks return; the node
\* answers polls, but WebSocket events and new blocks need not come.
IteratorFairness ==
  /\ WF_iteratorVars(Start \/ StartFails)
  /\ WF_iteratorVars(PollHeight)
  /\ WF_iteratorVars(PollReturns)
  /\ WF_iteratorVars(Launch)
  /\ WF_iteratorVars(AllSettled)
  /\ WF_iteratorVars(LoopEnds)
  /\ WF_iteratorVars(FetcherStops)
  /\ \A height \in 1..MaxHeight :
       WF_iteratorVars(\E item \in Items : FetchSettles(height, item))
  /\ WF_iteratorVars(Take)
  /\ WF_iteratorVars(CallbackReturns \/ Rejects)
  /\ WF_iteratorVars(Resolves)

FairIteratorSpec == IteratorSpec /\ IteratorFairness

-------------------------------------------------------------------------------

IteratorTypeOK ==
  /\ chainHeight \in Nat /\ earliestBlockHeight \in Nat
  /\ startHeight \in Nat /\ fetchHeight \in Nat /\ currentHeight \in Nat
  /\ latestBlockHeight \in Nat /\ polled \in Nat
  /\ launched \in Nat
  /\ fetching \in BOOLEAN /\ stopRequested \in BOOLEAN
  /\ fetcher \in FetcherStates
  /\ consumer \in ConsumerStates
  /\ inFlight \subseteq Nat
  /\ DOMAIN buffer \subseteq Nat
  /\ \A h \in DOMAIN buffer : buffer[h] \in Items
  /\ remaining \in Seq({"blockError", "block", "tx", "txError"})

\* The next height startFetching has not started to fetch, and the next height
\* iterate has not taken from the buffer.
NextToFetch == IF fetcher = "settling" THEN fetchHeight + 1 ELSE fetchHeight
NextToTake == IF consumer = "emitting" THEN currentHeight + 1 ELSE currentHeight

(***************************************************************************)
(* BlockIterator: "parallel fetching and sequential processing".  Between  *)
(* the next height to take and the next to fetch every height is either    *)
(* buffered or in flight, once: the consumer never waits for a block that  *)
(* nobody fetches, and no block is taken twice.                            *)
(***************************************************************************)
NoGap ==
  fetcher # "idle" /\ ~Ended =>
    /\ DOMAIN buffer \cup inFlight = NextToTake .. (NextToFetch - 1)
    /\ DOMAIN buffer \cap inFlight = {}

(***************************************************************************)
(* startFetching: the buffer is checked when a fetch starts and a whole    *)
(* round of fetches settles into it, so it stays below twice bufferSize.   *)
(***************************************************************************)
BufferBounded == Cardinality(DOMAIN buffer) + Cardinality(inFlight) <= 2 * BufferSize - 1

(***************************************************************************)
(* "Wait for any remaining promises, to ensure the last block is           *)
(* processed": an iteration with an end height that nobody stopped         *)
(* resolves only after the last block.                                     *)
(***************************************************************************)
ResolvesAtEnd ==
  consumer = "resolved" /\ ~stopRequested => EndHeight # 0 /\ currentHeight = EndHeight + 1

(***************************************************************************)
(* Every block the node has is eventually taken, unless the iteration is   *)
(* stopped, fails or the block is out of range.                            *)
(***************************************************************************)
BlocksAreReached ==
  \A h \in 1..MaxHeight :
    (consumer = "polling" /\ h <= chainHeight /\ h >= startHeight /\ (EndHeight = 0 \/ h <= EndHeight))
      ~> (Ended \/ stopRequested \/ currentHeight > h)

(***************************************************************************)
(* stopFetching during the iteration: iterate ends (the buffer drains even *)
(* if later heights arrive before earlier ones).                           *)
(***************************************************************************)
StopWhileIteratingEnds == (consumer # "starting" /\ stopRequested /\ ~fetching) ~> Ended

(***************************************************************************)
(* BlockIterator.ts, stopFetching: "Stop the fetcher, letting the iterator *)
(* finish.  The `iterate` function will resolve once buffer is empty".     *)
(***************************************************************************)
StopEnds == stopRequested ~> Ended

=============================================================================
