------------------------------- MODULE Listener -------------------------------
(***************************************************************************)
(* src/scripts/listener.ts on top of BlockIterator: the callbacks move the *)
(* cursor State.latestBlockHeight and queue a transaction's extract jobs,  *)
(* and a process that ends or crashes is started again from the cursor.    *)
(* The cursor is a column of the one row of State, which the tracer's      *)
(* export workers move as well.                                            *)
(***************************************************************************)
EXTENDS BlockIterator

CONSTANTS BlockTxs,     \* the transactions of each block of the chain
          MaxRestarts   \* bound: restarts of the listener

\* The listener leaves throwErrors.block at its default.
ASSUME ListenerAssumption ==
  /\ ThrowBlock = TRUE
  /\ BlockTxs \in [1..MaxHeight -> TxLists]
  /\ MaxRestarts \in Nat

VARIABLES stateHeight, \* State.latestBlockHeight, in the database
          queued,      \* jobs added to ExtractQueue: <<height, index of the tx>>
          restarts,    \* restarts so far
          origin,      \* history: where iteration began when there was no cursor yet
          announced,   \* history: heights given up by a StartHeightTooLow error
          exported     \* history: the highest block an export worker has finished

listenerVars == <<stateHeight, queued, restarts, origin, announced, exported>>
allVars == <<iteratorVars, listenerVars>>

Init ==
  /\ IteratorInit
  /\ stateHeight = 0
  /\ startHeight = stateHeight
  /\ queued = {}
  /\ restarts = 0
  /\ origin = 0
  /\ announced = {}
  /\ exported = 0

\* SQL GREATEST.
Greatest(a, b) == IF a >= b THEN a ELSE b

\* iterate starts; a start height the node no longer serves is reported.
ListenerStarts ==
  /\ Start
  /\ origin' = IF startHeight = 0 \/ origin = 0 THEN startHeight' ELSE origin
  /\ announced' = IF StartTooLow
                  THEN announced \cup (startHeight .. (MinStartHeight - 1))
                  ELSE announced
  /\ UNCHANGED <<stateHeight, queued, restarts, exported>>

\* fetchBlockData: the block's own transactions, or an error.
ListenerFetches ==
  /\ \E height \in inFlight : \E item \in {BlockError, <<"block">> \o BlockTxs[height]} :
       FetchSettles(height, item)
  /\ UNCHANGED listenerVars

\* Mutant: the cursor is left alone.
MutOnBlockWithoutCursor ==
  /\ consumer = "emitting" /\ Callback = "block"
  /\ CallbackReturns
  /\ UNCHANGED listenerVars

\* onBlock: the cursor moves to the block before its transactions are handled.
OnBlock ==
  /\ consumer = "emitting" /\ Callback = "block"
  /\ CallbackReturns
  /\ stateHeight' = Greatest(stateHeight, currentHeight)
  /\ UNCHANGED <<queued, restarts, origin, announced, exported>>

\* onBlock rejects; the State update of its Promise.all may have been made.
OnBlockFails ==
  /\ consumer = "emitting" /\ Callback = "block"
  /\ Rejects
  /\ stateHeight' \in {stateHeight, Greatest(stateHeight, currentHeight)}
  /\ UNCHANGED <<queued, restarts, origin, announced, exported>>

\* The job of the transaction being emitted.
TxJob == <<currentHeight, Len(BlockTxs[currentHeight]) - Len(remaining) + 1>>

\* onTx: the jobs of the transaction's extractors are added.
OnTx ==
  /\ consumer = "emitting" /\ Callback = "tx"
  /\ CallbackReturns
  /\ queued' = queued \cup {TxJob}
  /\ UNCHANGED <<stateHeight, restarts, origin, announced, exported>>

\* onTx rejects after none or all of the bulk additions.
OnTxFails ==
  /\ consumer = "emitting" /\ Callback = "tx"
  /\ Rejects
  /\ queued' \in {queued, queued \cup {TxJob}}
  /\ UNCHANGED <<stateHeight, restarts, origin, announced, exported>>

\* onError logs; the iterator then throws or, for a transaction's error that is
\* to be ignored, goes on.
OnError ==
  /\ consumer = "emitting" /\ Callback \in {"blockError", "txError"}
  /\ CallbackReturns \/ (Throws /\ Rejects)
  /\ UNCHANGED listenerVars

\* Mutant: the block of the cursor is taken for done.
MutRestartAfterCursor ==
  /\ restarts < MaxRestarts
  /\ restarts' = restarts + 1
  /\ startHeight' = stateHeight + 1
  /\ consumer' = "starting" /\ currentHeight' = 0 /\ remaining' = <<>>
  /\ fetching' = FALSE /\ fetcher' = "idle" /\ fetchHeight' = 0 /\ launched' = 0
  /\ inFlight' = {} /\ buffer' = <<>> /\ latestBlockHeight' = 0 /\ polled' = 0
  /\ stopRequested' = FALSE
  /\ UNCHANGED <<nodeVars, stateHeight, queued, origin, announced, exported>>

\* The process crashes, or exits once iterate has ended, and pm2 starts it again:
\* a new iterator from the cursor.
Restart ==
  /\ restarts < MaxRestarts
  /\ restarts' = restarts + 1
  /\ startHeight' = stateHeight
  /\ consumer' = "starting" /\ currentHeight' = 0 /\ remaining' = <<>>
  /\ fetching' = FALSE /\ fetcher' = "idle" /\ fetchHeight' = 0 /\ launched' = 0
  /\ inFlight' = {} /\ buffer' = <<>> /\ latestBlockHeight' = 0 /\ polled' = 0
  /\ stopRequested' = FALSE
  /\ UNCHANGED <<nodeVars, stateHeight, queued, origin, announced, exported>>

\* An export worker finishes a job of the tracer and moves the cursor to its block.
ExportMovesCursor ==
  /\ \E height \in 1..chainHeight :
       /\ stateHeight' = Greatest(stateHeight, height)
       /\ exported' = Greatest(exported, height)
  /\ UNCHANGED <<iteratorVars, queued, restarts, origin, announced>>

\* The iterator's own steps leave the listener's state alone.
IteratorSteps ==
  /\ \/ NewBlock \/ Prune \/ StartFails
     \/ FirstAttemptFails \/ NewBlockEvent \/ PollHeight \/ PollReturns
     \/ Launch \/ AllSettled \/ LoopEnds \/ FetcherStops
     \/ Take \/ Resolves \/ StopFetching
  /\ UNCHANGED listenerVars

Next ==
  \/ ListenerStarts \/ ListenerFetches
  \/ OnBlock \/ OnBlockFails \/ OnTx \/ OnTxFails \/ OnError
  \/ Restart
  \/ ExportMovesCursor
  \/ IteratorSteps

Spec == Init /\ [][Next]_allVars

-------------------------------------------------------------------------------

ListenerTypeOK ==
  /\ IteratorTypeOK
  /\ stateHeight \in Nat
  /\ queued \subseteq Nat \X Nat
  /\ restarts \in 0..MaxRestarts
  /\ origin \in Nat
  /\ announced \subseteq Nat
  /\ exported \in 0..stateHeight

\* The jobs of a block's successful transactions.
JobsOf(height) ==
  {<<height, i>> : i \in {k \in DOMAIN BlockTxs[height] : BlockTxs[height][k] = "tx"}}

(***************************************************************************)
(* scripts/listener.ts: the cursor moves to a block before the block's     *)
(* transactions are queued, and a restart begins at the cursor.  Below the *)
(* cursor every transaction has been queued, whenever the process crashed, *)
(* except in blocks the node had pruned, which are reported, and in blocks *)
(* below one that the tracer's exports had moved the cursor to.            *)
(***************************************************************************)
BelowCursorQueued ==
  \A h \in 1..MaxHeight :
    origin > 0 /\ origin <= h /\ exported <= h /\ h < stateHeight /\ h \notin announced =>
      JobsOf(h) \subseteq queued

(***************************************************************************)
(* A restart repeats at most the block the cursor is at: whatever block    *)
(* comes next, the cursor is at most one behind.                           *)
(***************************************************************************)
RestartRepeatsOneBlock ==
  consumer = "polling" /\ currentHeight > startHeight => stateHeight >= currentHeight - 1

(***************************************************************************)
(* contract-state-import.ts: "leave the indexer's cursors in `State`       *)
(* alone: the listener resumes from `latestBlockHeight`".  A listener that *)
(* iterates again has left no transaction below its start height behind.   *)
(***************************************************************************)
ResumesWithoutGap ==
  consumer = "polling" /\ origin > 0 =>
    \A h \in 1..MaxHeight :
      origin <= h /\ h < startHeight /\ h \notin announced => JobsOf(h) \subseteq queued

=============================================================================
