--------------------------- MODULE ListenerProofs ---------------------------
(***************************************************************************)
(* Proofs about BlockIterator, for every buffer size, range and chain (the *)
(* bound of the buffer, the absence of gaps and what a resolved iteration  *)
(* has processed), and about Listener, for any number of restarts (that    *)
(* the iterator's invariants survive them, and what the cursor says of the *)
(* transactions that have been queued).                                    *)
(***************************************************************************)
EXTENDS Listener, FiniteSetTheorems, SequenceTheorems, TLAPS

-----------------------------------------------------------------------------
(* The iterator.                                                           *)

\* The buffer and the fetches in flight are finite, and the list of fetches
\* limits those in flight.
SizeInv ==
  /\ IsFiniteSet(DOMAIN buffer)
  /\ IsFiniteSet(inFlight)
  /\ Cardinality(inFlight) <= launched
  /\ launched <= BufferSize
  /\ fetcher \in {"idle", "tracking", "looping"} => launched < BufferSize

\* An iteration that has not started has fetched nothing; one that is emitting
\* has a callback to make; the consumer never overtakes the fetcher.
ControlInv ==
  /\ consumer = "starting" => fetcher = "idle"
  /\ fetcher = "idle" => inFlight = {} /\ DOMAIN buffer = {} /\ launched = 0
  /\ fetcher = "idle" => consumer \in {"starting", "rejected"}
  /\ consumer = "emitting" => remaining # <<>>
  /\ fetcher # "idle" /\ ~Ended => NextToTake <= NextToFetch

\* Why the fetcher is where it is, as long as nobody stopped it.
RangeInv ==
  /\ fetcher = "stopped" /\ ~Ended => inFlight = {}
  /\ ~stopRequested /\ ~Ended =>
       /\ fetcher \in {"tracking", "looping", "settling", "finishing"} => fetching
       /\ fetcher \in {"finishing", "stopped"} => EndHeight # 0 /\ fetchHeight = EndHeight + 1
  /\ EndHeight # 0 /\ ~Ended =>
       /\ fetcher \in {"tracking", "looping"} => fetchHeight <= EndHeight + 1
       /\ fetcher = "settling" => fetchHeight <= EndHeight

IndInv ==
  /\ IteratorTypeOK
  /\ SizeInv
  /\ BufferBounded
  /\ ControlInv
  /\ NoGap
  /\ RangeInv
  /\ ResolvesAtEnd

\* Every buffered item calls for at least one callback.
LEMMA ItemsAreCallbacks ==
  \A item \in Items : item \in Seq({"blockError", "block", "tx", "txError"}) /\ item # <<>>
<1>1. BlockError \in Seq({"blockError", "block", "tx", "txError"}) /\ BlockError # <<>>
  BY DEF BlockError
<1>2. ASSUME NEW txs \in TxLists
      PROVE  /\ <<"block">> \o txs \in Seq({"blockError", "block", "tx", "txError"})
             /\ <<"block">> \o txs # <<>>
  <2>1. txs \in Seq({"tx", "txError"})
    BY <1>2, IteratorAssumption
  <2>2. txs \in Seq({"blockError", "block", "tx", "txError"})
    BY <2>1
  <2>3. <<"block">> \in Seq({"blockError", "block", "tx", "txError"}) /\ Len(<<"block">>) = 1
    OBVIOUS
  <2>4. Len(<<"block">> \o txs) = 1 + Len(txs) /\ Len(txs) \in Nat
    BY <2>2, <2>3
  <2> QED
    BY <2>2, <2>3, <2>4
<1> QED
  BY <1>1, <1>2 DEF Items

\* Types, with what they need of the control state: the callbacks are not
\* exhausted while the consumer is emitting.
LEMMA TypeStep ==
  IteratorTypeOK /\ (consumer = "emitting" => remaining # <<>>) /\ [IteratorNext]_iteratorVars
    => IteratorTypeOK' /\ (consumer = "emitting" => remaining # <<>>)'
<1> SUFFICES ASSUME IteratorTypeOK, consumer = "emitting" => remaining # <<>>,
                    [IteratorNext]_iteratorVars
             PROVE  IteratorTypeOK' /\ (consumer = "emitting" => remaining # <<>>)'
  OBVIOUS
<1> USE IteratorAssumption, ItemsAreCallbacks
<1> USE DEF IteratorTypeOK, FetcherStates, ConsumerStates
<1>1. CASE NewBlock
    BY <1>1 DEF NewBlock, nodeVars, trackerVars, fetcherVars, consumerVars, MinStartHeight
<1>2. CASE Prune
    BY <1>2 DEF Prune, nodeVars, trackerVars, fetcherVars, consumerVars, MinStartHeight
<1>3. CASE Start
  <2>1. startHeight' \in Nat
    BY <1>3 DEF Start, MinStartHeight
  <2>2. /\ UNCHANGED <<chainHeight, earliestBlockHeight, launched, inFlight,
                       latestBlockHeight, polled, remaining, buffer, stopRequested>>
        /\ consumer' \in {"rejected", "polling"}
        /\ fetching' \in {fetching, TRUE} /\ fetcher' \in {fetcher, "tracking"}
        /\ fetchHeight' \in {fetchHeight, startHeight'}
        /\ currentHeight' \in {currentHeight, startHeight'}
    BY <1>3 DEF Start, nodeVars, trackerVars
  <2> QED
    BY <2>1, <2>2
<1>4. CASE StartFails
    BY <1>4 DEF StartFails, nodeVars, trackerVars, fetcherVars, consumerVars, MinStartHeight
<1>5. CASE FirstAttemptFails
    BY <1>5 DEF FirstAttemptFails, Tracked, nodeVars, trackerVars, fetcherVars, consumerVars, MinStartHeight
<1>6. CASE NewBlockEvent
    BY <1>6 DEF NewBlockEvent, Tracked, nodeVars, trackerVars, fetcherVars, consumerVars, MinStartHeight
<1>7. CASE PollHeight
    BY <1>7 DEF PollHeight, nodeVars, trackerVars, fetcherVars, consumerVars, MinStartHeight
<1>8. CASE PollReturns
    BY <1>8 DEF PollReturns, Tracked, nodeVars, trackerVars, fetcherVars, consumerVars, MinStartHeight
<1>9. CASE Launch
    BY <1>9 DEF Launch, nodeVars, trackerVars, fetcherVars, consumerVars, MinStartHeight
<1>10. CASE AllSettled
    BY <1>10 DEF AllSettled, nodeVars, trackerVars, fetcherVars, consumerVars, MinStartHeight
<1>11. CASE LoopEnds
    BY <1>11 DEF LoopEnds, nodeVars, trackerVars, fetcherVars, consumerVars, MinStartHeight
<1>12. CASE FetcherStops
    BY <1>12 DEF FetcherStops, nodeVars, trackerVars, fetcherVars, consumerVars, MinStartHeight
<1>13. CASE \E height \in inFlight, item \in Items : FetchSettles(height, item)
    BY <1>13 DEF FetchSettles, nodeVars, trackerVars, fetcherVars, consumerVars, MinStartHeight
<1>14. CASE Take
    BY <1>14 DEF Take, nodeVars, trackerVars, fetcherVars, consumerVars, MinStartHeight
<1>15. CASE CallbackReturns
    BY <1>15 DEF CallbackReturns, nodeVars, trackerVars, fetcherVars, consumerVars, MinStartHeight
<1>16. CASE Rejects
    BY <1>16 DEF Rejects, nodeVars, trackerVars, fetcherVars, consumerVars, MinStartHeight
<1>17. CASE Resolves
    BY <1>17 DEF Resolves, nodeVars, trackerVars, fetcherVars, consumerVars, MinStartHeight
<1>18. CASE StopFetching
    BY <1>18 DEF StopFetching, nodeVars, trackerVars, fetcherVars, consumerVars, MinStartHeight
<1>19. CASE UNCHANGED iteratorVars
    BY <1>19 DEF iteratorVars, nodeVars, trackerVars, fetcherVars, consumerVars, nodeVars, trackerVars, fetcherVars, consumerVars, MinStartHeight
<1>q. QED
    BY <1>1, <1>2, <1>3, <1>4, <1>5, <1>6, <1>7, <1>8, <1>9, <1>10, <1>11, <1>12, <1>13, <1>14, <1>15, <1>16, <1>17, <1>18, <1>19 DEF IteratorNext, FetcherNext

\* The sizes: a fetch is started only with room in the buffer and in the list of
\* fetches, and a fetch that settles moves from one to the other.
LEMMA SizeStep ==
  IteratorTypeOK /\ ControlInv /\ SizeInv /\ BufferBounded /\ [IteratorNext]_iteratorVars
    => SizeInv' /\ BufferBounded'
<1> SUFFICES ASSUME IteratorTypeOK, ControlInv, SizeInv, BufferBounded,
                    [IteratorNext]_iteratorVars
             PROVE  SizeInv' /\ BufferBounded'
  OBVIOUS
<1>a. BufferSize \in Nat \ {0} /\ launched \in Nat
  BY IteratorAssumption DEF IteratorTypeOK
<1>b. Cardinality(DOMAIN buffer) \in Nat /\ Cardinality(inFlight) \in Nat
  BY FS_CardinalityType DEF SizeInv
<1>1. CASE NewBlock
  BY <1>1 DEF NewBlock, SizeInv, BufferBounded, ControlInv, nodeVars, trackerVars, fetcherVars, consumerVars
<1>2. CASE Prune
  BY <1>2 DEF Prune, SizeInv, BufferBounded, ControlInv, nodeVars, trackerVars, fetcherVars, consumerVars
<1>3. CASE Start
  BY <1>3 DEF Start, SizeInv, BufferBounded, ControlInv, nodeVars, trackerVars, fetcherVars, consumerVars
<1>4. CASE StartFails
  BY <1>4 DEF StartFails, SizeInv, BufferBounded, ControlInv, nodeVars, trackerVars, fetcherVars, consumerVars
<1>5. CASE FirstAttemptFails
  BY <1>5 DEF FirstAttemptFails, Tracked, SizeInv, BufferBounded, ControlInv, nodeVars, trackerVars, fetcherVars, consumerVars
<1>6. CASE NewBlockEvent
  BY <1>6 DEF NewBlockEvent, Tracked, SizeInv, BufferBounded, ControlInv, nodeVars, trackerVars, fetcherVars, consumerVars
<1>7. CASE PollHeight
  BY <1>7 DEF PollHeight, SizeInv, BufferBounded, ControlInv, nodeVars, trackerVars, fetcherVars, consumerVars
<1>8. CASE PollReturns
  BY <1>8 DEF PollReturns, Tracked, SizeInv, BufferBounded, ControlInv, nodeVars, trackerVars, fetcherVars, consumerVars
<1>9. CASE Launch
  <2>1. /\ inFlight' = inFlight \cup {fetchHeight}
        /\ launched' = launched + 1
        /\ buffer' = buffer
        /\ Cardinality(DOMAIN buffer) < BufferSize
        /\ launched < BufferSize
        /\ fetcher' = IF launched + 1 >= BufferSize THEN "settling" ELSE "looping"
    BY <1>9 DEF Launch, MayFetch, SizeInv
  <2>2. IsFiniteSet(inFlight') /\ Cardinality(inFlight') <= Cardinality(inFlight) + 1
                              /\ Cardinality(inFlight') \in Nat
    BY <2>1, <1>b, FS_AddElement DEF SizeInv
  <2>3. SizeInv'
    BY <1>a, <1>b, <2>1, <2>2 DEF SizeInv
  <2>4. Cardinality(DOMAIN buffer) + Cardinality(inFlight') <= 2 * BufferSize - 1
    BY <1>a, <1>b, <2>1, <2>2 DEF SizeInv
  <2> QED
    BY <2>1, <2>3, <2>4 DEF BufferBounded
<1>10. CASE AllSettled
  BY <1>10, <1>a, FS_EmptySet DEF AllSettled, SizeInv, BufferBounded, nodeVars, consumerVars
<1>11. CASE LoopEnds
  BY <1>11 DEF LoopEnds, SizeInv, BufferBounded, ControlInv, nodeVars, trackerVars, fetcherVars, consumerVars
<1>12. CASE FetcherStops
  BY <1>12 DEF FetcherStops, SizeInv, BufferBounded, ControlInv, nodeVars, trackerVars, fetcherVars, consumerVars
<1>13. CASE \E height \in inFlight, item \in Items : FetchSettles(height, item)
  <2> PICK height \in inFlight, item \in Items : FetchSettles(height, item)
    BY <1>13
  <2>1. /\ inFlight' = inFlight \ {height}
        /\ DOMAIN buffer' = DOMAIN buffer \cup {height}
        /\ UNCHANGED <<launched, fetcher>>
    BY DEF FetchSettles
  <2>2. IsFiniteSet(inFlight') /\ Cardinality(inFlight') = Cardinality(inFlight) - 1
    BY <2>1, FS_RemoveElement DEF SizeInv
  <2>3. /\ IsFiniteSet(DOMAIN buffer')
        /\ Cardinality(DOMAIN buffer') <= Cardinality(DOMAIN buffer) + 1
        /\ Cardinality(DOMAIN buffer') \in Nat
    <3>1. /\ IsFiniteSet(DOMAIN buffer \cup {height})
          /\ Cardinality(DOMAIN buffer \cup {height}) =
               IF height \in DOMAIN buffer THEN Cardinality(DOMAIN buffer)
                                           ELSE Cardinality(DOMAIN buffer) + 1
      BY FS_AddElement DEF SizeInv
    <3> QED
      BY <3>1, <2>1, <1>b
  <2>4. SizeInv'
    BY <1>a, <1>b, <2>1, <2>2, <2>3 DEF SizeInv
  <2>5. BufferBounded'
    BY <1>a, <1>b, <2>2, <2>3 DEF BufferBounded
  <2> QED
    BY <2>4, <2>5
<1>14. CASE Take
  <2>1. /\ DOMAIN buffer' = DOMAIN buffer \ {currentHeight}
        /\ UNCHANGED <<inFlight, launched, fetcher>>
        /\ currentHeight \in DOMAIN buffer
    BY <1>14 DEF Take, fetcherVars
  <2>2. /\ IsFiniteSet(DOMAIN buffer')
        /\ Cardinality(DOMAIN buffer') = Cardinality(DOMAIN buffer) - 1
    BY <2>1, FS_RemoveElement DEF SizeInv
  <2>3. SizeInv'
    BY <2>1, <2>2 DEF SizeInv
  <2>4. BufferBounded'
    BY <1>a, <1>b, <2>1, <2>2 DEF BufferBounded
  <2> QED
    BY <2>3, <2>4
<1>15. CASE CallbackReturns
  BY <1>15 DEF CallbackReturns, SizeInv, BufferBounded, ControlInv, nodeVars, trackerVars, fetcherVars, consumerVars
<1>16. CASE Rejects
  BY <1>16 DEF Rejects, SizeInv, BufferBounded, ControlInv, nodeVars, trackerVars, fetcherVars, consumerVars
<1>17. CASE Resolves
  BY <1>17 DEF Resolves, SizeInv, BufferBounded, ControlInv, nodeVars, trackerVars, fetcherVars, consumerVars
<1>18. CASE StopFetching
  BY <1>18 DEF StopFetching, SizeInv, BufferBounded, ControlInv, nodeVars, trackerVars, fetcherVars, consumerVars
<1>19. CASE UNCHANGED iteratorVars
  BY <1>19 DEF iteratorVars, SizeInv, BufferBounded, ControlInv, nodeVars, trackerVars, fetcherVars, consumerVars
<1> QED
  BY <1>1, <1>2, <1>3, <1>4, <1>5, <1>6, <1>7, <1>8, <1>9, <1>10, <1>11, <1>12, <1>13, <1>14, <1>15, <1>16, <1>17, <1>18, <1>19 DEF IteratorNext, FetcherNext

\* The range of heights between a and a - 1 is empty.
LEMMA EmptyRange == \A a \in Nat : a .. (a - 1) = {}
  OBVIOUS

\* Heights enter at the fetcher's end of the range and leave at the consumer's.
LEMMA GapStep ==
  IteratorTypeOK /\ ControlInv /\ NoGap /\ [IteratorNext]_iteratorVars /\ IteratorTypeOK'
    => ControlInv' /\ NoGap'
<1> SUFFICES ASSUME IteratorTypeOK, ControlInv, NoGap, [IteratorNext]_iteratorVars, IteratorTypeOK'
             PROVE  ControlInv' /\ NoGap'
  OBVIOUS
<1> USE ItemsAreCallbacks, IteratorAssumption
<1>1. CASE NewBlock
  BY <1>1 DEF NewBlock, IteratorTypeOK, FetcherStates, ConsumerStates, ControlInv, NoGap, NextToTake, NextToFetch, Ended, nodeVars, trackerVars, fetcherVars, consumerVars
<1>2. CASE Prune
  BY <1>2 DEF Prune, IteratorTypeOK, FetcherStates, ConsumerStates, ControlInv, NoGap, NextToTake, NextToFetch, Ended, nodeVars, trackerVars, fetcherVars, consumerVars
<1>3. CASE Start
  <2>1. /\ fetcher = "idle" /\ inFlight = {} /\ DOMAIN buffer = {} /\ launched = 0
        /\ UNCHANGED <<inFlight, buffer, launched, stopRequested, remaining>>
    BY <1>3 DEF Start, ControlInv, nodeVars
  <2>2. startHeight' \in Nat
    BY <1>3, IteratorAssumption DEF Start, MinStartHeight, IteratorTypeOK
  <2>3. CASE consumer' = "rejected"
    BY <1>3, <2>1, <2>3 DEF Start, ControlInv, NoGap, Ended
  <2>4. CASE consumer' = "polling" /\ fetcher' = "tracking"
               /\ fetchHeight' = startHeight' /\ currentHeight' = startHeight'
    <3>1. NextToTake' = startHeight' /\ NextToFetch' = startHeight'
      BY <2>4 DEF NextToTake, NextToFetch
    <3>2. startHeight' .. (startHeight' - 1) = {}
      BY <2>2, EmptyRange
    <3>3. NoGap'
      BY <2>1, <3>1, <3>2 DEF NoGap
    <3> QED
      BY <2>1, <2>2, <2>4, <3>1, <3>3 DEF ControlInv
  <2> QED
    BY <1>3, <2>3, <2>4 DEF Start
<1>4. CASE StartFails
  BY <1>4 DEF StartFails, IteratorTypeOK, FetcherStates, ConsumerStates, ControlInv, NoGap, NextToTake, NextToFetch, Ended, nodeVars, trackerVars, fetcherVars, consumerVars
<1>5. CASE FirstAttemptFails
  BY <1>5 DEF FirstAttemptFails, Tracked, IteratorTypeOK, FetcherStates, ConsumerStates, ControlInv, NoGap, NextToTake, NextToFetch, Ended, nodeVars, trackerVars, fetcherVars, consumerVars
<1>6. CASE NewBlockEvent
  BY <1>6 DEF NewBlockEvent, Tracked, IteratorTypeOK, FetcherStates, ConsumerStates, ControlInv, NoGap, NextToTake, NextToFetch, Ended, nodeVars, trackerVars, fetcherVars, consumerVars
<1>7. CASE PollHeight
  BY <1>7 DEF PollHeight, IteratorTypeOK, FetcherStates, ConsumerStates, ControlInv, NoGap, NextToTake, NextToFetch, Ended, nodeVars, trackerVars, fetcherVars, consumerVars
<1>8. CASE PollReturns
  BY <1>8 DEF PollReturns, Tracked, IteratorTypeOK, FetcherStates, ConsumerStates, ControlInv, NoGap, NextToTake, NextToFetch, Ended, nodeVars, trackerVars, fetcherVars, consumerVars
<1>9. CASE Launch
  <2>1. /\ fetcher = "looping" /\ buffer' = buffer /\ inFlight' = inFlight \cup {fetchHeight}
        /\ UNCHANGED <<consumer, currentHeight, remaining>>
        /\ fetcher' \in {"looping", "settling"}
    BY <1>9 DEF Launch, consumerVars
  <2>2. NextToFetch = fetchHeight /\ NextToFetch' = fetchHeight + 1 /\ NextToTake' = NextToTake
    BY <1>9, <2>1 DEF Launch, NextToFetch, NextToTake
  <2>3. NextToTake \in Nat /\ fetchHeight \in Nat
    BY DEF NextToTake, IteratorTypeOK
  <2>4. ControlInv'
    BY <2>1, <2>2, <2>3 DEF ControlInv, Ended
  <2>5. ASSUME ~Ended
        PROVE  /\ DOMAIN buffer \cup inFlight \cup {fetchHeight} = NextToTake .. fetchHeight
               /\ DOMAIN buffer \cap (inFlight \cup {fetchHeight}) = {}
    <3>1. NextToTake <= fetchHeight
      BY <2>1, <2>2, <2>5 DEF ControlInv
    <3>2. /\ DOMAIN buffer \cup inFlight = NextToTake .. (fetchHeight - 1)
          /\ DOMAIN buffer \cap inFlight = {}
      BY <2>1, <2>2, <2>5 DEF NoGap
    <3>3. fetchHeight \notin NextToTake .. (fetchHeight - 1)
      BY <2>3
    <3>4. (NextToTake .. (fetchHeight - 1)) \cup {fetchHeight} = NextToTake .. fetchHeight
      BY <2>3, <3>1
    <3> QED
      BY <3>2, <3>3, <3>4
  <2>6. NoGap'
    BY <2>1, <2>2, <2>3, <2>5 DEF NoGap, Ended
  <2> QED
    BY <2>4, <2>6
<1>10. CASE AllSettled
  BY <1>10 DEF AllSettled, IteratorTypeOK, FetcherStates, ConsumerStates, ControlInv, NoGap, NextToTake, NextToFetch, Ended, nodeVars, trackerVars, fetcherVars, consumerVars
<1>11. CASE LoopEnds
  BY <1>11 DEF LoopEnds, IteratorTypeOK, FetcherStates, ConsumerStates, ControlInv, NoGap, NextToTake, NextToFetch, Ended, nodeVars, trackerVars, fetcherVars, consumerVars
<1>12. CASE FetcherStops
  BY <1>12 DEF FetcherStops, IteratorTypeOK, FetcherStates, ConsumerStates, ControlInv, NoGap, NextToTake, NextToFetch, Ended, nodeVars, trackerVars, fetcherVars, consumerVars
<1>13. CASE \E height \in inFlight, item \in Items : FetchSettles(height, item)
  BY <1>13 DEF FetchSettles, IteratorTypeOK, FetcherStates, ConsumerStates, ControlInv, NoGap, NextToTake, NextToFetch, Ended, nodeVars, trackerVars, fetcherVars, consumerVars
<1>14. CASE Take
  BY <1>14 DEF Take, IteratorTypeOK, FetcherStates, ConsumerStates, ControlInv, NoGap, NextToTake, NextToFetch, Ended, nodeVars, trackerVars, fetcherVars, consumerVars
<1>15. CASE CallbackReturns
  BY <1>15 DEF CallbackReturns, IteratorTypeOK, FetcherStates, ConsumerStates, ControlInv, NoGap, NextToTake, NextToFetch, Ended, nodeVars, trackerVars, fetcherVars, consumerVars
<1>16. CASE Rejects
  BY <1>16 DEF Rejects, IteratorTypeOK, FetcherStates, ConsumerStates, ControlInv, NoGap, NextToTake, NextToFetch, Ended, nodeVars, trackerVars, fetcherVars, consumerVars
<1>17. CASE Resolves
  BY <1>17 DEF Resolves, IteratorTypeOK, FetcherStates, ConsumerStates, ControlInv, NoGap, NextToTake, NextToFetch, Ended, nodeVars, trackerVars, fetcherVars, consumerVars
<1>18. CASE StopFetching
  BY <1>18 DEF StopFetching, IteratorTypeOK, FetcherStates, ConsumerStates, ControlInv, NoGap, NextToTake, NextToFetch, Ended, nodeVars, trackerVars, fetcherVars, consumerVars
<1>19. CASE UNCHANGED iteratorVars
  BY <1>19 DEF iteratorVars, IteratorTypeOK, FetcherStates, ConsumerStates, ControlInv, NoGap, NextToTake, NextToFetch, Ended, nodeVars, trackerVars, fetcherVars, consumerVars
<1> QED
  BY <1>1, <1>2, <1>3, <1>4, <1>5, <1>6, <1>7, <1>8, <1>9, <1>10, <1>11, <1>12, <1>13, <1>14, <1>15, <1>16, <1>17, <1>18, <1>19 DEF IteratorNext, FetcherNext

\* The fetcher ends of its own only past the end height, with nothing in flight.
LEMMA RangeStep ==
  IteratorTypeOK /\ ControlInv /\ NoGap /\ RangeInv /\ ResolvesAtEnd
    /\ [IteratorNext]_iteratorVars => RangeInv' /\ ResolvesAtEnd'
<1> SUFFICES ASSUME IteratorTypeOK, ControlInv, NoGap, RangeInv, ResolvesAtEnd,
                    [IteratorNext]_iteratorVars
             PROVE  RangeInv' /\ ResolvesAtEnd'
  OBVIOUS
<1> USE IteratorAssumption
<1>1. CASE NewBlock
  BY <1>1 DEF NewBlock, IteratorTypeOK, FetcherStates, ConsumerStates, ControlInv, RangeInv, ResolvesAtEnd, InRange, Ended, nodeVars, trackerVars, fetcherVars, consumerVars
<1>2. CASE Prune
  BY <1>2 DEF Prune, IteratorTypeOK, FetcherStates, ConsumerStates, ControlInv, RangeInv, ResolvesAtEnd, InRange, Ended, nodeVars, trackerVars, fetcherVars, consumerVars
<1>3. CASE Start
  <2>1. /\ fetcher = "idle" /\ inFlight = {} /\ DOMAIN buffer = {} /\ launched = 0
        /\ UNCHANGED <<inFlight, buffer, launched, stopRequested, remaining>>
    BY <1>3 DEF Start, ControlInv, nodeVars
  <2>2. startHeight' \in Nat
    BY <1>3, IteratorAssumption DEF Start, MinStartHeight, IteratorTypeOK
  <2>3. CASE consumer' = "rejected"
    BY <2>3 DEF RangeInv, ResolvesAtEnd, Ended
  <2>4. CASE /\ ~(EndHeight # 0 /\ EndHeight < startHeight')
             /\ consumer' = "polling" /\ fetcher' = "tracking" /\ fetching' = TRUE
             /\ fetchHeight' = startHeight'
    <3>1. EndHeight # 0 => fetchHeight' <= EndHeight + 1
      BY <2>2, <2>4
    <3> QED
      BY <2>1, <2>4, <3>1 DEF RangeInv, ResolvesAtEnd
  <2> QED
    BY <1>3, <2>3, <2>4 DEF Start
<1>4. CASE StartFails
  BY <1>4 DEF StartFails, IteratorTypeOK, FetcherStates, ConsumerStates, ControlInv, RangeInv, ResolvesAtEnd, InRange, Ended, nodeVars, trackerVars, fetcherVars, consumerVars
<1>5. CASE FirstAttemptFails
  BY <1>5 DEF FirstAttemptFails, Tracked, IteratorTypeOK, FetcherStates, ConsumerStates, ControlInv, RangeInv, ResolvesAtEnd, InRange, Ended, nodeVars, trackerVars, fetcherVars, consumerVars
<1>6. CASE NewBlockEvent
  BY <1>6 DEF NewBlockEvent, Tracked, IteratorTypeOK, FetcherStates, ConsumerStates, ControlInv, RangeInv, ResolvesAtEnd, InRange, Ended, nodeVars, trackerVars, fetcherVars, consumerVars
<1>7. CASE PollHeight
  BY <1>7 DEF PollHeight, IteratorTypeOK, FetcherStates, ConsumerStates, ControlInv, RangeInv, ResolvesAtEnd, InRange, Ended, nodeVars, trackerVars, fetcherVars, consumerVars
<1>8. CASE PollReturns
  BY <1>8 DEF PollReturns, Tracked, IteratorTypeOK, FetcherStates, ConsumerStates, ControlInv, RangeInv, ResolvesAtEnd, InRange, Ended, nodeVars, trackerVars, fetcherVars, consumerVars
<1>9. CASE Launch
  BY <1>9 DEF Launch, IteratorTypeOK, FetcherStates, ConsumerStates, ControlInv, RangeInv, ResolvesAtEnd, InRange, Ended, nodeVars, trackerVars, fetcherVars, consumerVars
<1>10. CASE AllSettled
  BY <1>10 DEF AllSettled, IteratorTypeOK, FetcherStates, ConsumerStates, ControlInv, RangeInv, ResolvesAtEnd, InRange, Ended, nodeVars, trackerVars, fetcherVars, consumerVars
<1>11. CASE LoopEnds
  BY <1>11 DEF LoopEnds, IteratorTypeOK, FetcherStates, ConsumerStates, ControlInv, RangeInv, ResolvesAtEnd, InRange, Ended, nodeVars, trackerVars, fetcherVars, consumerVars
<1>12. CASE FetcherStops
  BY <1>12 DEF FetcherStops, IteratorTypeOK, FetcherStates, ConsumerStates, ControlInv, RangeInv, ResolvesAtEnd, InRange, Ended, nodeVars, trackerVars, fetcherVars, consumerVars
<1>13. CASE \E height \in inFlight, item \in Items : FetchSettles(height, item)
  BY <1>13 DEF FetchSettles, IteratorTypeOK, FetcherStates, ConsumerStates, ControlInv, RangeInv, ResolvesAtEnd, InRange, Ended, nodeVars, trackerVars, fetcherVars, consumerVars
<1>14. CASE Take
  BY <1>14 DEF Take, IteratorTypeOK, FetcherStates, ConsumerStates, ControlInv, RangeInv, ResolvesAtEnd, InRange, Ended, nodeVars, trackerVars, fetcherVars, consumerVars
<1>15. CASE CallbackReturns
  BY <1>15 DEF CallbackReturns, IteratorTypeOK, FetcherStates, ConsumerStates, ControlInv, RangeInv, ResolvesAtEnd, InRange, Ended, nodeVars, trackerVars, fetcherVars, consumerVars
<1>16. CASE Rejects
  BY <1>16 DEF Rejects, IteratorTypeOK, FetcherStates, ConsumerStates, ControlInv, RangeInv, ResolvesAtEnd, InRange, Ended, nodeVars, trackerVars, fetcherVars, consumerVars
<1>17. CASE Resolves
  BY <1>17 DEF Resolves, NoGap, NextToTake, NextToFetch, IteratorTypeOK, FetcherStates, ConsumerStates, ControlInv, RangeInv, ResolvesAtEnd, InRange, Ended, nodeVars, trackerVars, fetcherVars, consumerVars
<1>18. CASE StopFetching
  BY <1>18 DEF StopFetching, IteratorTypeOK, FetcherStates, ConsumerStates, ControlInv, RangeInv, ResolvesAtEnd, InRange, Ended, nodeVars, trackerVars, fetcherVars, consumerVars
<1>19. CASE UNCHANGED iteratorVars
  BY <1>19 DEF iteratorVars, IteratorTypeOK, FetcherStates, ConsumerStates, ControlInv, RangeInv, ResolvesAtEnd, InRange, Ended, nodeVars, trackerVars, fetcherVars, consumerVars
<1> QED
  BY <1>1, <1>2, <1>3, <1>4, <1>5, <1>6, <1>7, <1>8, <1>9, <1>10, <1>11, <1>12, <1>13, <1>14, <1>15, <1>16, <1>17, <1>18, <1>19 DEF IteratorNext, FetcherNext

\* No step of the iterator breaks the inductive invariant.
LEMMA InductiveStep == IndInv /\ [IteratorNext]_iteratorVars => IndInv'
<1> SUFFICES ASSUME IndInv, [IteratorNext]_iteratorVars PROVE IndInv'
  OBVIOUS
<1>1. IteratorTypeOK'
  BY TypeStep DEF IndInv, ControlInv
<1>2. SizeInv' /\ BufferBounded'
  BY SizeStep DEF IndInv
<1>3. ControlInv' /\ NoGap'
  BY <1>1, GapStep DEF IndInv
<1>4. RangeInv' /\ ResolvesAtEnd'
  BY RangeStep DEF IndInv
<1> QED
  BY <1>1, <1>2, <1>3, <1>4 DEF IndInv

\* It holds of a new iterator.
LEMMA InductiveInit == IteratorInit => IndInv
<1> SUFFICES ASSUME IteratorInit PROVE IndInv
  OBVIOUS
<1>1. DOMAIN buffer = {} /\ inFlight = {}
  BY DEF IteratorInit
<1>2. IsFiniteSet({}) /\ Cardinality({}) = 0
  BY FS_EmptySet
<1>3. IteratorTypeOK
  <2>1. chainHeight \in Nat /\ startHeight \in Nat
    BY IteratorAssumption DEF IteratorInit
  <2>2. remaining \in Seq({"blockError", "block", "tx", "txError"})
    BY DEF IteratorInit
  <2> QED
    BY <1>1, <2>1, <2>2 DEF IteratorInit, IteratorTypeOK, FetcherStates, ConsumerStates
<1>4. SizeInv /\ BufferBounded
  BY <1>1, <1>2, IteratorAssumption DEF IteratorInit, SizeInv, BufferBounded
<1>5. ControlInv /\ NoGap /\ RangeInv /\ ResolvesAtEnd
  BY <1>1 DEF IteratorInit, ControlInv, NoGap, RangeInv, ResolvesAtEnd, Ended
<1> QED
  BY <1>3, <1>4, <1>5 DEF IndInv

\* The inductive invariant holds throughout.
LEMMA Inductive == IteratorSpec => []IndInv
BY InductiveInit, InductiveStep, PTL DEF IteratorSpec

\* BlockIterator's fields keep their types in every step of its fetcher, its
\* consumer and its owner.
THEOREM TypeCorrect == IteratorSpec => []IteratorTypeOK
<1>1. IndInv => IteratorTypeOK
  BY DEF IndInv
<1> QED
  BY <1>1, Inductive, PTL

\* startFetching: blocks buffered and in flight are at most 2 * bufferSize - 1
\* together, for every buffer size.
THEOREM BufferIsBounded == IteratorSpec => []BufferBounded
<1>1. IndInv => BufferBounded
  BY DEF IndInv
<1> QED
  BY <1>1, Inductive, PTL

\* iterate never waits for a block nobody fetches and takes each block once.
THEOREM NoBlockIsSkipped == IteratorSpec => []NoGap
<1>1. IndInv => NoGap
  BY DEF IndInv
<1> QED
  BY <1>1, Inductive, PTL

\* An iteration that resolves without having been stopped has emitted every
\* block up to its end height.
THEOREM ResolvedIsComplete == IteratorSpec => []ResolvesAtEnd
<1>1. IndInv => ResolvesAtEnd
  BY DEF IndInv
<1> QED
  BY <1>1, Inductive, PTL

-----------------------------------------------------------------------------
(* The listener process.                                                   *)

Kinds == {"blockError", "block", "tx", "txError"}

\* The callbacks a block calls for, and how many of them have returned.
Callbacks(height) == <<"block">> \o BlockTxs[height]
Returned == Len(BlockTxs[currentHeight]) + 1 - Len(remaining)

\* The block being emitted could be loaded.
Loaded == consumer = "emitting" /\ remaining # BlockError

\* A block's transactions have been queued.
Queued(height) == JobsOf(height) \subseteq queued

\* Heights are the chain's.
HeightInv ==
  /\ chainHeight \in 1..MaxHeight /\ earliestBlockHeight \in 1..MaxHeight
  /\ fetcher # "idle" => fetchHeight > 0
  /\ inFlight \subseteq Nat \ {0}
  /\ \A h \in DOMAIN buffer : h \in 1..MaxHeight /\ buffer[h] \in {BlockError, Callbacks(h)}
  /\ consumer = "emitting" => currentHeight \in 1..MaxHeight

\* What is left of the block being emitted is the end of its callbacks, and the
\* transactions before have been queued.
EmitInv ==
  Loaded =>
    /\ Returned \in 0..Len(BlockTxs[currentHeight])
    /\ \A j \in 1..Len(remaining) : remaining[j] = Callbacks(currentHeight)[Returned + j]
    /\ \A i \in 1..(Returned - 1) :
         BlockTxs[currentHeight][i] = "tx" => <<currentHeight, i>> \in queued

\* The blocks that this iteration is done with, and those before its start.
DoneInv ==
  /\ \A h \in 1..MaxHeight : startHeight <= h /\ h < currentHeight => Queued(h)
  /\ \A h \in 1..MaxHeight :
       origin > 0 /\ origin <= h /\ exported <= h /\ h < startHeight /\ h \notin announced => Queued(h)

\* The cursor is at a block that this iteration has reached or began at, or that
\* an export worker has finished; it is behind by one block at most.
CursorInv ==
  /\ stateHeight <= exported \/ stateHeight <= startHeight \/ stateHeight <= currentHeight
  /\ exported <= stateHeight
  /\ Loaded /\ Returned > 0 => stateHeight >= currentHeight
  /\ RestartRepeatsOneBlock

\* An iteration that has not started is at no height.
FreshInv == consumer = "starting" => currentHeight = 0

\* The inductive invariant: the iterator's own, and these.
ListenerInv == IndInv /\ ListenerTypeOK /\ HeightInv /\ FreshInv /\ EmitInv /\ DoneInv /\ CursorInv

-------------------------------------------------------------------------------
\* Blocks and their callbacks.

\* What is left of a sequence of callbacks after the first.
LEMMA TailFacts ==
  ASSUME NEW s \in Seq(Kinds), s # <<>>
  PROVE  /\ Tail(s) \in Seq(Kinds) /\ Len(s) \in Nat /\ Len(s) > 0 /\ Len(Tail(s)) = Len(s) - 1
         /\ Head(s) = s[1]
         /\ \A j \in 1..(Len(s) - 1) : Tail(s)[j] = s[j + 1]
         /\ Tail(s) = <<>> <=> Len(s) = 1
<1>1. Tail(s) \in Seq(Kinds) /\ Len(s) \in Nat /\ Len(s) > 0 /\ Len(Tail(s)) = Len(s) - 1 /\ Head(s) = s[1]
  OBVIOUS
<1>2. \A j \in 1..(Len(s) - 1) : Tail(s)[j] = s[j + 1]
  BY <1>1
<1>3. Tail(s) = <<>> <=> Len(Tail(s)) = 0
  BY <1>1, EmptySeq
<1> QED
  BY <1>1, <1>2, <1>3

\* The callbacks of a block: the block, then its transactions.
LEMMA BlockCallbacks ==
  ASSUME NEW h \in 1..MaxHeight
  PROVE  /\ BlockTxs[h] \in Seq({"tx", "txError"}) /\ Len(BlockTxs[h]) \in Nat
         /\ Callbacks(h) \in Seq(Kinds) /\ Callbacks(h) \in Items /\ Callbacks(h) # <<>>
         /\ Len(Callbacks(h)) = Len(BlockTxs[h]) + 1
         /\ Callbacks(h)[1] = "block"
         /\ \A i \in 1..Len(BlockTxs[h]) : /\ Callbacks(h)[i + 1] = BlockTxs[h][i]
                                           /\ BlockTxs[h][i] \in {"tx", "txError"}
<1>1. BlockTxs[h] \in TxLists
  BY ListenerAssumption
<1>2. BlockTxs[h] \in Seq({"tx", "txError"}) /\ Len(BlockTxs[h]) \in Nat
  BY <1>1, IteratorAssumption
<1>3. Callbacks(h) \in Items
  BY <1>1 DEF Items, Callbacks
<1>4. Callbacks(h) \in Seq(Kinds) /\ Callbacks(h) # <<>>
  BY <1>3, ItemsAreCallbacks DEF Kinds
<1> DEFINE first == <<"block">>
           txs == BlockTxs[h]
<1>5. first \in Seq(Kinds) /\ Len(first) = 1 /\ first[1] = "block" /\ txs \in Seq(Kinds)
  BY <1>2 DEF Kinds
<1> HIDE DEF first, txs
<1>6. /\ Len(first \o txs) = Len(txs) + 1 /\ (first \o txs)[1] = "block"
      /\ \A i \in 1..Len(txs) : (first \o txs)[i + 1] = txs[i]
  <2>1. /\ Len(first \o txs) = Len(first) + Len(txs)
        /\ \A i \in 1..(Len(first) + Len(txs)) :
             (first \o txs)[i] = IF i <= Len(first) THEN first[i] ELSE txs[i - Len(first)]
    BY <1>5, ConcatProperties
  <2>2. Len(txs) \in Nat
    BY <1>2 DEF txs
  <2>3. \A i \in 1..Len(txs) : i + 1 \in 1..(1 + Len(txs)) /\ ~(i + 1 <= 1) /\ (i + 1) - 1 = i
    BY <2>2
  <2>4. 1 \in 1..(1 + Len(txs)) /\ 1 <= 1
    BY <2>2
  <2> QED
    BY <1>5, <2>1, <2>2, <2>3, <2>4
<1>7. Callbacks(h) = first \o txs
  BY DEF Callbacks, first, txs
<1>8. \A i \in 1..Len(BlockTxs[h]) : BlockTxs[h][i] \in {"tx", "txError"}
  BY <1>2
<1> QED
  BY <1>2, <1>3, <1>4, <1>6, <1>7, <1>8 DEF txs

-------------------------------------------------------------------------------
\* The iterator within the listener.

\* A step of the listener is one of the iterator, or a restart.
LEMMA StepsOfIterator ==
  ASSUME ListenerInv, [Next]_allVars
  PROVE  [IteratorNext]_iteratorVars \/ Restart
<1>1. CASE ListenerStarts
  BY <1>1 DEF ListenerStarts, IteratorNext
<1>2. CASE ListenerFetches
  <2>0. PICK height \in inFlight : \E item \in {BlockError, <<"block">> \o BlockTxs[height]} :
                                    FetchSettles(height, item)
    BY <1>2 DEF ListenerFetches
  <2>1. PICK item \in {BlockError, <<"block">> \o BlockTxs[height]} : FetchSettles(height, item)
    BY <2>0
  <2>2. height \in 1..MaxHeight
    <3>1. height \in Nat \ {0} /\ height <= chainHeight /\ chainHeight \in 1..MaxHeight
      BY <2>1 DEF FetchSettles, ListenerInv, HeightInv
    <3> QED
      BY <3>1, IteratorAssumption
  <2>3. item \in Items
    BY <2>1, <2>2, BlockCallbacks DEF Items, Callbacks
  <2> QED
    BY <2>1, <2>3 DEF IteratorNext, FetcherNext
<1>3. CASE OnBlock \/ OnBlockFails \/ OnTx \/ OnTxFails \/ OnError
  BY <1>3 DEF OnBlock, OnBlockFails, OnTx, OnTxFails, OnError, IteratorNext
<1>4. CASE ExportMovesCursor
  BY <1>4 DEF ExportMovesCursor
<1>5. CASE IteratorSteps
  BY <1>5 DEF IteratorSteps, IteratorNext, FetcherNext
<1>6. CASE UNCHANGED allVars
  BY <1>6 DEF allVars
<1> QED
  BY <1>1, <1>2, <1>3, <1>4, <1>5, <1>6 DEF Next

\* The iterator's invariant survives restarts.
LEMMA IndInvStep ==
  ASSUME ListenerInv, [Next]_allVars
  PROVE  IndInv'
<1>1. CASE [IteratorNext]_iteratorVars
  BY <1>1, InductiveStep DEF ListenerInv
<1>2. CASE Restart
  <2>1. /\ startHeight' = stateHeight /\ stateHeight \in Nat
        /\ consumer' = "starting" /\ currentHeight' = 0 /\ remaining' = <<>>
        /\ fetching' = FALSE /\ fetcher' = "idle" /\ fetchHeight' = 0 /\ launched' = 0
        /\ inFlight' = {} /\ buffer' = <<>> /\ latestBlockHeight' = 0 /\ polled' = 0
        /\ stopRequested' = FALSE
        /\ UNCHANGED <<chainHeight, earliestBlockHeight>>
    BY <1>2 DEF Restart, nodeVars, ListenerInv, ListenerTypeOK
  <2>2. IsFiniteSet({}) /\ Cardinality({}) = 0
    BY FS_EmptySet
  <2>3. DOMAIN (buffer') = {}
    BY <2>1
  <2>4. IteratorTypeOK'
    <3>1. <<>> \in Seq({"blockError", "block", "tx", "txError"})
      OBVIOUS
    <3> QED
    BY <2>1, <2>3, <3>1 DEF ListenerInv, IndInv, IteratorTypeOK, FetcherStates, ConsumerStates
  <2>5. SizeInv' /\ BufferBounded'
    BY <2>1, <2>2, <2>3, IteratorAssumption DEF SizeInv, BufferBounded
  <2>6. ControlInv' /\ NoGap' /\ RangeInv' /\ ResolvesAtEnd'
    BY <2>1, <2>3 DEF ControlInv, NoGap, RangeInv, ResolvesAtEnd, Ended
  <2> QED
    BY <2>4, <2>5, <2>6 DEF IndInv
<1> QED
  BY <1>1, <1>2, StepsOfIterator

-------------------------------------------------------------------------------
\* Types and heights.

\* The listener's own state.
LEMMA ListenerTypes ==
  ASSUME ListenerInv, [Next]_allVars
  PROVE  ListenerTypeOK'
<1>1. IteratorTypeOK'
  BY IndInvStep DEF IndInv
<1>2. /\ stateHeight \in Nat /\ queued \subseteq Nat \X Nat /\ restarts \in 0..MaxRestarts
      /\ origin \in Nat /\ announced \subseteq Nat /\ exported \in 0..stateHeight
      /\ startHeight \in Nat /\ currentHeight \in Nat /\ earliestBlockHeight \in Nat
      /\ MinStartHeight \in Nat /\ exported \in Nat /\ exported <= stateHeight
      /\ MaxRestarts \in Nat
  BY IteratorAssumption, ListenerAssumption
  DEF ListenerInv, ListenerTypeOK, IndInv, IteratorTypeOK, MinStartHeight
<1>3. CASE UNCHANGED listenerVars
  BY <1>1, <1>3 DEF ListenerInv, ListenerTypeOK, listenerVars
<1>4. CASE ListenerStarts
  <2>1. startHeight' \in Nat
    BY <1>1 DEF IteratorTypeOK
  <2>2. (startHeight .. (MinStartHeight - 1)) \subseteq Nat
    BY <1>2
  <2> QED
    BY <1>1, <1>2, <1>4, <2>1, <2>2 DEF ListenerStarts, ListenerTypeOK
<1>5. CASE OnBlock \/ OnBlockFails
  <2>1. stateHeight' = stateHeight \/ stateHeight' = Greatest(stateHeight, currentHeight)
    BY <1>5 DEF OnBlock, OnBlockFails
  <2>2. stateHeight' \in Nat /\ exported \in 0..stateHeight'
    BY <1>2, <2>1 DEF Greatest
  <2> QED
    BY <1>1, <1>2, <1>5, <2>2 DEF OnBlock, OnBlockFails, ListenerTypeOK
<1>6. CASE OnTx \/ OnTxFails
  <2>1. Loaded \/ remaining = BlockError
    BY <1>6 DEF OnTx, OnTxFails, Loaded
  <2>2. remaining # BlockError
    BY <1>6 DEF OnTx, OnTxFails, Callback, BlockError
  <2>3. TxJob \in Nat \X Nat
    <3>1. consumer = "emitting" /\ currentHeight \in 1..MaxHeight /\ remaining # <<>>
      BY <1>6 DEF OnTx, OnTxFails, ListenerInv, HeightInv, IndInv, ControlInv
    <3>2. /\ Returned \in 0..Len(BlockTxs[currentHeight]) /\ Len(BlockTxs[currentHeight]) \in Nat
      BY <2>1, <2>2, <3>1, BlockCallbacks DEF ListenerInv, EmitInv
    <3>3. Len(remaining) \in Nat
      BY DEF ListenerInv, IndInv, IteratorTypeOK
    <3>4. TxJob = <<currentHeight, Returned>>
      BY <3>2, <3>3 DEF TxJob, Returned
    <3>5. Returned \in Nat
      BY <3>2
    <3> QED
      BY <1>2, <3>4, <3>5
  <2>4. queued' \subseteq Nat \X Nat
    BY <1>2, <1>6, <2>3 DEF OnTx, OnTxFails
  <2> QED
    BY <1>1, <1>2, <1>6, <2>4 DEF OnTx, OnTxFails, ListenerTypeOK
<1>7. CASE Restart
  BY <1>1, <1>2, <1>7 DEF Restart, ListenerTypeOK
<1>8. CASE ExportMovesCursor
  <2>1. PICK height \in 1..chainHeight : /\ stateHeight' = Greatest(stateHeight, height)
                                         /\ exported' = Greatest(exported, height)
    BY <1>8 DEF ExportMovesCursor
  <2>2. height \in Nat
    BY <2>1
  <2>3. stateHeight' \in Nat /\ exported' \in 0..stateHeight'
    BY <1>2, <2>1, <2>2 DEF Greatest
  <2> QED
    BY <1>1, <1>2, <1>8, <2>3 DEF ExportMovesCursor, ListenerTypeOK
<1> QED
  BY <1>3, <1>4, <1>5, <1>6, <1>7, <1>8
  DEF Next, ListenerFetches, OnError, IteratorSteps, allVars

\* Heights stay the chain's.
LEMMA HeightStep ==
  ASSUME ListenerInv, [Next]_allVars
  PROVE  HeightInv'
<1>1. /\ chainHeight \in 1..MaxHeight /\ earliestBlockHeight \in 1..MaxHeight
      /\ fetcher # "idle" => fetchHeight > 0
      /\ inFlight \subseteq Nat \ {0}
      /\ \A h \in DOMAIN buffer : h \in 1..MaxHeight /\ buffer[h] \in {BlockError, Callbacks(h)}
      /\ consumer = "emitting" => currentHeight \in 1..MaxHeight
      /\ MaxHeight \in Nat /\ chainHeight \in Nat /\ earliestBlockHeight \in Nat
      /\ fetchHeight \in Nat /\ startHeight \in Nat /\ currentHeight \in Nat
      /\ MinStartMargin \in Nat
  BY IteratorAssumption DEF ListenerInv, HeightInv, IndInv, IteratorTypeOK
<1> USE <1>1
<1>2. CASE ListenerStarts
  <2>1. startHeight' > 0
    BY <1>2 DEF ListenerStarts, Start, MinStartHeight
  <2>2. /\ UNCHANGED <<chainHeight, earliestBlockHeight, inFlight, buffer>>
        /\ consumer' # "emitting"
        /\ (fetcher' = fetcher /\ fetchHeight' = fetchHeight) \/ fetchHeight' = startHeight'
    BY <1>2 DEF ListenerStarts, Start, nodeVars
  <2> QED
    BY <2>1, <2>2 DEF HeightInv
<1>3. CASE ListenerFetches
  <2>0. PICK height \in inFlight : \E item \in {BlockError, <<"block">> \o BlockTxs[height]} :
                                    FetchSettles(height, item)
    BY <1>3 DEF ListenerFetches
  <2>1. PICK item \in {BlockError, <<"block">> \o BlockTxs[height]} : FetchSettles(height, item)
    BY <2>0
  <2>2. height \in 1..MaxHeight
    BY <2>1 DEF FetchSettles
  <2>3. item \in {BlockError, Callbacks(height)}
    BY <2>1 DEF Callbacks
  <2>4. \A h \in DOMAIN (buffer') :
          h \in 1..MaxHeight /\ buffer'[h] \in {BlockError, Callbacks(h)}
    BY <2>1, <2>2, <2>3 DEF FetchSettles
  <2>5. /\ UNCHANGED <<chainHeight, earliestBlockHeight, fetcher, fetchHeight, consumer, currentHeight>>
        /\ inFlight' \subseteq inFlight
    BY <2>1 DEF FetchSettles, nodeVars, consumerVars
  <2> QED
    BY <2>4, <2>5 DEF HeightInv
<1>4. CASE OnBlock \/ OnBlockFails \/ OnTx \/ OnTxFails \/ OnError
  <2>1. CallbackReturns \/ Rejects
    BY <1>4 DEF OnBlock, OnBlockFails, OnTx, OnTxFails, OnError
  <2>2. /\ UNCHANGED <<chainHeight, earliestBlockHeight, fetcher, fetchHeight, inFlight, buffer>>
        /\ consumer' = "emitting" => consumer = "emitting" /\ currentHeight' = currentHeight
    BY <2>1 DEF CallbackReturns, Rejects, nodeVars, fetcherVars
  <2> QED
    BY <2>2 DEF HeightInv
<1>5. CASE Restart
  <2>1. DOMAIN (buffer') = {}
    BY <1>5 DEF Restart
  <2> QED
    BY <1>5, <2>1 DEF Restart, HeightInv, nodeVars
<1>6. CASE UNCHANGED iteratorVars
  BY <1>6 DEF iteratorVars, nodeVars, fetcherVars, consumerVars, HeightInv
<1>7. CASE NewBlock
  BY <1>7 DEF NewBlock, fetcherVars, consumerVars, HeightInv
<1>8. CASE Prune
  BY <1>8 DEF Prune, fetcherVars, consumerVars, HeightInv
<1>9. CASE StartFails \/ Resolves
  BY <1>9 DEF StartFails, Resolves, nodeVars, fetcherVars, consumerVars, HeightInv
<1>10. CASE FirstAttemptFails \/ NewBlockEvent \/ PollHeight \/ PollReturns
  BY <1>10 DEF FirstAttemptFails, NewBlockEvent, PollHeight, PollReturns, Tracked, nodeVars,
     consumerVars, HeightInv
<1>11. CASE Launch
  <2>1. inFlight' = inFlight \cup {fetchHeight} /\ fetchHeight > 0
    BY <1>11 DEF Launch
  <2>2. /\ UNCHANGED <<chainHeight, earliestBlockHeight, buffer, consumer, currentHeight>>
        /\ fetchHeight' > 0
    BY <1>11 DEF Launch, nodeVars, consumerVars
  <2> QED
    BY <2>1, <2>2 DEF HeightInv
<1>12. CASE AllSettled
  BY <1>12 DEF AllSettled, nodeVars, consumerVars, HeightInv
<1>13. CASE LoopEnds \/ FetcherStops \/ StopFetching
  BY <1>13 DEF LoopEnds, FetcherStops, StopFetching, nodeVars, consumerVars, HeightInv
<1>14. CASE Take
  BY <1>14 DEF Take, nodeVars, fetcherVars, HeightInv
<1> QED
  BY <1>2, <1>3, <1>4, <1>5, <1>6, <1>7, <1>8, <1>9, <1>10, <1>11, <1>12, <1>13, <1>14
  DEF Next, ExportMovesCursor, IteratorSteps, allVars

-------------------------------------------------------------------------------
\* The cursor and the queue.

\* The numbers of the invariants.
LEMMA Numbers ==
  ASSUME ListenerInv
  PROVE  /\ stateHeight \in Nat /\ exported \in Nat /\ exported <= stateHeight
         /\ startHeight \in Nat /\ currentHeight \in Nat /\ origin \in Nat
         /\ MaxHeight \in Nat /\ MinStartHeight \in Nat /\ remaining \in Seq(Kinds)
         /\ Len(remaining) \in Nat
BY IteratorAssumption
DEF ListenerInv, ListenerTypeOK, IndInv, IteratorTypeOK, MinStartHeight, Kinds

\* A step that leaves the listener's state and the block being emitted alone.
LEMMA QuietStep ==
  ASSUME ListenerInv, UNCHANGED <<listenerVars, startHeight, currentHeight, remaining>>,
         consumer' = consumer \/ consumer' \in {"resolved", "rejected"}
  PROVE  EmitInv' /\ DoneInv' /\ CursorInv'
<1>1. UNCHANGED <<stateHeight, queued, origin, announced, exported, startHeight, currentHeight, remaining>>
  BY DEF listenerVars
<1>2. Returned' = Returned /\ (Loaded' => Loaded) /\ \A h : Queued(h)' = Queued(h)
  BY <1>1 DEF Returned, Loaded, Queued, JobsOf
<1>3. EmitInv'
  BY <1>1, <1>2 DEF ListenerInv, EmitInv
<1>4. DoneInv'
  BY <1>1, <1>2 DEF ListenerInv, DoneInv
<1>5. CursorInv'
  BY <1>1, <1>2 DEF ListenerInv, CursorInv, RestartRepeatsOneBlock
<1> QED
  BY <1>3, <1>4, <1>5

\* What has been queued stays queued.
LEMMA QueuedGrows ==
  ASSUME queued \subseteq queued', NEW h, Queued(h)
  PROVE  Queued(h)'
BY DEF Queued, JobsOf

\* A callback that is due and does not throw is one of a block that was loaded.
LEMMA CallbackOfBlock ==
  ASSUME ListenerInv, consumer = "emitting", Callback # "blockError"
  PROVE  /\ Loaded /\ currentHeight \in 1..MaxHeight /\ remaining # <<>>
         /\ Len(BlockTxs[currentHeight]) \in Nat /\ Returned \in 0..Len(BlockTxs[currentHeight])
         /\ Len(remaining) = Len(BlockTxs[currentHeight]) + 1 - Returned
         /\ Returned = 0 => Callback = "block"
         /\ Returned > 0 => Callback = BlockTxs[currentHeight][Returned]
         /\ TxJob = <<currentHeight, Returned>>
<1>1. currentHeight \in 1..MaxHeight /\ remaining # <<>>
  BY DEF ListenerInv, HeightInv, IndInv, ControlInv
<1>2. remaining # BlockError
  BY DEF Callback, BlockError
<1>3. Loaded
  BY <1>2 DEF Loaded
<1>4. /\ Returned \in 0..Len(BlockTxs[currentHeight])
      /\ \A j \in 1..Len(remaining) : remaining[j] = Callbacks(currentHeight)[Returned + j]
  BY <1>3 DEF ListenerInv, EmitInv
<1>5. /\ Len(BlockTxs[currentHeight]) \in Nat
      /\ Callbacks(currentHeight)[1] = "block"
      /\ \A i \in 1..Len(BlockTxs[currentHeight]) :
           Callbacks(currentHeight)[i + 1] = BlockTxs[currentHeight][i]
  BY <1>1, BlockCallbacks
<1>6. Len(remaining) \in Nat /\ Len(remaining) > 0 /\ Callback = remaining[1]
  BY <1>1, Numbers, TailFacts DEF Callback
<1>7. Callback = Callbacks(currentHeight)[Returned + 1]
  BY <1>4, <1>6
<1>8. Returned > 0 => Returned \in 1..Len(BlockTxs[currentHeight])
  BY <1>4, <1>5
<1>9. Returned = 0 => Returned + 1 = 1
  OBVIOUS
<1>10. /\ Returned = 0 => Callback = "block"
       /\ Returned > 0 => Callback = BlockTxs[currentHeight][Returned]
  BY <1>5, <1>7, <1>8, <1>9
<1>11. Len(remaining) = Len(BlockTxs[currentHeight]) + 1 - Returned
  BY <1>5, <1>6 DEF Returned
<1>12. TxJob = <<currentHeight, Returned>>
  BY <1>5, <1>6 DEF TxJob, Returned
<1> QED
  BY <1>1, <1>3, <1>4, <1>5, <1>10, <1>11, <1>12

\* The jobs of a block, from those of its transactions one by one.
LEMMA QueuedOne ==
  ASSUME NEW h, \A i \in DOMAIN BlockTxs[h] : BlockTxs[h][i] = "tx" => <<h, i>> \in queued'
  PROVE  Queued(h)'
<1>1. \A i \in {k \in DOMAIN BlockTxs[h] : BlockTxs[h][k] = "tx"} : <<h, i>> \in queued'
  OBVIOUS
<1> QED
  BY <1>1 DEF Queued, JobsOf

\* The callbacks left after one has returned, of m + 1 of which k had returned.
LEMMA OneFewer ==
  ASSUME NEW m \in Nat, NEW k \in 0..m, NEW l \in Nat, l = m + 1 - k
  PROVE  /\ l = 1 => k = m
         /\ l # 1 => m + 1 - (l - 1) = k + 1 /\ k + 1 \in 0..m
OBVIOUS

\* A callback returns: its transaction has been queued, or its block is at the cursor.
LEMMA AdvanceStep ==
  ASSUME ListenerInv, CallbackReturns, queued \subseteq queued',
         Callback = "tx" => TxJob \in queued',
         stateHeight' = stateHeight \/ stateHeight' = Greatest(stateHeight, currentHeight),
         Callback = "block" => stateHeight' = Greatest(stateHeight, currentHeight),
         UNCHANGED <<origin, announced, exported>>
  PROVE  EmitInv' /\ DoneInv' /\ CursorInv'
<1> DEFINE n == Len(BlockTxs[currentHeight])
<1>1. consumer = "emitting" /\ Callback # "blockError"
  BY ListenerAssumption DEF CallbackReturns, Throws
<1>2. /\ Loaded /\ currentHeight \in 1..MaxHeight /\ remaining # <<>>
      /\ n \in Nat /\ Returned \in 0..n /\ Len(remaining) = n + 1 - Returned
      /\ Returned = 0 => Callback = "block"
      /\ Returned > 0 => Callback = BlockTxs[currentHeight][Returned]
      /\ TxJob = <<currentHeight, Returned>>
  BY <1>1, CallbackOfBlock
<1>3. /\ \A j \in 1..Len(remaining) : remaining[j] = Callbacks(currentHeight)[Returned + j]
      /\ \A i \in 1..(Returned - 1) :
           BlockTxs[currentHeight][i] = "tx" => <<currentHeight, i>> \in queued
  BY <1>2 DEF ListenerInv, EmitInv
<1>4. /\ stateHeight \in Nat /\ exported \in Nat /\ exported <= stateHeight
      /\ startHeight \in Nat /\ currentHeight \in Nat /\ MaxHeight \in Nat
      /\ remaining \in Seq(Kinds)
  BY Numbers
<1>5. /\ remaining' = Tail(remaining) /\ startHeight' = startHeight
      /\ IF Tail(remaining) = <<>>
         THEN consumer' = "polling" /\ currentHeight' = currentHeight + 1
         ELSE consumer' = "emitting" /\ currentHeight' = currentHeight
  BY <1>1 DEF CallbackReturns
<1>6. PICK c \in Nat : stateHeight' = c /\ c \in {stateHeight, Greatest(stateHeight, currentHeight)}
  BY <1>4 DEF Greatest
<1>7. stateHeight <= c /\ (c <= stateHeight \/ c <= currentHeight)
  BY <1>4, <1>6 DEF Greatest
<1>8. currentHeight <= c
  <2>1. CASE Returned = 0
    BY <1>2, <1>4, <1>6, <2>1 DEF Greatest
  <2>2. CASE Returned # 0
    <3>1. Returned > 0
      BY <1>2, <2>2
    <3>2. currentHeight <= stateHeight
      BY <1>2, <1>4, <3>1 DEF ListenerInv, CursorInv
    <3> QED
      BY <1>4, <1>7, <3>2
  <2> QED
    BY <2>1, <2>2
<1>9. \A i \in 1..Returned : BlockTxs[currentHeight][i] = "tx" => <<currentHeight, i>> \in queued'
  <2>1. \A i \in 1..Returned : i \in 1..(Returned - 1) \/ (i = Returned /\ Returned > 0)
    BY <1>2
  <2> QED
    BY <1>2, <1>3, <2>1
<1>10. /\ \A h \in 1..MaxHeight : startHeight <= h /\ h < currentHeight => Queued(h)
       /\ \A h \in 1..MaxHeight :
            origin > 0 /\ origin <= h /\ exported <= h /\ h < startHeight /\ h \notin announced => Queued(h)
       /\ stateHeight <= exported \/ stateHeight <= startHeight \/ stateHeight <= currentHeight
  BY DEF ListenerInv, DoneInv, CursorInv
<1>11. CASE Tail(remaining) = <<>>
  <2>1. consumer' = "polling" /\ currentHeight' = currentHeight + 1
    BY <1>5, <1>11
  <2>2. Returned = n
    <3>1. Len(remaining) = 1
      BY <1>2, <1>4, <1>11, TailFacts
    <3> HIDE DEF n
    <3> QED
      BY <1>2, <3>1, OneFewer
  <2>3. \A h \in 1..MaxHeight : h = currentHeight => Queued(h)'
    <3>1. BlockTxs[currentHeight] \in Seq({"tx", "txError"})
      BY <1>2, BlockCallbacks
    <3>2. DOMAIN BlockTxs[currentHeight] = 1..n
      BY <3>1
    <3> SUFFICES ASSUME NEW h \in 1..MaxHeight, h = currentHeight PROVE Queued(h)'
      OBVIOUS
    <3>3. \A i \in DOMAIN BlockTxs[h] : BlockTxs[h][i] = "tx" => <<h, i>> \in queued'
      BY <1>9, <2>2, <3>2
    <3> QED
      BY <3>3, QueuedOne
  <2>4. \A h \in 1..MaxHeight : h < currentHeight + 1 => h < currentHeight \/ h = currentHeight
    BY <1>4
  <2>5. DoneInv'
    BY <1>5, <1>10, <2>1, <2>3, <2>4, QueuedGrows DEF DoneInv
  <2>6. EmitInv' /\ ~Loaded'
    BY <2>1 DEF EmitInv, Loaded
  <2>7. CursorInv'
    <3>1. c <= exported \/ c <= startHeight \/ c <= currentHeight + 1
      BY <1>4, <1>7, <1>10
    <3>2. exported <= c /\ c >= (currentHeight + 1) - 1
      BY <1>4, <1>7, <1>8
    <3> QED
      BY <1>5, <1>6, <2>1, <2>6, <3>1, <3>2 DEF CursorInv, RestartRepeatsOneBlock
  <2> QED
    BY <2>5, <2>6, <2>7
<1>12. CASE Tail(remaining) # <<>>
  <2>1. consumer' = "emitting" /\ currentHeight' = currentHeight
    BY <1>5, <1>12
  <2>2. /\ Len(Tail(remaining)) = Len(remaining) - 1
        /\ \A j \in 1..(Len(remaining) - 1) : Tail(remaining)[j] = remaining[j + 1]
        /\ Len(remaining) # 1 /\ Len(remaining) \in Nat /\ Len(remaining) > 0
    BY <1>2, <1>4, <1>12, TailFacts
  <2>3. Returned' = Returned + 1 /\ Returned + 1 \in 0..n
    <3>1. Returned' = n + 1 - Len(Tail(remaining))
      BY <1>5, <2>1 DEF Returned
    <3> HIDE DEF n
    <3>2. n + 1 - (Len(remaining) - 1) = Returned + 1 /\ Returned + 1 \in 0..n
      BY <1>2, <2>2, OneFewer
    <3> QED
      BY <2>2, <3>1, <3>2
  <2>4. \A j \in 1..Len(Tail(remaining)) :
          Tail(remaining)[j] = Callbacks(currentHeight)[(Returned + 1) + j]
    <3>1. \A j \in 1..(Len(remaining) - 1) : /\ j + 1 \in 1..Len(remaining)
                                             /\ Returned + (j + 1) = (Returned + 1) + j
      BY <1>2, <2>2
    <3> QED
      BY <1>3, <2>2, <3>1
  <2>5. EmitInv'
    <3>1. (Returned + 1) - 1 = Returned
      BY <1>2
    <3>2. Callbacks(currentHeight)' = Callbacks(currentHeight)
      BY <2>1 DEF Callbacks
    <3> QED
      BY <1>5, <1>9, <2>1, <2>3, <2>4, <3>1, <3>2 DEF EmitInv
  <2>6. DoneInv'
    BY <1>5, <1>10, <2>1, QueuedGrows DEF DoneInv
  <2>7. CursorInv'
    <3>1. c <= exported \/ c <= startHeight \/ c <= currentHeight
      BY <1>4, <1>7, <1>10
    <3>2. exported <= c
      BY <1>4, <1>7
    <3> QED
      BY <1>5, <1>6, <1>8, <2>1, <3>1, <3>2 DEF CursorInv, RestartRepeatsOneBlock
  <2> QED
    BY <2>5, <2>6, <2>7
<1> QED
  BY <1>11, <1>12

\* A callback rejects, after some of what it does.
LEMMA RejectStep ==
  ASSUME ListenerInv, Rejects, queued \subseteq queued',
         stateHeight' = stateHeight \/ stateHeight' = Greatest(stateHeight, currentHeight),
         UNCHANGED <<origin, announced, exported>>
  PROVE  EmitInv' /\ DoneInv' /\ CursorInv'
<1>1. consumer' = "rejected" /\ UNCHANGED <<startHeight, currentHeight, remaining>>
  BY DEF Rejects
<1>2. /\ stateHeight \in Nat /\ exported \in Nat /\ exported <= stateHeight
      /\ startHeight \in Nat /\ currentHeight \in Nat
  BY Numbers
<1>3. EmitInv' /\ ~Loaded'
  BY <1>1 DEF EmitInv, Loaded
<1>4. DoneInv'
  BY <1>1, QueuedGrows DEF ListenerInv, DoneInv
<1>5. CursorInv'
  <2>1. PICK c \in Nat : stateHeight' = c /\ c \in {stateHeight, Greatest(stateHeight, currentHeight)}
    BY <1>2 DEF Greatest
  <2>2. stateHeight <= c /\ (c <= stateHeight \/ c <= currentHeight)
    BY <1>2, <2>1 DEF Greatest
  <2>3. stateHeight <= exported \/ stateHeight <= startHeight \/ stateHeight <= currentHeight
    BY DEF ListenerInv, CursorInv
  <2>4. (c <= exported \/ c <= startHeight \/ c <= currentHeight) /\ exported <= c
    BY <1>2, <2>2, <2>3
  <2> QED
    BY <1>1, <1>3, <2>1, <2>4 DEF CursorInv, RestartRepeatsOneBlock
<1> QED
  BY <1>3, <1>4, <1>5

\* The next block is taken out of the buffer.
LEMMA TakeStep ==
  ASSUME ListenerInv, Take, UNCHANGED listenerVars
  PROVE  EmitInv' /\ DoneInv' /\ CursorInv'
<1>1. /\ currentHeight \in DOMAIN buffer /\ remaining' = buffer[currentHeight]
      /\ consumer' = "emitting" /\ UNCHANGED <<startHeight, currentHeight>>
      /\ UNCHANGED <<stateHeight, queued, origin, announced, exported>>
  BY DEF Take, listenerVars
<1>2. currentHeight \in 1..MaxHeight /\ buffer[currentHeight] \in {BlockError, Callbacks(currentHeight)}
  BY <1>1 DEF ListenerInv, HeightInv
<1>3. Loaded' => remaining' = Callbacks(currentHeight)
  BY <1>1, <1>2 DEF Loaded
<1>4. Len(Callbacks(currentHeight)) = Len(BlockTxs[currentHeight]) + 1
      /\ Len(BlockTxs[currentHeight]) \in Nat
  BY <1>2, BlockCallbacks
<1>5. Loaded' => Returned' = 0
  <2>1. Loaded' => Returned' = Len(BlockTxs[currentHeight]) + 1 - (Len(BlockTxs[currentHeight]) + 1)
    BY <1>1, <1>3, <1>4 DEF Returned
  <2> QED
    BY <1>4, <2>1
<1>6. EmitInv'
  <2> SUFFICES ASSUME Loaded' PROVE EmitInv'
    BY DEF EmitInv
  <2>1. Callbacks(currentHeight)' = Callbacks(currentHeight) /\ Returned' = 0
    BY <1>1, <1>5 DEF Callbacks
  <2>2. 0 \in 0..Len(BlockTxs[currentHeight]) /\ 1..(0 - 1) = {}
    BY <1>4
  <2>3. \A j \in 1..Len(remaining') : remaining'[j] = Callbacks(currentHeight)[0 + j]
    BY <1>3, <1>4
  <2> QED
    BY <1>1, <2>1, <2>2, <2>3 DEF EmitInv
<1>7. \A h : Queued(h)' = Queued(h)
  BY <1>1 DEF Queued, JobsOf
<1>8. DoneInv'
  BY <1>1, <1>7 DEF ListenerInv, DoneInv
<1>9. CursorInv'
  BY <1>1, <1>5 DEF ListenerInv, CursorInv, RestartRepeatsOneBlock
<1> QED
  BY <1>6, <1>8, <1>9

\* An iteration starts: what it skips is reported, or lies before the first start.
LEMMA StartStep ==
  ASSUME ListenerInv, ListenerStarts
  PROVE  EmitInv' /\ DoneInv' /\ CursorInv'
<1>1. /\ stateHeight \in Nat /\ exported \in Nat /\ exported <= stateHeight
      /\ startHeight \in Nat /\ currentHeight \in Nat /\ origin \in Nat
      /\ MaxHeight \in Nat /\ MinStartHeight \in Nat
  BY Numbers
<1> DEFINE start == IF startHeight < MinStartHeight THEN MinStartHeight ELSE startHeight
<1>2. /\ startHeight' = start /\ consumer' \in {"polling", "rejected"}
      /\ currentHeight' \in {start, currentHeight}
      /\ consumer' = "polling" => currentHeight' = start
      /\ UNCHANGED <<stateHeight, queued, exported, remaining>>
      /\ origin' = IF startHeight = 0 \/ origin = 0 THEN start ELSE origin
      /\ announced' = IF StartTooLow THEN announced \cup (startHeight .. (MinStartHeight - 1))
                      ELSE announced
  BY DEF ListenerStarts, Start
<1>3. start \in Nat /\ startHeight <= start
  BY <1>1
<1>4. EmitInv' /\ ~Loaded'
  BY <1>2 DEF EmitInv, Loaded
<1>5. \A h : Queued(h)' = Queued(h)
  BY <1>2 DEF Queued, JobsOf
<1>6. /\ \A h \in 1..MaxHeight : startHeight <= h /\ h < currentHeight => Queued(h)
      /\ \A h \in 1..MaxHeight :
           origin > 0 /\ origin <= h /\ exported <= h /\ h < startHeight /\ h \notin announced => Queued(h)
  BY DEF ListenerInv, DoneInv
<1>7. DoneInv'
  <2>1. ASSUME NEW h \in 1..MaxHeight, startHeight' <= h, h < currentHeight' PROVE Queued(h)
    <3>1. start <= h
      BY <1>2, <2>1
    <3>2. currentHeight' # start
      BY <1>1, <1>3, <2>1, <3>1
    <3>3. h < currentHeight /\ startHeight <= h
      BY <1>1, <1>2, <1>3, <2>1, <3>1, <3>2
    <3> QED
      BY <1>6, <3>3
  <2>2. ASSUME NEW h \in 1..MaxHeight,
               origin' > 0, origin' <= h, exported <= h, h < start, h \notin announced'
        PROVE  Queued(h)
    <3>1. ~(startHeight = 0 \/ origin = 0) /\ origin' = origin
      BY <1>1, <1>2, <1>3, <2>2
    <3>2. h \notin announced
      BY <1>2, <2>2
    <3>3. CASE startHeight < MinStartHeight
      <4>1. StartTooLow /\ start = MinStartHeight
        BY <1>1, <3>1, <3>3 DEF StartTooLow
      <4>2. h \notin startHeight .. (MinStartHeight - 1)
        BY <1>2, <2>2, <4>1
      <4>3. h < startHeight
        BY <1>1, <2>2, <4>1, <4>2
      <4> QED
        BY <1>1, <1>6, <2>2, <3>1, <3>2, <4>3
    <3>4. CASE ~(startHeight < MinStartHeight)
      BY <1>1, <1>6, <2>2, <3>1, <3>2, <3>4
    <3> QED
      BY <3>3, <3>4
  <2> HIDE DEF start
  <2> QED
    BY <1>2, <1>5, <2>1, <2>2 DEF DoneInv
<1>8. CursorInv'
  <2>1. stateHeight <= exported \/ stateHeight <= startHeight \/ stateHeight <= currentHeight
    BY DEF ListenerInv, CursorInv
  <2>2. startHeight <= start
    BY <1>3
  <2>3. currentHeight = 0
    BY DEF ListenerInv, FreshInv, ListenerStarts, Start
  <2>4. stateHeight <= exported \/ stateHeight <= start
    BY <1>1, <1>3, <2>1, <2>3
  <2> HIDE DEF start
  <2>5. consumer' = "polling" => ~(currentHeight' > startHeight')
    BY <1>2, <1>3
  <2> QED
    BY <1>1, <1>2, <1>4, <2>4, <2>5 DEF CursorInv, RestartRepeatsOneBlock
<1> QED
  BY <1>4, <1>7, <1>8

\* Below the cursor everything has been queued, in any state of the invariant.
LEMMA CursorSaysQueued == ListenerInv => BelowCursorQueued
<1> SUFFICES ASSUME ListenerInv, NEW h \in 1..MaxHeight,
                    origin > 0, origin <= h, exported <= h, h < stateHeight, h \notin announced
             PROVE  Queued(h)
  BY DEF BelowCursorQueued, Queued
<1>1. /\ stateHeight \in Nat /\ exported \in Nat /\ startHeight \in Nat /\ currentHeight \in Nat
      /\ MaxHeight \in Nat
  BY Numbers
<1>2. stateHeight <= exported \/ stateHeight <= startHeight \/ stateHeight <= currentHeight
  BY DEF ListenerInv, CursorInv
<1>3. h < startHeight \/ (startHeight <= h /\ h < currentHeight)
  BY <1>1, <1>2
<1> QED
  BY <1>3 DEF ListenerInv, DoneInv

\* The process is started again from the cursor.
LEMMA RestartStep ==
  ASSUME ListenerInv, Restart
  PROVE  EmitInv' /\ DoneInv' /\ CursorInv'
<1>1. /\ startHeight' = stateHeight /\ consumer' = "starting" /\ currentHeight' = 0
      /\ UNCHANGED <<stateHeight, queued, origin, announced, exported>>
  BY DEF Restart
<1>2. /\ stateHeight \in Nat /\ exported \in Nat /\ exported <= stateHeight /\ MaxHeight \in Nat
  BY Numbers
<1>3. EmitInv' /\ ~Loaded'
  BY <1>1 DEF EmitInv, Loaded
<1>4. DoneInv'
  <2>1. \A h \in 1..MaxHeight :
          origin > 0 /\ origin <= h /\ exported <= h /\ h < stateHeight /\ h \notin announced => Queued(h)
    BY CursorSaysQueued DEF BelowCursorQueued, Queued
  <2>2. \A h \in 1..MaxHeight : ~(h < 0)
    OBVIOUS
  <2>3. \A h : Queued(h)' = Queued(h)
    BY <1>1 DEF Queued, JobsOf
  <2> QED
    BY <1>1, <2>1, <2>2, <2>3 DEF DoneInv
<1>5. CursorInv'
  BY <1>1, <1>2, <1>3 DEF CursorInv, RestartRepeatsOneBlock
<1> QED
  BY <1>3, <1>4, <1>5

\* An export worker moves the cursor.
LEMMA ExportStep ==
  ASSUME ListenerInv, ExportMovesCursor
  PROVE  EmitInv' /\ DoneInv' /\ CursorInv'
<1>1. PICK height \in 1..chainHeight : /\ stateHeight' = Greatest(stateHeight, height)
                                       /\ exported' = Greatest(exported, height)
  BY DEF ExportMovesCursor
<1>2. /\ stateHeight \in Nat /\ exported \in Nat /\ exported <= stateHeight
      /\ startHeight \in Nat /\ currentHeight \in Nat /\ MaxHeight \in Nat /\ height \in Nat
  BY <1>1, Numbers
<1> DEFINE c == Greatest(stateHeight, height)
           e == Greatest(exported, height)
<1>3. /\ c \in Nat /\ e \in Nat /\ stateHeight <= c /\ exported <= e /\ e <= c
      /\ c <= stateHeight \/ c <= e
  BY <1>2 DEF Greatest
<1>4. UNCHANGED <<consumer, startHeight, currentHeight, remaining, queued, origin, announced>>
  BY DEF ExportMovesCursor, iteratorVars, consumerVars
<1>5. /\ Returned' = Returned /\ Loaded' = Loaded /\ \A h : Queued(h)' = Queued(h)
  BY <1>4 DEF Returned, Loaded, Queued, JobsOf
<1>6. EmitInv'
  BY <1>4, <1>5 DEF ListenerInv, EmitInv
<1> HIDE DEF c, e
<1>7. stateHeight' = c /\ exported' = e
  BY <1>1 DEF c, e
<1>8. DoneInv'
  <2>1. \A h \in 1..MaxHeight : e <= h => exported <= h
    BY <1>2, <1>3
  <2> QED
    BY <1>4, <1>5, <1>7, <2>1 DEF ListenerInv, DoneInv
<1>9. CursorInv'
  <2>1. /\ stateHeight <= exported \/ stateHeight <= startHeight \/ stateHeight <= currentHeight
        /\ Loaded /\ Returned > 0 => stateHeight >= currentHeight
        /\ consumer = "polling" /\ currentHeight > startHeight => stateHeight >= currentHeight - 1
    BY DEF ListenerInv, CursorInv, RestartRepeatsOneBlock
  <2>2. /\ c <= e \/ c <= startHeight \/ c <= currentHeight
        /\ stateHeight >= currentHeight => c >= currentHeight
        /\ stateHeight >= currentHeight - 1 => c >= currentHeight - 1
    BY <1>2, <1>3, <2>1
  <2> QED
    BY <1>3, <1>4, <1>5, <1>7, <2>1, <2>2 DEF CursorInv, RestartRepeatsOneBlock
<1> QED
  BY <1>6, <1>8, <1>9

-------------------------------------------------------------------------------
\* The invariant.

\* No step breaks it.
LEMMA NextInv == ListenerInv /\ [Next]_allVars => ListenerInv'
<1> SUFFICES ASSUME ListenerInv, [Next]_allVars PROVE ListenerInv'
  OBVIOUS
<1>1. IndInv' /\ ListenerTypeOK' /\ HeightInv'
  BY IndInvStep, ListenerTypes, HeightStep
<1>2. CASE ListenerStarts
  <2>1. FreshInv'
    BY <1>2 DEF ListenerStarts, Start, FreshInv
  <2> QED
    BY <1>1, <1>2, <2>1, StartStep DEF ListenerInv
<1>3. CASE OnBlock \/ OnTx \/ (OnError /\ CallbackReturns)
  <2>1. /\ CallbackReturns /\ queued \subseteq queued'
        /\ Callback = "tx" => TxJob \in queued'
        /\ stateHeight' = stateHeight \/ stateHeight' = Greatest(stateHeight, currentHeight)
        /\ Callback = "block" => stateHeight' = Greatest(stateHeight, currentHeight)
        /\ UNCHANGED <<origin, announced, exported>>
    BY <1>3 DEF OnBlock, OnTx, OnError, listenerVars
  <2>2. FreshInv'
    BY <2>1 DEF CallbackReturns, FreshInv
  <2> QED
    BY <1>1, <2>1, <2>2, AdvanceStep DEF ListenerInv
<1>4. CASE OnBlockFails \/ OnTxFails \/ (OnError /\ Rejects)
  <2>1. /\ Rejects /\ queued \subseteq queued'
        /\ stateHeight' = stateHeight \/ stateHeight' = Greatest(stateHeight, currentHeight)
        /\ UNCHANGED <<origin, announced, exported>>
    BY <1>4 DEF OnBlockFails, OnTxFails, OnError, listenerVars
  <2>2. FreshInv'
    BY <2>1 DEF Rejects, FreshInv
  <2> QED
    BY <1>1, <2>1, <2>2, RejectStep DEF ListenerInv
<1>5. CASE Restart
  <2>1. FreshInv'
    BY <1>5 DEF Restart, FreshInv
  <2> QED
    BY <1>1, <1>5, <2>1, RestartStep DEF ListenerInv
<1>6. CASE ExportMovesCursor
  <2>1. FreshInv'
    BY <1>6 DEF ExportMovesCursor, iteratorVars, consumerVars, FreshInv, ListenerInv
  <2> QED
    BY <1>1, <1>6, <2>1, ExportStep DEF ListenerInv
<1>7. CASE Take /\ UNCHANGED listenerVars
  <2>1. FreshInv'
    BY <1>7 DEF Take, FreshInv
  <2> QED
    BY <1>1, <1>7, <2>1, TakeStep DEF ListenerInv
<1>8. ASSUME UNCHANGED <<listenerVars, startHeight, currentHeight, remaining>>,
             consumer' = consumer \/ consumer' \in {"resolved", "rejected"}
      PROVE  ListenerInv'
  <2>1. FreshInv'
    BY <1>8 DEF ListenerInv, FreshInv
  <2> QED
    BY <1>1, <1>8, <2>1, QuietStep DEF ListenerInv
<1>9. CASE ListenerFetches
  <2>1. UNCHANGED <<listenerVars, consumerVars>>
    BY <1>9 DEF ListenerFetches, FetchSettles
  <2> QED
    BY <1>8, <2>1 DEF consumerVars
<1>10. CASE IteratorSteps /\ ~Take
  <2>1. /\ UNCHANGED <<listenerVars, startHeight, currentHeight, remaining>>
        /\ consumer' = consumer \/ consumer' \in {"resolved", "rejected"}
    BY <1>10 DEF IteratorSteps, NewBlock, Prune, StartFails, FirstAttemptFails, NewBlockEvent,
       PollHeight, PollReturns, Launch, AllSettled, LoopEnds, FetcherStops, Resolves, StopFetching,
       consumerVars
  <2> QED
    BY <1>8, <2>1
<1>11. CASE UNCHANGED allVars
  <2>1. /\ UNCHANGED <<listenerVars, startHeight, currentHeight, remaining>>
        /\ consumer' = consumer
    BY <1>11 DEF allVars, iteratorVars, consumerVars
  <2> QED
    BY <1>8, <2>1
<1>12. OnError => CallbackReturns \/ Rejects
  BY DEF OnError
<1>13. IteratorSteps => UNCHANGED listenerVars
  BY DEF IteratorSteps
<1> QED
  BY <1>2, <1>3, <1>4, <1>5, <1>6, <1>7, <1>9, <1>10, <1>11, <1>12, <1>13 DEF Next

\* A listener that has never run.
LEMMA InitInv == Init => ListenerInv
<1> SUFFICES ASSUME Init PROVE ListenerInv
  OBVIOUS
<1>1. IndInv
  BY InductiveInit DEF Init
<1>2. /\ MaxHeight \in Nat \ {0} /\ MaxRestarts \in Nat
  BY IteratorAssumption, ListenerAssumption
<1>3. /\ chainHeight \in 1..MaxHeight /\ earliestBlockHeight = 1 /\ startHeight = 0
      /\ fetcher = "idle" /\ inFlight = {} /\ DOMAIN buffer = {} /\ consumer = "starting"
      /\ currentHeight = 0 /\ stateHeight = 0 /\ queued = {} /\ restarts = 0 /\ origin = 0
      /\ announced = {} /\ exported = 0
  BY DEF Init, IteratorInit
<1>4. ListenerTypeOK
  <2>1. restarts \in 0..MaxRestarts /\ exported \in 0..stateHeight
    BY <1>2, <1>3
  <2> QED
    BY <1>1, <1>3, <2>1 DEF ListenerTypeOK, IndInv
<1>5. HeightInv /\ FreshInv /\ EmitInv /\ ~Loaded
  BY <1>2, <1>3 DEF HeightInv, FreshInv, EmitInv, Loaded
<1>6. DoneInv
  BY <1>2, <1>3 DEF DoneInv
<1>7. CursorInv
  BY <1>3, <1>5 DEF CursorInv, RestartRepeatsOneBlock
<1> QED
  BY <1>1, <1>4, <1>5, <1>6, <1>7 DEF ListenerInv

\* The invariant holds throughout.
LEMMA Invariance == Spec => []ListenerInv
BY InitInv, NextInv, PTL DEF Spec

\* The state of the listener and of its iterator keeps its types, and no export
\* is ahead of the cursor.
THEOREM ListenerTypeCorrect == Spec => []ListenerTypeOK
<1>1. ListenerInv => ListenerTypeOK
  BY DEF ListenerInv
<1> QED
  BY <1>1, Invariance, PTL

\* A process that crashes at any point and is started again iterates as a new one
\* does: the buffer stays bounded and no block is skipped.
THEOREM RestartsIterate == Spec => [](BufferBounded /\ NoGap)
<1>1. ListenerInv => BufferBounded /\ NoGap
  BY DEF ListenerInv, IndInv
<1> QED
  BY <1>1, Invariance, PTL

\* scripts/listener.ts: whenever the process crashed, every transaction below the
\* cursor has been queued, except in pruned blocks, which are reported, and below
\* a block that an export worker moved the cursor to.
THEOREM CursorIsSound == Spec => []BelowCursorQueued
BY CursorSaysQueued, Invariance, PTL

\* A restart repeats at most the block that the cursor is at.
THEOREM OneBlockIsRepeated == Spec => []RestartRepeatsOneBlock
<1>1. ListenerInv => RestartRepeatsOneBlock
  BY DEF ListenerInv, CursorInv
<1> QED
  BY <1>1, Invariance, PTL
=============================================================================
