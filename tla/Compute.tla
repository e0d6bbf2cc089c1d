------------------------------ MODULE Compute ------------------------------
(***************************************************************************)
(* Computing a formula at one block and over a range of blocks             *)
(* (src/src/formulas/compute.ts).  A range is computed only at the blocks  *)
(* where an input may have changed: the events of every dependent key seen *)
(* are loaded up to the end of the range, kept by key, and put in the      *)
(* cache of the next computation.                                          *)
(*                                                                         *)
(* A formula is the sequence of getter calls it makes; a call with orElse  *)
(* is made only when the one before it returned undefined (a ?? b), and    *)
(* the value of the formula is the sequence of the values returned.        *)
(***************************************************************************)
EXTENDS FormulaEnv

-----------------------------------------------------------------------------
Apply(db, e, c) ==
    CASE c.op = "get" -> get(db, e, c.key)
      [] c.op = "getMap" -> getMap(db, e, c.key)
      [] c.op = "getDateKeyModified" -> getDateKeyModified(db, e, c.key)
      [] c.op = "getDateKeyFirstSet" -> getDateKeyFirstSet(db, e, c.key)
      [] c.op = "getDateKeyFirstSetWithValueMatch" ->
             getDateKeyFirstSetWithValueMatch(db, e, c.key, c.where)
      [] c.op = "prefetch" -> prefetch(db, e, c.keys)
      [] c.op = "getTransformationMatch" -> getTransformationMatch(db, e, c.key, c.where)
      [] c.op = "getTransformationMatches" ->
             getTransformationMatches(db, e, c.key, c.where, c.codes)
      [] c.op = "getTransformationMap" -> getTransformationMap(db, e, c.key)
      [] c.op = "prefetchTransformations" -> prefetchTransformations(db, e, c.keys)
      [] c.op = "getDateFirstTransformed" -> getDateFirstTransformed(db, e, c.key, c.where)
      [] c.op = "getSlashEvents" -> getSlashEvents(db, e, c.key[1])
      [] c.op = "getTxEvents" -> getTxEvents(db, e, c.key[1])
      [] c.op = "getBalance" -> getBalance(db, e, c.key)
      [] c.op = "getBalances" -> getBalances(db, e, c.key[1])
      [] c.op = "getProposal" -> getProposal(db, e, c.key[1])
      [] c.op = "getProposals" -> getProposals(db, e, c.offset, c.limit)
      [] c.op = "getProposalCount" -> getProposalCount(db, e)
      [] c.op = "getProposalVote" -> getProposalVote(db, e, c.key)
      [] c.op = "getProposalVotes" -> getProposalVotes(db, e, c.key[1], c.offset, c.limit)
      [] c.op = "getProposalVoteCount" -> getProposalVoteCount(db, e, c.key[1])
      [] c.op = "getCommunityPoolBalances" -> getCommunityPoolBalances(db, e)
      [] c.op = "getExtraction" -> getExtraction(db, e, c.key)
      [] c.op = "getExtractions" -> getExtractions(db, e, c.key, c.where)
      [] c.op = "getExtractionMap" -> getExtractionMap(db, e, c.key)
      [] c.op = "getDateFirstExtracted" -> getDateFirstExtracted(db, e, c.key, c.where)
      [] c.op = "getFeegrantAllowance" -> getFeegrantAllowance(db, e, c.key[1], c.key[2])
      [] c.op = "getFeegrantAllowances" -> getFeegrantAllowances(db, e, c.key[1], c.key[2])
      [] c.op = "votingPower" -> snapshotMapMayLoadAtHeight(db, e, c.key, e.block)
      [] c.op = "hasFeegrantAllowance" -> hasFeegrantAllowance(db, e, c.key[1], c.key[2])

\* The calls of a formula in order, in one environment.
RunFormula(db, f, e) ==
    LET Returned(vals, c, g) ==
            [env |-> g, val |-> Append(IF c.orElse THEN Front(vals) ELSE vals, g.out)]
        Step(st, c) ==
            IF c.orElse /\ st.val # <<>> /\ Last(st.val) # Undefined THEN st
            ELSE Returned(st.val, c, Apply(db, st.env, c))
    IN  FoldLeft(Step, [env |-> e, val |-> <<>>], f)

\* The block, value and dependent keys of a run.
OutputOf(run) == [block |-> run.env.latest, value |-> run.val, deps |-> run.env.deps]

\* compute: one block, an empty cache.
compute(db, f, block) == OutputOf(RunFormula(db, f, getEnv(block, <<>>)))

-----------------------------------------------------------------------------
EventKey(r) == [ns |-> r.ns, key |-> r.key]

\* allEvents: the events kept for every key, in the order they were added.
Covers(dk, k) ==
    /\ dk.ns = k.ns
    /\ IF dk.prefix THEN IsPrefix(dk.key, k.key) ELSE dk.key = k.key

\* The first event after the block in the list, and the index of the event taken
\* for current: the one before it, or the last when there is none.
NextIndex(evs, block) == SelectInSeq(evs, LAMBDA ev : ev.height > block)

\* Mutant of CurrentIndex: the event after the block.
CurrentIndex_Next(evs, block) ==
    IF NextIndex(evs, block) = 0 THEN Len(evs) ELSE NextIndex(evs, block)

CurrentIndex(evs, block) ==
    IF NextIndex(evs, block) = 0 THEN Len(evs) ELSE NextIndex(evs, block) - 1

\* Puts the current event of every key seen so far in the cache, the empty set
\* where there is none, and forgets the events before it.
addToCache(deps, allEvents, block) ==
    LET Current(k) == CurrentIndex(allEvents[k], block)
        Keys(dk) == {k \in DOMAIN allEvents : Covers(dk, k) /\ Current(k) > 0}
    IN  [cache |-> [dk \in deps |-> {allEvents[k][Current(k)] : k \in Keys(dk)}],
         events |-> [k \in DOMAIN allEvents |->
                        IF \E dk \in deps : k \in Keys(dk)
                        THEN SubSeq(allEvents[k], Current(k), Len(allEvents[k]))
                        ELSE allEvents[k]]]

\* The block of the first event after the current block of any of these keys.
getNextPotentialBlock(deps, allEvents, block) ==
    LET keys == {k \in DOMAIN allEvents : /\ \E dk \in deps : Covers(dk, k)
                                          /\ NextIndex(allEvents[k], block) > 0}
    IN  IF keys = {} THEN NoBlock
        ELSE Min({allEvents[k][NextIndex(allEvents[k], block)].height : k \in keys})

\* Adds events, in block order, to the list of their key.
AddEvents(allEvents, evs) ==
    LET keys == DOMAIN allEvents \cup {EventKey(ev) : ev \in evs}
        ByBlock(k) == SetToSortSeq({ev \in evs : EventKey(ev) = k},
                                   LAMBDA x, y : x.height < y.height)
        Old(k) == IF k \in DOMAIN allEvents THEN allEvents[k] ELSE <<>>
    IN  [k \in keys |-> Old(k) \o ByBlock(k)]

\* The events used that are not yet, as objects, in the list of their key.
NewlyUsed(allEvents, evs) ==
    {ev \in evs : EventKey(ev) \in DOMAIN allEvents => ~Contains(allEvents[EventKey(ev)], ev)}

\* The models whose events are loaded ahead and found to be newer; the community
\* pool is not among them.
Dependable == {"wasm", "transformation", "tx", "slash", "balance", "bank",
               "feegrant", "proposal", "vote", "extraction"}

\* The rows after a block, up to another, that the dependent keys describe.
LaterRows(db, deps, after, upTo) ==
    {r \in db : /\ after < r.height /\ r.height <= upTo
                /\ \E dk \in deps : dk.ns \in Dependable /\ LikeKey(dk, r)}

\* Only the first result and results of a later block are kept; the one before
\* is valid up to the block of the new one.
Keep(results, out, b) ==
    IF results = <<>> THEN <<[block |-> out.block, value |-> out.value, deps |-> out.deps, valid |-> b]>>
    ELSE IF out.block <= Last(results).block THEN results
    ELSE Front(results) \o
         <<[Last(results) EXCEPT !.valid = out.block - 1],
           [block |-> out.block, value |-> out.value, deps |-> out.deps, valid |-> b]>>

\* The events kept after a run: those it used, and the later ones of keys that
\* no run depended on before.
Collect(db, events, run, new, b, end) ==
    AddEvents(AddEvents(events, NewlyUsed(events, run.env.used)),
              {[ns |-> r.ns, key |-> r.key, height |-> r.height, val |-> r.val,
                obj |-> <<b, 0>>] : r \in LaterRows(db, new, b, end)})

Advance(st, run, events, b) ==
    [results |-> Keep(st.results, OutputOf(run), b),
     deps |-> st.deps \cup ToSet(run.env.deps),
     events |-> events,
     next |-> getNextPotentialBlock(ToSet(run.env.deps), events, b)]

\* One computation of the range, at block b, with the cache of what is known.
computeForBlockInRange(db, f, st, b, end) ==
    LET After(seen, run) ==
            Advance(st, run, Collect(db, seen, run, ToSet(run.env.deps) \ st.deps, b, end), b)
        From(seen) == After(seen.events, RunFormula(db, f, getEnv(b, seen.cache)))
    IN  From(addToCache(st.deps, st.events, b))

\* computeRange: from the first block to each next potential block, in order.
computeRange(db, f, start, end) ==
    LET Step(st, b) == IF b = st.next THEN computeForBlockInRange(db, f, st, b, end) ELSE st
    IN  FoldLeft(Step, [results |-> <<>>, deps |-> {}, events |-> <<>>, next |-> start],
                 [i \in 1 .. (end - start + 1) |-> start + i - 1]).results
=============================================================================
