-------------------------- MODULE Transformations --------------------------
(***************************************************************************)
(* Transformations of contract state: transformParsedStateEvents, which    *)
(* the exporter calls with each batch of events it wrote, and the          *)
(* transformations queue, which goes through the events again.  An item of *)
(* the contract becomes a transformation of its own; a Map<K, ()> becomes  *)
(* one transformation that holds the list of its keys and is computed from *)
(* the list before (makeTransformerForMapList).                            *)
(***************************************************************************)
EXTENDS Integers, Sequences, FiniteSets, FiniteSetsExt, SequencesExt

CONSTANTS
    Items,              \* keys of items, numbered in the order of keys
    Listed,             \* keys of the map that is turned into a list
    RetransformBatch,   \* batchSize
    TransformBounds     \* bounds of a behaviour: [blocks, writes, repeats, jobs, removals]

VARIABLES
    storage,        \* storage[h]: what the contract held after block h: key -> value
    batches,        \* batches of events not exported yet
    events,         \* WasmStateEvent rows
    table,          \* WasmStateEventTransformation rows
    exported,       \* batches exported, which a retry may export again
    codeKnown,      \* the code id of the contract is under its key
    retransform,    \* the job of the transformations queue
    tBound,         \* what is left of the bounds
    disturbed       \* why the list may be wrong: "split", "again", "removed", "unknown"

transformVars == <<storage, batches, events, table, exported, codeKnown, retransform, tBound, disturbed>>

\* Values: <<>> is null, a value of an item is <<v>>, and '' is <<0>>. A list of
\* keys is the sequence of them; the empty list reads like null.
Null == <<>>
ListName == 0
NameOf(key) == IF key \in Listed THEN ListName ELSE key

Idle == [on |-> FALSE, min |-> 0, total |-> 0, processed |-> 0, last |-> <<0, 0>>, seen |-> {}, start |-> {}]

TransformationsInit ==
    /\ storage = <<>> /\ batches = <<>> /\ events = {} /\ table = {} /\ exported = {}
    /\ codeKnown \in BOOLEAN
    /\ retransform = Idle
    /\ tBound \in TransformBounds
    /\ disturbed = {}

Spend(bound) == tBound[bound] > 0 /\ tBound' = [tBound EXCEPT ![bound] = @ - 1]

-----------------------------------------------------------------------------
(* transformParsedStateEvents.                                             *)

\* Mutant: null is stored.
defaultGetValue_Null(e) == e.value

\* If value is null but this is not a delete event, an empty string is stored.
defaultGetValue(e) == IF e.value = Null /\ ~e.delete THEN <<0>> ELSE e.value

\* The list: a new key is appended. Deletes do not come here, see Evaluate.
appendKey(e, last) == Append(last, e.key)

\* Transformers match a contract only if its code id is known under their key.
TransformerMatches(e) == codeKnown

\* Mutant: the earlier blocks only.
getLastValue_Table(done, e) ==
    LET before == {t \in table : t.name = NameOf(e.key) /\ t.height < e.height}
    IN  IF before = {} THEN Null
        ELSE (CHOOSE t \in before : \A u \in before : u.height <= t.height).value

\* The most recent value: of this group of events, or of an earlier block.
getLastValue(done, e) ==
    LET mine == SelectSeq(done, LAMBDA t : t.name = NameOf(e.key))
        before == {t \in table : t.name = NameOf(e.key) /\ t.height < e.height}
    IN  IF mine # <<>> THEN Last(mine).value
        ELSE IF before = {} THEN Null
        ELSE (CHOOSE t \in before : \A u \in before : u.height <= t.height).value

\* A delete is null, without asking the transformer: none of them sets
\* manuallyTransformDeletes, the list included.
Evaluate(done, e) ==
    IF e.delete THEN Null
    ELSE IF e.key \in Listed THEN appendKey(e, getLastValue(done, e))
    ELSE defaultGetValue(e)

\* One transformation per name and height: a later one replaces the value.
Saved(done, e) ==
    LET new == [name |-> NameOf(e.key), height |-> e.height, value |-> Evaluate(done, e)]
        same == {i \in DOMAIN done : done[i].name = new.name /\ done[i].height = new.height}
    IN  IF same = {} THEN Append(done, new)
        ELSE [i \in DOMAIN done |-> IF i \in same THEN new ELSE done[i]]

\* The same; the set makes TLC evaluate its argument once.
Evaluated(done, e) == CHOOSE next \in {Saved(d, e) : d \in {done}} : TRUE

transformParsedStateEvents(es) ==
    LET Store(done) ==
            {t \in table : \A i \in DOMAIN done : done[i].name # t.name \/ done[i].height # t.height}
                \cup ToSet(done)
    IN  UNION {Store(done) : done \in {FoldLeft(Evaluated, <<>>, SelectSeq(es, TransformerMatches))}}

-----------------------------------------------------------------------------
(* The chain and the exporter.                                             *)

Height == Len(storage)
Held == IF storage = <<>> THEN [k \in Items \cup Listed |-> Null] ELSE Last(storage)

\* An item is set, to a value or to JSON null (<<0>>, see defaultGetValue), or
\* removed; a key enters or leaves the map.
Written(k) ==
    IF k \in Items THEN {<<1>>, <<0>>} \cup (IF Held[k] = Null THEN {} ELSE {Null})
    ELSE IF Held[k] = Null THEN {<<1>>} ELSE {Null}

\* The elements of a set in an order.
Ordered(S, Less(_, _)) ==
    [i \in 1 .. Cardinality(S) |-> CHOOSE x \in S : Cardinality({y \in S : Less(y, x)}) = i - 1]

EventFor(k, v) == [key |-> k, height |-> Height + 1, delete |-> v = Null,
                   value |-> IF v = <<0>> THEN Null ELSE v]
EventsOf(writes) == Ordered({EventFor(k, writes[k]) : k \in DOMAIN writes}, LAMBDA e, f : e.key < f.key)

\* A block, whose events the tracer exports as one batch or, when the timer fires
\* in between, as two.
ChainBlock ==
    /\ Spend("blocks")
    /\ \E keys \in kSubset(tBound.writes, Items \cup Listed) :
       \E writes \in {w \in [keys -> UNION {Written(k) : k \in keys}] : \A k \in keys : w[k] \in Written(k)} :
           LET es == EventsOf(writes)
               gone == \E k \in keys \cap Listed : writes[k] = Null
           IN  /\ gone => tBound.removals > 0
               /\ storage' = Append(storage, [k \in DOMAIN Held |-> IF k \in keys THEN writes[k] ELSE Held[k]])
               /\ \E i \in 1 .. Len(es) :
                      /\ batches' = batches \o (IF i = Len(es) THEN <<es>>
                                                ELSE <<SubSeq(es, 1, i), SubSeq(es, i + 1, Len(es))>>)
                      /\ disturbed' = disturbed \cup (IF i = Len(es) THEN {} ELSE {"split"})
                                                \cup (IF gone THEN {"removed"} ELSE {})
    /\ UNCHANGED <<events, table, exported, codeKnown, retransform>>

SameRow(e, f) == e.key = f.key /\ e.height = f.height
ExportEvents(es) ==
    /\ events' = {e \in events : \A i \in DOMAIN es : ~SameRow(e, es[i])} \cup ToSet(es)
    /\ table' = transformParsedStateEvents(es)

\* The exporter writes the events of the next batch and transforms them.
Export ==
    /\ batches # <<>>
    /\ ExportEvents(Head(batches))
    /\ batches' = Tail(batches)
    /\ exported' = exported \cup {Head(batches)}
    /\ disturbed' = disturbed \cup (IF codeKnown THEN {} ELSE {"unknown"})
    /\ UNCHANGED <<storage, codeKnown, retransform, tBound>>

\* A job that failed after it wrote is retried, possibly after later ones.
ExportAgain ==
    /\ Spend("repeats")
    /\ \E es \in exported : ExportEvents(es)
    /\ disturbed' = disturbed \cup {"again"}
    /\ UNCHANGED <<storage, batches, exported, codeKnown, retransform>>

\* The code id becomes known (WasmCodes), after some events were exported.
LearnCode ==
    /\ ~codeKnown /\ codeKnown' = TRUE
    /\ UNCHANGED <<storage, batches, events, table, exported, retransform, tBound, disturbed>>

-----------------------------------------------------------------------------
(* TransformationsQueue.process: batches of events in the order of height, *)
(* contract and key, each after the last event of the one before, until as *)
(* many are processed as were counted at the start.                        *)

Before(e, f) == e.height < f.height \/ (e.height = f.height /\ e.key < f.key)

StartRetransform(min) ==
    /\ ~retransform.on /\ codeKnown /\ Spend("jobs")
    /\ LET rows == {e \in events : e.height >= min}
       IN  /\ rows # {}
           /\ retransform' = [Idle EXCEPT !.on = TRUE, !.min = min, !.total = Cardinality(rows), !.start = rows]
    /\ UNCHANGED <<storage, batches, events, table, exported, codeKnown, disturbed>>

\* The first of the events.
Batch(es) ==
    CHOOSE page \in {SubSeq(rows, 1, Min({Len(rows), RetransformBatch})) : rows \in {Ordered(es, Before)}} : TRUE

\* Mutant: the rest of the block is skipped.
Page_NextBlock(job) ==
    Batch({e \in events : e.height >= job.min /\ e.height > job.last[1]})

Page(job) ==
    Batch({e \in events : e.height >= job.min /\
               (e.height > job.last[1] \/ (e.height = job.last[1] /\ e.key > job.last[2]))})

\* Mutant: a page is not counted, and the next one is the same.
RetransformPage_Once ==
    \E page \in {Page(retransform)} :
        /\ retransform.on /\ retransform.processed < retransform.total /\ page # <<>>
        /\ table' = transformParsedStateEvents(page)
        /\ retransform' = [retransform EXCEPT !.seen = @ \cup ToSet(page)]
        /\ UNCHANGED <<storage, batches, events, exported, codeKnown, tBound, disturbed>>

RetransformPage ==
    \E page \in {Page(retransform)} :
        /\ retransform.on /\ retransform.processed < retransform.total /\ page # <<>>
        /\ table' = transformParsedStateEvents(page)
        /\ retransform' = [retransform EXCEPT
               !.processed = @ + Len(page), !.last = <<Last(page).height, Last(page).key>>,
               !.seen = @ \cup ToSet(page)]
        /\ disturbed' = disturbed \cup
               (IF \E e \in events \ ToSet(page) : e.height \in {page[i].height : i \in DOMAIN page}
                THEN {"split"} ELSE {})
        /\ UNCHANGED <<storage, batches, events, exported, codeKnown, tBound>>

RetransformEnds ==
    /\ retransform.on
    /\ retransform.processed >= retransform.total \/ Page(retransform) = <<>>
    /\ retransform' = [retransform EXCEPT !.on = FALSE]
    /\ UNCHANGED <<storage, batches, events, table, exported, codeKnown, tBound, disturbed>>

TransformationsNext ==
    \/ ChainBlock \/ Export \/ ExportAgain \/ LearnCode
    \/ \E min \in 0 .. 2 : StartRetransform(min)
    \/ RetransformPage \/ RetransformEnds

TransformationsFairness == WF_transformVars(Export) /\ WF_transformVars(RetransformPage \/ RetransformEnds)

TransformationsSpec == TransformationsInit /\ [][TransformationsNext]_transformVars /\ TransformationsFairness

-----------------------------------------------------------------------------
(* Properties.                                                             *)

TableAt(name, h) ==
    LET upTo == {t \in table : t.name = name /\ t.height <= h}
    IN  IF upTo = {} THEN Null ELSE (CHOOSE t \in upTo : \A u \in upTo : u.height <= t.height).value

\* The height up to which everything was exported.
TransformsSettled == IF batches = <<>> THEN Height ELSE Head(batches)[1].height - 1

\* At every settled height the transformation of an item is what the contract
\* held, in whatever batches its events came, exported twice, or transformed
\* again; unless its code id was not known yet.
ItemsAreRight ==
    "unknown" \notin disturbed =>
        \A h \in 1 .. TransformsSettled, k \in Items : TableAt(k, h) = storage[h][k]

\* The list holds the keys of the map at every settled height, unless a block
\* came in two parts, a batch was exported again, a key was removed or the code
\* id was not known.
ListIsMap ==
    disturbed = {} =>
        \A h \in 1 .. TransformsSettled : ToSet(TableAt(ListName, h)) = {k \in Listed : storage[h][k] # Null}

\* Removing one key of the map leaves the others in the list
\* (makeTransformerForMapList takes the key out).
RemovingKeepsOthers ==
    disturbed \subseteq {"removed"} =>
        \A h \in 1 .. TransformsSettled : ToSet(TableAt(ListName, h)) = {k \in Listed : storage[h][k] # Null}

\* A finished job has transformed every event that there was at its start, though
\* new blocks were exported meanwhile and count among the processed ones.
RetransformCovers ==
    ~retransform.on => retransform.start \subseteq retransform.seen

\* After the code id became known and a job from the first block finished with
\* nothing exported since it started, items are right again.
RetransformRepairs ==
    (~retransform.on /\ retransform.seen = events /\ codeKnown) =>
        \A h \in 1 .. TransformsSettled, k \in Items : TableAt(k, h) = storage[h][k]

\* A job ends, though events are exported all the while.
RetransformTerminates == retransform.on ~> ~retransform.on

\* Transformations are what the contract held, and a job that transforms events
\* again ends, misses none of them and repairs what was wrong.
TransformationsAreRight ==
    /\ []ItemsAreRight
    /\ []ListIsMap
    /\ []RetransformCovers
    /\ []RetransformRepairs
    /\ RetransformTerminates
=============================================================================
