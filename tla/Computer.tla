------------------------------ MODULE Computer ------------------------------
(***************************************************************************)
(* Range queries and the table of stored computations: the range path of   *)
(* the computer route (server/routes/indexer/computer.ts), the Computation *)
(* model (db/models/Computation.ts), invalidation (db/computation.ts) and  *)
(* the preCompute and revalidate scripts, for one formula and one target.  *)
(* The exporter writes new blocks, and may write rows of a block after the *)
(* block became the latest; an import writes rows at an old height and     *)
(* then invalidates what depends on them.                                  *)
(***************************************************************************)
EXTENDS Compute

CONSTANTS
    Clients,        \* requests and scripts that may be in flight at once
    Formulas,       \* the formulas a behaviour may be about, as calls
    KeysOf(_),      \* the rows' [ns, key] that exist for a formula
    Vals,           \* the values rows may have
    MaxHeight,      \* bound on the chain's height
    MaxRows(_),     \* bound on the rows written
    MaxRequests(_), \* bound on requests and script runs
    MaxLate(_),     \* bound on rows written late and on imports
    Steps,          \* the block steps a query may ask for; 0 is none
    Times,          \* the times a query may ask for
    TimeSteps,      \* the time steps a query may ask for; 0 is none
    Batch,          \* the number of blocks of a preCompute batch
    TimeOf(_)       \* the time of a block, strictly increasing

ASSUME ComputerAssumption ==
    /\ MaxHeight \in Nat \ {0} /\ Batch \in Nat \ {0}
    /\ Steps \subseteq Nat /\ TimeSteps \subseteq Nat

VARIABLES
    formula,    \* the formula of this behaviour
    db,         \* the event tables
    latest,     \* state.latestBlockHeight
    table,      \* the stored computations of the formula
    req,        \* req[c]: the request or script run of client c
    requests,   \* how many there have been
    import,     \* the import under way: the rows it wrote, {} when none
    late,       \* rows a stored computation may not reflect (see below)
    lates       \* how many rows were written late or imported

vars == <<formula, db, latest, table, req, requests, import, late, lates>>

Idle == [phase |-> "idle"]

Init ==
    /\ formula \in Formulas
    /\ db = {} /\ latest = 0 /\ table = {}
    /\ req = [c \in Clients |-> Idle]
    /\ requests = 0 /\ import = {} /\ late = {} /\ lates = 0

-----------------------------------------------------------------------------
(* The event tables.                                                       *)

\* The keys of slashes and transactions contain their block.
Row(k, h, v) ==
    [ns |-> k.ns, key |-> IF k.ns \in {"slash", "tx"} THEN Append(k.key, h) ELSE k.key,
     height |-> h, val |-> v]

\* A row replaces the one with its key and height; BankDenomBalance has one row
\* per key, the last one written.
Upsert(rows, r) ==
    {q \in rows : q.ns = r.ns /\ q.key = r.key => q.height # r.height /\ q.ns # "balance"}
        \cup {r}

\* A write to a snapshot map is a new value and an entry of the changelog.
Writes(rows, k, h, v) ==
    IF k.ns # "snapshot" THEN {Row(k, h, v)}
    ELSE LET before == {q \in rows : q.ns = "transformation" /\ q.key = k.key}
             old == {q.val : q \in {x \in before : \A y \in before : y.height <= x.height}}
         IN  {[ns |-> "transformation", key |-> k.key, height |-> h, val |-> v],
              [ns |-> "transformation", key |-> Append(ChangelogKey(k.key), h), height |-> h,
               val |-> IF old \subseteq {Gone} THEN Absent ELSE CHOOSE x \in old : TRUE]}

\* The next block is exported, with any writes to the formula's keys.
ExportBlock ==
    /\ latest < MaxHeight
    /\ \E ks \in SUBSET KeysOf(formula) : \E w \in [ks -> Vals] :
           /\ Cardinality(db) + Cardinality(ks) <= MaxRows(formula)
           /\ db' = FoldSet(LAMBDA r, rows : Upsert(rows, r), db,
                         UNION {Writes(db, k, latest + 1, w[k]) : k \in ks})
    /\ latest' = latest + 1
    /\ UNCHANGED <<formula, table, req, requests, import, late, lates>>

\* The listener has moved latestBlockHeight past a block whose events the export
\* worker writes only now. Nothing is invalidated on this path.
ExportLate ==
    /\ lates < MaxLate(formula) /\ Cardinality(db) < MaxRows(formula)
    /\ \E k \in KeysOf(formula), h \in 1 .. latest, v \in Vals :
           /\ \A r \in db : r.ns = k.ns /\ r.key = k.key => r.height < h
           /\ db' = Upsert(db, Row(k, h, v))
           /\ late' = late \cup {Row(k, h, v)}
    /\ lates' = lates + 1
    /\ UNCHANGED <<formula, latest, table, req, requests, import>>

\* importRecord writes a snapshot at its own height.
ImportWrite ==
    /\ import = {} /\ lates < MaxLate(formula) /\ Cardinality(db) < MaxRows(formula)
    /\ \E k \in {x \in KeysOf(formula) : x.ns \in {"wasm", "transformation"}},
          h \in 1 .. latest, v \in Vals :
           /\ Row(k, h, v) \notin db
           /\ db' = Upsert(db, Row(k, h, v))
           /\ import' = {Row(k, h, v)}
    /\ lates' = lates + 1
    /\ UNCHANGED <<formula, latest, table, req, requests, late>>

\* Mutant: a computation that starts at the change is only cut short.
invalidateComputationsDependentOnChanges_After(rows) ==
    LET earliest == Min({r.height : r \in rows})
        Depends(c) == \E dk \in c.deps, r \in rows : LikeKey(dk, r)
    IN  {IF Depends(c) /\ c.valid > earliest THEN [c EXCEPT !.valid = earliest] ELSE c :
            c \in {x \in table : ~(Depends(x) /\ x.block > earliest)}}

\* Computations that depend on the changed rows: destroyed when they start at or
\* after the earliest change, cut short when they start before it.
invalidateComputationsDependentOnChanges(rows) ==
    LET earliest == Min({r.height : r \in rows})
        Depends(c) == \E dk \in c.deps, r \in rows : LikeKey(dk, r)
    IN  {IF Depends(c) /\ c.valid >= earliest THEN [c EXCEPT !.valid = earliest - 1] ELSE c :
            c \in {x \in table : ~(Depends(x) /\ x.block >= earliest)}}

\* A computation in flight may have read the tables before the import and store
\* its outputs after this.
ImportInvalidate ==
    /\ import # {}
    /\ table' = invalidateComputationsDependentOnChanges(import)
    /\ late' = IF \E c \in Clients : req[c].phase # "idle" THEN late \cup import ELSE late
    /\ import' = {}
    /\ UNCHANGED <<formula, db, latest, req, requests, lates>>

-----------------------------------------------------------------------------
(* The Computation model.                                                  *)

\* Mutant of createFromComputationOutputs: every output starts a new row.
createFromComputationOutputs_Insert(rows, outputs) ==
    rows \cup {[id |-> requests, block |-> o.block, valid |-> o.valid,
                deps |-> ToSet(o.deps), value |-> o.value] : o \in ToSet(outputs)}

\* createFromComputationOutputs: one row per start block; an existing one is
\* overwritten, with its dependencies, and keeps its id.
createFromComputationOutputs(rows, outputs) ==
    LET Id(b) == IF \E c \in rows : c.block = b THEN (CHOOSE c \in rows : c.block = b).id
                 ELSE requests
        created == {[id |-> Id(o.block), block |-> o.block, valid |-> o.valid,
                     deps |-> ToSet(o.deps), value |-> o.value] : o \in ToSet(outputs)}
    IN  {c \in rows : \A d \in created : d.block # c.block} \cup created

\* The earliest event of a dependency from block `from` to block upTo, NoBlock if
\* there is none.
FirstNewer(c, from, upTo) ==
    LET rows == LaterRows(db, c.deps, from - 1, upTo)
    IN  IF rows = {} THEN NoBlock ELSE Min({r.height : r \in rows})

\* startFromBlockHeight undefined: start after the latest valid block.
NoStart == -2

\* Mutant: the start given is ignored, so only newer blocks are checked.
updateValidityUpToBlockHeight_NoStart(c, upTo, start) ==
    IF upTo < c.block THEN [ok |-> FALSE, valid |-> c.valid]
    ELSE IF c.valid >= upTo THEN [ok |-> TRUE, valid |-> c.valid]
    ELSE LET newer == FirstNewer(c, c.valid + 1, upTo)
         IN  IF newer = NoBlock THEN [ok |-> TRUE, valid |-> upTo]
             ELSE [ok |-> FALSE, valid |-> newer - 1]

\* updateValidityUpToBlockHeight, for extendable computations: whether c is valid
\* up to the block, and its new latest valid block.
updateValidityUpToBlockHeight(c, upTo, start) ==
    IF upTo < c.block THEN [ok |-> FALSE, valid |-> c.valid]
    ELSE IF start = NoStart /\ c.valid >= upTo THEN [ok |-> TRUE, valid |-> c.valid]
    ELSE LET after == c.valid + 1
             from == Max({c.block + 1, IF start = NoStart THEN after ELSE Min({start, after})})
             newer == FirstNewer(c, from, upTo)
         IN  IF newer = NoBlock THEN [ok |-> TRUE, valid |-> upTo]
             ELSE [ok |-> FALSE, valid |-> newer - 1]

\* Saving a row that was destroyed meanwhile has no effect.
SetValid(rows, c, valid) ==
    {IF d.id = c.id /\ d.block = c.block THEN [d EXCEPT !.valid = valid] ELSE d : d \in rows}

-----------------------------------------------------------------------------
(* The range path of the route. A client's request goes through            *)
(*   find -> extend -> (missing -> store -> extend2) -> answer             *)
(* with an await between any two of them.                                  *)

Start(c, r) == req' = [req EXCEPT ![c] = r] /\ requests' = requests + 1

NewRequest(s, e, step, times) ==
    [phase |-> IF step = 0 THEN "find" ELSE "compute", s |-> s, e |-> Min({e, latest}),
     step |-> step, times |-> times, chain |-> <<>>, outputs |-> <<>>]

\* The end block is capped at the latest block. With a step, stored computations
\* are not looked at.
RangeRequest(c) ==
    /\ req[c].phase = "idle" /\ requests < MaxRequests(formula)
    /\ \E s \in 1 .. MaxHeight, e \in 1 .. MaxHeight, step \in Steps :
           /\ s < e
           /\ Start(c, NewRequest(s, e, step, <<>>))
    /\ UNCHANGED <<formula, db, latest, table, import, late, lates>>

\* The last block at or before a time, 0 when there is none.
getForTime(t) == Max({0} \cup {h \in 1 .. latest : TimeOf(h) <= t})

\* A range of times becomes a range of blocks; with no block before the end time
\* there is no range.
TimeRequest(c) ==
    /\ req[c].phase = "idle" /\ requests < MaxRequests(formula) /\ latest > 0
    /\ \E t0 \in Times, t1 \in Times, step \in TimeSteps :
           /\ t0 < t1 /\ getForTime(t1) > 0
           /\ Start(c, NewRequest(Max({1, getForTime(t0)}), getForTime(t1), step, <<t0, t1>>))
    /\ UNCHANGED <<formula, db, latest, table, import, late, lates>>

Chained(chain) ==
    \A i \in 1 .. Len(chain) - 1 : chain[i].valid = chain[i + 1].block - 1

\* The start computation and the rest of the range, and whether each is valid up
\* to the block before the next one starts.
FindExisting(c) ==
    LET r == req[c]
        before == {d \in table : d.block <= r.s}
        first == {d \in before : \A x \in before : x.block <= d.block}
        rest == {d \in table : r.s < d.block /\ d.block <= r.e}
        chain == SetToSortSeq(first \cup rest, LAMBDA x, y : x.block < y.block)
    IN  /\ r.phase = "find"
        /\ req' = [req EXCEPT ![c] =
                      [r EXCEPT !.chain = chain,
                                !.phase = IF first # {} /\ Chained(chain) THEN "extend"
                                                                          ELSE "compute"]]
        /\ UNCHANGED <<formula, db, latest, table, requests, import, late, lates>>

\* The last computation is checked, and extended, up to the end of the range.
ExtendLast(c) ==
    LET r == req[c]
        last == Last(r.chain)
        u == updateValidityUpToBlockHeight(last, r.e, NoStart)
    IN  /\ r.phase \in {"extend", "extend2"}
        /\ table' = SetValid(table, last, u.valid)
        /\ req' = [req EXCEPT ![c] =
                      [r EXCEPT !.chain = Append(Front(@), [last EXCEPT !.valid = u.valid]),
                                !.phase = IF u.ok THEN "answer"
                                          ELSE IF r.phase = "extend" THEN "missing"
                                          ELSE "compute"]]
        /\ UNCHANGED <<formula, db, latest, requests, import, late, lates>>

\* The rest of the range is computed from the block of the last computation; the
\* first output is that computation again and is dropped.
ComputeMissing(c) ==
    LET r == req[c]
        Rest(outputs) == SubSeq(outputs, 2, Len(outputs))
    IN  /\ r.phase = "missing"
        /\ req' = [req EXCEPT ![c] =
                      [r EXCEPT !.outputs = Rest(computeRange(db, formula, Last(r.chain).block, r.e)),
                                !.phase = "store"]]
        /\ UNCHANGED <<formula, db, latest, table, requests, import, late, lates>>

StoreMissing(c) ==
    LET r == req[c]
        rows == createFromComputationOutputs(table, r.outputs)
        created == {d \in rows : \E o \in ToSet(r.outputs) : o.block = d.block}
    IN  /\ r.phase = "store"
        /\ table' = rows
        /\ req' = [req EXCEPT ![c] =
               [r EXCEPT !.chain = @ \o SetToSortSeq(created, LAMBDA x, y : x.block < y.block),
                         !.phase = "extend2"]]
        /\ UNCHANGED <<formula, db, latest, requests, import, late, lates>>

\* Mutant of processComputationRange: the end is not added.
processComputationRange_NoEnd(r, outputs) ==
    LET Time(b) == IF r.times = <<>> THEN b ELSE IF b = NoBlock THEN -1 ELSE TimeOf(b)
        from == IF r.times = <<>> THEN r.s ELSE r.times[1]
        to == IF r.times = <<>> THEN r.e ELSE r.times[2]
        next(at) == SelectInSeq(outputs, LAMBDA o : Time(o.block) > at)
        index(at) == IF next(at) = 0 THEN Len(outputs) ELSE next(at) - 1
        ats == {at \in from .. to : (at - from) % r.step = 0}
    IN  IF r.step <= 1 THEN {[at |-> o.block, value |-> o.value] : o \in ToSet(outputs)}
        ELSE {[at |-> at, value |-> outputs[index(at)].value] :
                 at \in {x \in ats : index(x) > 0}}

\* processComputationRange: without a step (or with step 1) the outputs as they
\* are; with one, the output that is current at each step, the end included.
processComputationRange(r, outputs) ==
    LET Time(b) == IF r.times = <<>> THEN b ELSE IF b = NoBlock THEN -1 ELSE TimeOf(b)
        from == IF r.times = <<>> THEN r.s ELSE r.times[1]
        to == IF r.times = <<>> THEN r.e ELSE r.times[2]
        next(at) == SelectInSeq(outputs, LAMBDA o : Time(o.block) > at)
        index(at) == IF next(at) = 0 THEN Len(outputs) ELSE next(at) - 1
        ats == {at \in from .. to : (at - from) % r.step = 0 \/ at = to}
    IN  IF r.step <= 1 THEN {[at |-> o.block, value |-> o.value] : o \in ToSet(outputs)}
        ELSE {[at |-> at, value |-> outputs[index(at)].value] :
                 at \in {x \in ats : index(x) > 0}}

Answer(c, outputs) ==
    req' = [req EXCEPT ![c] = [phase |-> "done", s |-> @.s, e |-> @.e, step |-> @.step,
                               times |-> @.times,
                               answer |-> processComputationRange(@, outputs)]]

AnswerFromTable(c) ==
    /\ req[c].phase = "answer"
    /\ Answer(c, req[c].chain)
    /\ UNCHANGED <<formula, db, latest, table, requests, import, late, lates>>

\* No usable stored range: all of it is computed, and none of it is stored.
AnswerComputed(c) ==
    /\ req[c].phase = "compute"
    /\ Answer(c, computeRange(db, formula, req[c].s, req[c].e))
    /\ UNCHANGED <<formula, db, latest, table, requests, import, late, lates>>

Respond(c) ==
    /\ req[c].phase = "done"
    /\ req' = [req EXCEPT ![c] = Idle]
    /\ UNCHANGED <<formula, db, latest, table, requests, import, late, lates>>

-----------------------------------------------------------------------------
(* The scripts.                                                            *)

\* preCompute computes in batches from a block to the latest one, storing the
\* outputs of a batch before it starts the next at the batch's last block.
PreCompute(c) ==
    /\ req[c].phase = "idle" /\ requests < MaxRequests(formula) /\ latest > 0
    /\ \E s \in 1 .. latest :
           Start(c, [phase |-> "batch", s |-> s, e |-> latest, outputs |-> <<>>])
    /\ UNCHANGED <<formula, db, latest, table, import, late, lates>>

\* The batch ends at the last block known, at most Batch after its first and one
\* after the end; when no block is left the script is done.
PreComputeBatch(c) ==
    LET r == req[c]
        to == Min({r.s + Batch, r.e + 1, latest})
    IN  /\ r.phase = "batch"
        /\ req' = [req EXCEPT ![c] =
               IF r.s > r.e \/ to <= r.s THEN Idle
               ELSE [r EXCEPT !.outputs = computeRange(db, formula, r.s, to),
                              !.s = to, !.phase = "save"]]
        /\ UNCHANGED <<formula, db, latest, table, requests, import, late, lates>>

PreComputeSave(c) ==
    /\ req[c].phase = "save"
    /\ table' = createFromComputationOutputs(table, req[c].outputs)
    /\ req' = [req EXCEPT ![c].phase = "batch", ![c].outputs = <<>>]
    /\ UNCHANGED <<formula, db, latest, requests, import, late, lates>>

\* The computation is made again at its own block: it is replaced when its block,
\* output or dependencies differ, and otherwise checked from its start.
Revalidated(d, again) ==
    \* The keys are compared as lists: a key read twice is stored once.
    LET same == /\ again.value = d.value /\ again.block = d.block
                /\ ToSet(again.deps) = d.deps /\ IsInjective(again.deps)
    IN  IF same THEN SetValid(table, d, updateValidityUpToBlockHeight(d, d.valid, d.block).valid)
        ELSE createFromComputationOutputs(table \ {d},
                 <<[block |-> again.block, value |-> again.value,
                    deps |-> again.deps, valid |-> again.block]>>)

Revalidate(d) ==
    /\ requests < MaxRequests(formula) /\ requests' = requests + 1
    /\ table' = Revalidated(d, compute(db, formula, d.block))
    /\ UNCHANGED <<formula, db, latest, req, import, late, lates>>

-----------------------------------------------------------------------------
Next ==
    \/ ExportBlock \/ ExportLate \/ ImportWrite \/ ImportInvalidate
    \/ \E c \in Clients :
           \/ RangeRequest(c) \/ TimeRequest(c) \/ FindExisting(c) \/ ExtendLast(c)
           \/ ComputeMissing(c) \/ StoreMissing(c)
           \/ AnswerFromTable(c) \/ AnswerComputed(c) \/ Respond(c)
           \/ PreCompute(c) \/ PreComputeBatch(c) \/ PreComputeSave(c)
    \/ \E d \in table : Revalidate(d)

Spec == Init /\ [][Next]_vars

-----------------------------------------------------------------------------
(* Properties.                                                             *)

TypeOK ==
    /\ formula \in Formulas /\ latest \in 0 .. MaxHeight
    /\ \A r \in db : r.height \in 1 .. MaxHeight
    /\ \A d \in table : d.block \in NoBlock .. MaxHeight /\ d.valid \in NoBlock .. MaxHeight
    /\ \A c, d \in table : c.block = d.block => c = d
    /\ requests \in 0 .. MaxRequests(formula) /\ lates \in 0 .. MaxLate(formula)

\* What a query for the single block b answers now.
ValueAt(b) == compute(db, formula, b).value

\* Rows that were written below a block already served, and that no invalidation
\* covers yet, or covered only while a computation was in flight.
Excused(b) == \E r \in late \cup import : r.height <= b

\* A range query answers, for every block of the range, what a query for that
\* block alone answers: each output holds from its block to the next one's
\* (computeRange, the chain of stored computations, processComputationRange).
RangeAgreesWithCompute ==
    \A c \in Clients :
        (req[c].phase = "done" /\ req[c].step <= 1) =>
            LET r == req[c] IN
            \A b \in r.s .. r.e :
                \/ Excused(b)
                \/ \E o \in r.answer :
                       /\ o.at <= b /\ o.value = ValueAt(b)
                       /\ \A x \in r.answer : x.at <= b => x.at <= o.at

\* A stepped query has an entry for every step from the first block on, the end
\* included, with the value a query at that height or time returns.
StepsAgreeWithCompute ==
    \A c \in Clients :
        (req[c].phase = "done" /\ req[c].step > 1) =>
            LET r == req[c]
                BlockAt(at) == IF r.times = <<>> THEN at ELSE Min({getForTime(at), r.e})
                from == IF r.times = <<>> THEN r.s ELSE r.times[1]
                to == IF r.times = <<>> THEN r.e ELSE r.times[2]
            IN  /\ \A o \in r.answer : Excused(BlockAt(o.at)) \/ o.value = ValueAt(BlockAt(o.at))
                /\ \A at \in from .. to :
                       ((at - from) % r.step = 0 \/ at = to) /\ BlockAt(at) >= r.s =>
                           \E o \in r.answer : o.at = at

\* A stored computation has the formula's value at every block from its first to
\* the latest one it claims to be valid at, whatever imports have been written
\* and invalidated since (Computation, invalidateComputationsDependentOnChanges).
StoredIsRight ==
    \A d \in table : \A b \in Max({d.block, 1}) .. d.valid :
        Excused(b) \/ d.value = ValueAt(b)

\* Revalidating a computation leaves it, or its replacement, right, even after
\* rows were written late below it (Computation.revalidate).
RevalidateRepairs ==
    [][\A d \in table : Revalidate(d) =>
           \A x \in table' : (x.block = d.block \/ x \notin table) =>
               \A b \in Max({x.block, 1}) .. x.valid : x.value = ValueAt(b)]_vars

\* Ranges and steps answer what single computations answer (computer,
\* processComputationRange).
AnswersAgreeWithCompute ==
    /\ RangeAgreesWithCompute
    /\ StepsAgreeWithCompute
=============================================================================
