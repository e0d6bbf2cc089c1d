----------------------------- MODULE FormulaEnv -----------------------------
(***************************************************************************)
(* The environment a formula computes in (src/src/formulas/env.ts): the    *)
(* getters that read indexed events at or below a block, the cache they    *)
(* share within one computation, the dependent keys they record and the    *)
(* onFetch hook that tells the caller which events were used.              *)
(*                                                                         *)
(* A row of the database is [ns, key, height, val]: ns is the namespace of *)
(* its dependent key, key the tuple of the parts of that key.  A getter    *)
(* takes the environment e and returns its successor, with the value in    *)
(* e.out: Undefined is <<>> and a defined value v is <<v>>.                *)
(***************************************************************************)
EXTENDS Integers, Sequences, FiniteSets, SequencesExt

CONSTANTS
    CodeOf,     \* the contracts table: the code id of every known contract
    History     \* the code ids whose bank balances have a history

Wild == 0               \* the wildcard part (*) of a dependent key; parts are numbers
Gone == "gone"          \* the value of a deleted key or a null transformation
NoBlock == -1           \* no block: no event has been used yet
Undefined == <<>>

Exact(ns, key) == [ns |-> ns, key |-> key, prefix |-> FALSE]
Prefix(ns, key) == [ns |-> ns, key |-> key, prefix |-> TRUE]

\* Whether a row's dependent key is one the dependent key dk describes, as each
\* model's where clause decides it. Most models have two parts, an address and a
\* name: a wildcard part matches any part, a prefix every name that continues it
\* (SQL's LIKE).
AddressAndNameWhere(dk, r) ==
    /\ IF dk.prefix THEN Len(r.key) >= Len(dk.key) ELSE Len(r.key) = Len(dk.key)
    /\ \A i \in DOMAIN dk.key : dk.key[i] \in {Wild, r.key[i]}

\* With a prefix or a wildcard all proposals match.
ProposalWhere(dk, r) == dk.prefix \/ Wild \in ToSet(dk.key) \/ dk.key = r.key

\* Parts that the key leaves out match anything, whether or not it is a prefix.
SlashWhere(dk, r) ==
    dk.key[1] = r.key[1] /\ \A i \in DOMAIN dk.key : i > 1 => dk.key[i] \in {Wild, r.key[i]}

\* A wildcard is turned into LIKE's % and then compared as a value.
TxWhere(dk, r) == \A i \in DOMAIN dk.key : dk.key[i] = r.key[i]

LikeKey(dk, r) ==
    /\ r.ns = dk.ns
    /\ CASE r.ns = "proposal" -> ProposalWhere(dk, r)
         [] r.ns = "slash" -> SlashWhere(dk, r)
         [] r.ns = "tx" -> TxWhere(dk, r)
         [] OTHER -> AddressAndNameWhere(dk, r)

\* The queries: rows at or below the block, the most recent one of every key
\* (DISTINCT ON ... ORDER BY blockHeight DESC), and the earliest of all.
RowsAt(db, dk, block) == {r \in db : LikeKey(dk, r) /\ r.height <= block}

Newest(rows) == {r \in rows : \A q \in rows : q.key = r.key => q.height <= r.height}

Oldest(rows) == {r \in rows : \A q \in rows : r.height <= q.height}

-----------------------------------------------------------------------------
\* The environment of one computation.
getEnv(block, cache) ==
    [block |-> block, cache |-> cache, deps |-> <<>>, used |-> {},
     latest |-> NoBlock, calls |-> 0, out |-> Undefined]

\* The models of a query's rows are new objects, told apart by the call that
\* made them: computeRange compares events by identity.
Instances(e, rows) ==
    {[ns |-> r.ns, key |-> r.key, height |-> r.height, val |-> r.val,
      obj |-> <<e.block, e.calls>>] : r \in rows}

Push(e, dks) == [e EXCEPT !.deps = @ \o dks, !.calls = @ + 1]

\* The cached events of a key, or the rows of its query, which are cached.
ReadThrough(e, dk, rows) ==
    IF dk \in DOMAIN e.cache THEN e
    ELSE [e EXCEPT !.cache = [k \in DOMAIN @ \cup {dk} |->
                                 IF k = dk THEN Instances(e, rows) ELSE @[k]]]

\* The hook compute passes: the events used and the latest block of any.
onFetch(e, evs) ==
    [e EXCEPT !.used = @ \cup evs,
              !.latest = Max({@} \cup {ev.height : ev \in evs})]

Return(e, out) == [e EXCEPT !.out = out]

The(evs) == CHOOSE ev \in evs : TRUE
Value(evs) == IF evs = {} \/ The(evs).val = Gone THEN Undefined ELSE <<The(evs).val>>
Date(evs) == IF evs = {} THEN Undefined ELSE <<The(evs).height>>
\* A map has one entry for every key that is still set; it is undefined only
\* when the query found nothing at all.
MapOf(evs) ==
    IF evs = {} THEN Undefined
    ELSE <<{<<ev.key, ev.val>> : ev \in {x \in evs : x.val # Gone}}>>

\* The hook is told of all the events of a key, deleted ones as well, and the
\* getter returns them as a value, a map, the date of the event or a count.
FetchAll(e, dk) == onFetch(e, e.cache[dk])
ReturnValue(e, dk) == Return(e, Value(e.cache[dk]))
ReturnMap(e, dk) == Return(e, MapOf(e.cache[dk]))
ReturnDate(e, dk) == Return(e, Date(e.cache[dk]))
ReturnCount(e, dk) == Return(e, <<Cardinality(e.cache[dk])>>)

\* Reads the most recent event of a key, or of every key under a prefix or a
\* wildcard.
ReadNewest(db, e, dk) ==
    FetchAll(ReadThrough(Push(e, <<dk>>), dk, Newest(RowsAt(db, dk, e.block))), dk)

\* Reads the first event of a key, which the cache (of most recent events)
\* cannot answer.
FetchDate(e, evs) == Return(onFetch(e, evs), Date(evs))
ReadFirst(e, dk, rows) ==
    FetchDate(Push(e, <<dk>>), Instances(Push(e, <<dk>>), Oldest(rows)))

-----------------------------------------------------------------------------
(* Wasm state.                                                             *)

get(db, e, key) ==
    ReturnValue(ReadNewest(db, e, Exact("wasm", key)), Exact("wasm", key))

getMap(db, e, key) ==
    ReturnMap(ReadNewest(db, e, Prefix("wasm", key)), Prefix("wasm", key))

getDateKeyModified(db, e, key) ==
    ReturnDate(ReadNewest(db, e, Exact("wasm", key)), Exact("wasm", key))

getDateKeyFirstSet(db, e, key) ==
    LET dk == Exact("wasm", key)
    IN  ReadFirst(e, dk, {r \in RowsAt(db, dk, e.block) : r.val # Gone})

getDateKeyFirstSetWithValueMatch(db, e, key, where) ==
    LET dk == Exact("wasm", key)
    IN  ReadFirst(e, dk, {r \in RowsAt(db, dk, e.block) : r.val \in where \ {Gone}})

\* Fills the cache with the newest events of exact keys and of map prefixes, and
\* with each event under a prefix on its own. A deleted key is cached as
\* nonexistent, but stays in the list of its map.
FillCache(e, dks, evs) ==
    LET Under(dk) == {ev \in evs : LikeKey(dk, ev)}
        single == {Exact(ev.ns, ev.key) : ev \in UNION {Under(dk) : dk \in {d \in dks : d.prefix}}}
    IN  [e EXCEPT !.cache = [dk \in DOMAIN @ \cup dks \cup single |->
             IF dk \in dks /\ dk.prefix THEN Under(dk)
             ELSE IF dk \in dks \cup single THEN {ev \in Under(dk) : ev.val # Gone}
             ELSE @[dk]]]

prefetch(db, e, dks) ==
    LET f == Push(e, dks)
        evs == Instances(f, Newest(UNION {RowsAt(db, dk, e.block) : dk \in ToSet(dks)}))
    IN  Return(FillCache(onFetch(f, evs), ToSet(dks), evs), Undefined)

-----------------------------------------------------------------------------
(* Transformations of wasm state.                                          *)

\* The query filters by value before it takes the newest row of each name, and
\* caches under the name alone; the code id filter comes after the cache, and
\* before the hook.
getTransformationMatches(db, e, key, where, codes) ==
    LET dk == Exact("transformation", key)
        rows == {r \in RowsAt(db, dk, e.block) :
                     (where = {} \/ r.val \in where) /\ r.key[1] \in DOMAIN CodeOf}
        f == ReadThrough(Push(e, <<dk>>), dk, Newest(rows))
        evs == {ev \in f.cache[dk] : codes = {} \/ CodeOf[ev.key[1]] \in codes}
    IN  Return(onFetch(f, evs),
               IF evs = {} THEN Undefined ELSE <<{<<ev.key, ev.val>> : ev \in evs}>>)

\* The first match. An exact name has at most one; its value may be null.
getTransformationMatch(db, e, key, where) ==
    LET f == getTransformationMatches(db, e, key, where, {})
    IN  Return(f, IF f.out = Undefined THEN Undefined ELSE <<The(f.out[1])[2]>>)

getTransformationMap(db, e, key) ==
    ReturnMap(ReadNewest(db, e, Prefix("transformation", key)), Prefix("transformation", key))

\* As prefetch, but the hook is called with no events: the block of a null
\* transformation is never seen.
prefetchTransformations(db, e, dks) ==
    LET f == Push(e, dks)
        evs == Instances(f, Newest(UNION {RowsAt(db, dk, e.block) : dk \in ToSet(dks)}))
    IN  Return(FillCache(onFetch(f, {}), ToSet(dks), evs), Undefined)

getDateFirstTransformed(db, e, key, where) ==
    LET dk == Exact("transformation", key)
    IN  ReadFirst(e, dk, {r \in RowsAt(db, dk, e.block) : where = {} \/ r.val \in where})

-----------------------------------------------------------------------------
(* Contracts, slashes and transactions.                                    *)

\* The code id of a contract that exists and passes the code id filter.
getContract(address, codes) ==
    IF address \in DOMAIN CodeOf /\ (codes = {} \/ CodeOf[address] \in codes)
    THEN <<CodeOf[address]>> ELSE Undefined

contractMatchesCodeIdKeys(address, codes) == getContract(address, codes) # Undefined

\* Every slash has a key of its own, so all of them are read.
getSlashEvents(db, e, validator) ==
    ReturnMap(ReadNewest(db, e, Prefix("slash", <<validator>>)), Prefix("slash", <<validator>>))

\* Transaction events are neither cached nor reported to the hook.
getTxEvents(db, e, address) ==
    LET dk == Prefix("tx", <<address>>)
        f == Push(e, <<dk>>)
    IN  Return(f, MapOf(Instances(f, RowsAt(db, dk, e.block))))

-----------------------------------------------------------------------------
(* Bank balances. BankDenomBalance has one row per address and denom, the  *)
(* latest; it is read and cached but no dependent key is recorded for it.  *)
(* BankStateEvent, the history, is the fallback for some contracts.        *)

LatestBalances(db, e, dk) ==
    FetchAll(ReadThrough([e EXCEPT !.calls = @ + 1], dk, Newest(RowsAt(db, dk, e.block))), dk)

BalanceOrHistory(db, f, key) ==
    IF f.cache[Exact("balance", key)] # {} THEN ReturnValue(f, Exact("balance", key))
    ELSE IF ~contractMatchesCodeIdKeys(key[1], History) THEN Return(f, Undefined)
    ELSE ReturnValue(ReadNewest(db, f, Exact("bank", key)), Exact("bank", key))

getBalance(db, e, key) ==
    BalanceOrHistory(db, LatestBalances(db, e, Exact("balance", key)), key)

BalancesOrHistory(db, f, key) ==
    IF f.cache[Prefix("balance", key)] # {} THEN ReturnMap(f, Prefix("balance", key))
    ELSE IF ~contractMatchesCodeIdKeys(key[1], History) THEN Return(f, Undefined)
    ELSE ReturnMap(ReadNewest(db, f, Prefix("bank", key)), Prefix("bank", key))

getBalances(db, e, address) ==
    BalancesOrHistory(db, LatestBalances(db, e, Prefix("balance", <<address>>)), <<address>>)

-----------------------------------------------------------------------------
(* Governance. The lists are cached without their data: the page asked for *)
(* is cut from the cached list, its rows are read again, and only these    *)
(* new objects reach the hook.                                             *)

\* The members of evs whose rank by Before is in the page.
PageOf(evs, Before(_, _), offset, limit) ==
    {ev \in evs : LET rank == Cardinality({x \in evs : Before(x, ev)})
                  IN  offset <= rank /\ rank < offset + limit}

Paged(db, e, dk, Before(_, _), offset, limit) ==
    LET f == ReadThrough(Push(e, <<dk>>), dk, Newest(RowsAt(db, dk, e.block)))
        page == PageOf(f.cache[dk], Before, offset, limit)
        data == {r \in db : \E ev \in page : r.ns = ev.ns /\ r.key = ev.key /\ r.height = ev.height}
        evs == Instances([f EXCEPT !.calls = -@], data)
    IN  Return(onFetch(f, evs), MapOf(evs))

getProposal(db, e, id) ==
    ReturnValue(ReadNewest(db, e, Exact("proposal", <<id>>)), Exact("proposal", <<id>>))

\* Newest proposal first.
getProposals(db, e, offset, limit) ==
    LET Before(x, y) == x.key[1] > y.key[1]
    IN  Paged(db, e, Prefix("proposal", <<>>), Before, offset, limit)

getProposalCount(db, e) ==
    ReturnCount(ReadNewest(db, e, Prefix("proposal", <<>>)), Prefix("proposal", <<>>))

getProposalVote(db, e, key) ==
    ReturnValue(ReadNewest(db, e, Exact("vote", key)), Exact("vote", key))

\* Latest vote first; the list is in voter order where the blocks agree.
getProposalVotes(db, e, id, offset, limit) ==
    LET Before(x, y) == x.height > y.height \/ (x.height = y.height /\ x.key[2] < y.key[2])
    IN  Paged(db, e, Prefix("vote", <<id>>), Before, offset, limit)

getProposalVoteCount(db, e, id) ==
    ReturnCount(ReadNewest(db, e, Prefix("vote", <<id>>)), Prefix("vote", <<id>>))

getCommunityPoolBalances(db, e) ==
    ReturnValue(ReadNewest(db, e, Exact("pool", <<>>)), Exact("pool", <<>>))

-----------------------------------------------------------------------------
(* Extractions and fee grants.                                             *)

getExtraction(db, e, key) ==
    ReturnValue(ReadNewest(db, e, Exact("extraction", key)), Exact("extraction", key))

getExtractions(db, e, key, where) ==
    LET dk == Exact("extraction", key)
        rows == {r \in RowsAt(db, dk, e.block) : where = {} \/ r.val \in where}
    IN  ReturnMap(FetchAll(ReadThrough(Push(e, <<dk>>), dk, Newest(rows)), dk), dk)

getExtractionMap(db, e, key) ==
    ReturnMap(ReadNewest(db, e, Prefix("extraction", key)), Prefix("extraction", key))

getDateFirstExtracted(db, e, key, where) ==
    LET dk == Exact("extraction", key)
    IN  ReadFirst(e, dk, {r \in RowsAt(db, dk, e.block) : where = {} \/ r.val \in where})

\* An allowance that was revoked is a row with active false: Gone.
getFeegrantAllowance(db, e, granter, grantee) ==
    LET f == ReadNewest(db, e, Exact("feegrant", <<granter, grantee>>))
    IN  Return(f, LET evs == f.cache[Exact("feegrant", <<granter, grantee>>)]
                  IN  IF evs = {} THEN Undefined ELSE <<The(evs).val>>)

\* All grants of a granter, or to a grantee: the other part is a wildcard.
getFeegrantAllowances(db, e, granter, grantee) ==
    ReturnMap(ReadNewest(db, e, Exact("feegrant", <<granter, grantee>>)),
              Exact("feegrant", <<granter, grantee>>))

hasFeegrantAllowance(db, e, granter, grantee) ==
    LET f == getFeegrantAllowance(db, e, granter, grantee)
    IN  Return(f, <<f.out # Undefined /\ f.out[1] # Gone>>)

-----------------------------------------------------------------------------
(* Snapshots (formulas/utils.ts). A snapshot map of a contract is indexed  *)
(* as two transformed maps: the values, and the changelog, which has under *)
(* key and height the value before the first change at that height.        *)

Absent == "absent"      \* the old value of a key that did not exist

\* The name of the changelog of a map; names are numbers.
ChangelogKey(key) == <<key[1], key[2] + 100>> \o Tail(Tail(key))

\* The old value at the first change at or after the height, undefined where
\* nothing has changed since.
snapshotMayLoadAtHeight(db, e, key, height) ==
    LET f == getTransformationMap(db, e, ChangelogKey(key))
        since == IF f.out = Undefined THEN {} ELSE {x \in f.out[1] : Last(x[1]) >= height}
    IN  Return(f, IF since = {} THEN Undefined
                  ELSE <<(CHOOSE x \in since : \A y \in since : Last(x[1]) <= Last(y[1]))[2]>>)

\* The current value where there is no snapshot.
snapshotMapMayLoadAtHeight(db, e, key, height) ==
    LET f == snapshotMayLoadAtHeight(db, e, key, height)
    IN  IF f.out # Undefined THEN f ELSE getTransformationMatch(db, f, key, {})
=============================================================================
