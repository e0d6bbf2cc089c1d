----------------------------- MODULE WasmCodes -----------------------------
(***************************************************************************)
(* The code ids of each kind of contract: WasmCodeService                  *)
(* (services/wasm-codes), which merges those of the configuration with     *)
(* those in the database and reloads on a timer, and the trackers          *)
(* (wasmCodeTrackers), which add the code ids of contracts whose state     *)
(* matches.  The merged list shares its objects with the list of defaults: *)
(* that is kept here, because merging changes them.                        *)
(***************************************************************************)
EXTENDS Integers, FiniteSets, FiniteSetsExt

CONSTANTS
    CodeKeys,       \* kinds of contract
    CodeIds,
    Configs,        \* the configurations: functions from CodeKeys to code ids
    Tracked,        \* contracts that trackers look at
    Reloads,        \* names for reloads under way
    CodeBounds      \* bounds of a behaviour: [migrations, removals, configs, reloads]

VARIABLES
    configured,     \* the configuration read last
    codeDb,         \* WasmCodeKey and WasmCodeKeyId rows: key -> ids
    defaults,       \* defaultWasmCodes: key -> ids
    codes,          \* _wasmCodes: key -> ids
    shared,         \* keys whose entry in codes is the object in defaults
    loading,        \* the rows each reload under way has read, by reload
    states,         \* contract -> its indexed states: a code id and what the contract said it is
    codeBound,      \* what is left of the bounds
    merged          \* ids that were merged into an entry of the defaults

codeVars == <<configured, codeDb, defaults, codes, shared, loading, states, codeBound, merged>>

None == [k \in CodeKeys |-> {}]
Merge(src, dst) == [k \in CodeKeys |-> src[k] \cup dst[k]]

\* Tracked contracts start without an indexed state.
WasmCodesInit ==
    /\ configured \in Configs
    /\ codeDb = None
    /\ defaults = configured /\ codes = configured /\ shared = {}
    /\ loading = << >>
    /\ states = [c \in Tracked |-> {}]
    /\ codeBound \in CodeBounds
    /\ merged = {}

Within(bound) == codeBound[bound] > 0 /\ codeBound' = [codeBound EXCEPT ![bound] = @ - 1]

-----------------------------------------------------------------------------
(* The service.                                                            *)

\* A new configuration replaces the defaults and is merged into the list, whose
\* entries are then objects of its own.
setDefaultWasmCodes(config) ==
    /\ defaults' = config
    /\ codes' = Merge(config, codes)
    /\ shared' = {}

ConfigChanges ==
    /\ Within("configs")
    /\ \E config \in Configs : configured' = config /\ setDefaultWasmCodes(config)
    /\ UNCHANGED <<codeDb, loading, states, merged>>

\* reloadWasmCodeIdsFromDB, in two steps: the query, and what is done with its
\* answer. The list starts with the objects of the defaults, so that merging the
\* rows of a default key changes the defaults too.
ReloadReads(r) ==
    /\ r \notin DOMAIN loading
    /\ Within("reloads")
    /\ loading' = [x \in DOMAIN loading \cup {r} |-> IF x = r THEN codeDb ELSE loading[x]]
    /\ UNCHANGED <<configured, codeDb, defaults, codes, shared, states, merged>>

\* Mutant: the list is rebuilt from the rows alone.
Reset_DropsDefaults(rows) ==
    /\ codes' = rows
    /\ UNCHANGED <<shared, defaults, merged>>

\* Mutant: the rows are merged into the old list.
Reset_KeepsOld(rows) ==
    /\ codes' = Merge(rows, codes)
    /\ UNCHANGED <<shared, defaults, merged>>

Reset(rows) ==
    LET keys == {k \in CodeKeys : defaults[k] # {}}
    IN  /\ shared' = keys
        /\ defaults' = [k \in CodeKeys |-> IF k \in keys THEN defaults[k] \cup rows[k] ELSE {}]
        /\ codes' = [k \in CodeKeys |-> IF k \in keys THEN defaults[k] \cup rows[k] ELSE rows[k]]
        /\ merged' = merged \cup UNION {rows[k] : k \in keys}

ReloadApplies(r) ==
    /\ r \in DOMAIN loading
    /\ Reset(loading[r])
    /\ loading' = [x \in DOMAIN loading \ {r} |-> loading[x]]
    /\ UNCHANGED <<configured, codeDb, states, codeBound>>

\* Mutant: the timer was stopped.
Refresh_Never == FALSE /\ UNCHANGED codeVars

\* The timer reloads once a minute, whatever the bounds say.
Refresh ==
    /\ DOMAIN loading = {}
    /\ Reset(codeDb)
    /\ UNCHANGED <<configured, codeDb, loading, states, codeBound>>

-----------------------------------------------------------------------------
(* The trackers. A contract matches the keys that some state of it ever    *)
(* said it is: the query looks for matching values before it takes the     *)
(* most recent one.                                                        *)

\* Mutant: the contract is not looked at.
getTrackedStateEvents_AnyContract(c) == {s.is : s \in UNION {states'[d] : d \in Tracked}}

getTrackedStateEvents(c) == {s.is : s \in states'[c]}

\* A contract is instantiated or migrated to a code, and its state then says what
\* it is; trackCodes saves the code under each key that matches.
Indexed(c, id, is) ==
    /\ Within("migrations")
    /\ states' = [states EXCEPT ![c] = @ \cup {[code |-> id, is |-> is]}]
    /\ UNCHANGED <<configured, defaults, codes, shared, loading, merged>>

trackCodes(c, id, is) ==
    /\ Indexed(c, id, is)
    /\ codeDb' = [k \in CodeKeys |-> codeDb[k] \cup (IF k \in getTrackedStateEvents(c) THEN {id} ELSE {})]

\* Saving fails, which is reported and skipped.
trackCodesFails(c, id, is) == Indexed(c, id, is) /\ UNCHANGED codeDb

\* Code ids are removed from the database by hand.
RemoveCode(k, id) ==
    /\ Within("removals")
    /\ id \in codeDb[k]
    /\ codeDb' = [codeDb EXCEPT ![k] = @ \ {id}]
    /\ UNCHANGED <<configured, defaults, codes, shared, loading, states, merged>>

WasmCodesNext ==
    \/ ConfigChanges
    \/ \E r \in Reloads : ReloadReads(r) \/ ReloadApplies(r)
    \/ Refresh
    \/ \E c \in Tracked, id \in CodeIds, is \in CodeKeys : trackCodes(c, id, is) \/ trackCodesFails(c, id, is)
    \/ \E k \in CodeKeys, id \in CodeIds : RemoveCode(k, id)

WasmCodesFairness ==
    /\ WF_codeVars(Refresh)
    /\ \A r \in Reloads : WF_codeVars(ReloadApplies(r))

WasmCodesSpec == WasmCodesInit /\ [][WasmCodesNext]_codeVars /\ WasmCodesFairness

-----------------------------------------------------------------------------
(* Lookups.                                                                *)

findWasmCodeIdsByKeys(keys) == UNION {codes[k] : k \in keys}
findWasmCodeKeysById(id) == {k \in CodeKeys : id \in codes[k]}
matchesWasmCodeKeys(id, keys) == id \in findWasmCodeIdsByKeys(keys)

-----------------------------------------------------------------------------
(* Properties.                                                             *)

\* The codes of the configuration are known whatever is reloaded, removed or
\* configured in whatever order.
ConfiguredIsKnown ==
    \A k \in CodeKeys : \A id \in configured[k] :
        matchesWasmCodeKeys(id, {k}) /\ k \in findWasmCodeKeysById(id)

\* A code that is in the database and stays there becomes known: an older query
\* that is applied last hides it only until the timer reloads again.
SavedBecomesKnown ==
    \A k \in CodeKeys, id \in CodeIds :
        id \in codeDb[k] ~> (id \in codes[k] \/ id \notin codeDb[k])

\* A code that is neither configured nor in the database is forgotten by the next
\* reload, unless it was merged into an entry of the defaults: those share their
\* list with the entry that is reset.
RemovedIsForgotten ==
    [][ \A k \in CodeKeys, id \in CodeIds :
            (/\ DOMAIN loading = {} /\ Refresh
             /\ id \notin codeDb[k] /\ id \notin configured[k] /\ id \notin merged)
            => id \notin codes'[k] ]_codeVars

\* A code is saved under a key only if a contract had that code and was of that
\* kind, though not necessarily at the same time: a contract migrated to another
\* kind takes its new code to the key it matched before.
TrackedIsMatched ==
    \A k \in CodeKeys : \A id \in codeDb[k] :
        \E c \in Tracked : (\E s \in states[c] : s.code = id) /\ (\E s \in states[c] : s.is = k)

\* The ids in memory are those of the configuration, those in the database were
\* matched, and none is kept that should be forgotten.
CodesAreKnown ==
    /\ []ConfiguredIsKnown
    /\ []TrackedIsMatched
    /\ RemovedIsForgotten
=============================================================================
