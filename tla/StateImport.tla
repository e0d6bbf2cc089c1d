----------------------------- MODULE StateImport -----------------------------
(***************************************************************************)
(* The script that imports the past state of a contract from an export     *)
(* (importContractState, contract-state-import).  An export holds          *)
(* snapshots of the state at ascending heights; each is written through    *)
(* the recovery path against the stored events of its own height.  Then    *)
(* all stored events are transformed again, what was computed from them is *)
(* invalidated, and what the formulas show is compared with the chain.     *)
(* The script may die anywhere and be run again.  Meanwhile the server     *)
(* computes ranges over the stored events and stores them.                 *)
(***************************************************************************)
EXTENDS Integers, FiniteSets, FiniteSetsExt

CONSTANTS
    EntryKeys,      \* keys of the state of the contract
    EntryValues,    \* their values
    Identities,     \* the values that decode to the identity of an authenticator
    Named,          \* those whose name is short enough for a transformation
    ExportHeight,   \* exportHeight; the blocks of the export are 1..ExportHeight
    Exports,        \* exports: the history of the contract, the heights of the snapshots,
                    \* whether the chain's authenticators are in it, and whether the
                    \* contract's row has a code id of accounts
    ImportRuns,     \* bound on the runs of the script
    StoredRanges    \* bound on the computations stored

NoEntry == "none"   \* a key without a value; a delete event
Unstored == "?"     \* no row

ASSUME ImportAssumption ==
    /\ ExportHeight \in Nat \ {0} /\ ImportRuns \in Nat /\ StoredRanges \in Nat
    /\ IsFiniteSet(EntryKeys) /\ {NoEntry, Unstored} \cap EntryValues = {}
    /\ Named \subseteq Identities /\ Identities \subseteq EntryValues
    /\ Exports \subseteq [history : [1..ExportHeight -> [EntryKeys -> EntryValues \cup {NoEntry}]],
                          snapshots : (SUBSET (1..ExportHeight)) \ {{}},
                          reported : BOOLEAN, tracked : BOOLEAN]

VARIABLES
    history,    \* history[h]: the state of the contract after block h
    snapshots,  \* the heights of the snapshots of the export
    reported,   \* the export has chainAuthenticators
    tracked,    \* the contract's row, or the one the import writes, has a code id of accounts
    entries,    \* entries[k][h]: WasmStateEvent rows
    names,      \* the identities with a hasAuthenticator transformation
    script,     \* the run of the script
    told,       \* what dry runs said would be written, while it can be compared
    runsLeft,
    ranges,     \* stored computations of one key each
    computing   \* the computation whose result is not stored yet

exportVars == <<history, snapshots, reported, tracked>>
importVars == <<exportVars, entries, names, script, told, runsLeft, ranges, computing>>

Blocks == 1..ExportHeight
Before(h) == IF h = 1 THEN [k \in EntryKeys |-> NoEntry] ELSE history[h - 1]

Idle == [phase |-> "idle", left |-> {}, written |-> 0, fresh |-> {}, toName |-> {}, again |-> FALSE]

\* The values of the stored events that have a name.
Nameable == {entries[k][h] : k \in EntryKeys, h \in Blocks} \cap Named

\* The events of some blocks are stored, those of others were missed, and so were some
\* of their transformations.
ImportInit ==
    /\ \E x \in Exports : /\ history = x.history /\ snapshots = x.snapshots
                          /\ reported = x.reported /\ tracked = x.tracked
    /\ \E known \in SUBSET Blocks :
           entries = [k \in EntryKeys |-> [h \in Blocks |->
                          IF h \in known /\ history[h][k] # Before(h)[k] THEN history[h][k]
                          ELSE Unstored]]
    /\ names \in SUBSET Nameable
    /\ script = Idle
    /\ told = {}
    /\ runsLeft = ImportRuns
    /\ ranges = {}
    /\ computing = {}

-----------------------------------------------------------------------------
\* The stored value of a key at a height: of its last row at or below it.
StoredAt(rows, k, h) ==
    LET at == {b \in Blocks : b <= h /\ rows[k][b] # Unstored}
    IN  IF at = {} THEN Unstored ELSE rows[k][Max(at)]

\* Mutant: an export may have keys that disappear.
validateExport_Any == snapshots # {}

\* No key is removed between snapshots.
validateExport ==
    \A s, t \in snapshots, k \in EntryKeys :
        s < t /\ history[s][k] # NoEntry => history[t][k] # NoEntry

\* Mutant: a snapshot is compared with the latest events, of any height.
getStoredEventsAtHeight_Latest(rows, k, h) == StoredAt(rows, k, ExportHeight)

getStoredEventsAtHeight(rows, k, h) == StoredAt(rows, k, h)

\* The keys of snapshot s that recoverContractState saves.
ToSave(rows, s) ==
    {k \in EntryKeys : /\ history[s][k] # NoEntry
                       /\ getStoredEventsAtHeight(rows, k, s) # history[s][k]}

SaveSnapshot(rows, s) ==
    [k \in EntryKeys |-> IF k \in ToSave(rows, s) THEN [rows[k] EXCEPT ![s] = history[s][k]]
                         ELSE rows[k]]

Rows(s) == Cardinality(ToSave(entries, s))

\* Mutant: the pending events of earlier snapshots are not seen by later ones.
Pending_None(pending, saved, s) == [k \in EntryKeys |-> [height |-> 0, value |-> Unstored]]

\* The events a dry run has not written; the last one of each key.
Pending(pending, saved, s) ==
    [k \in EntryKeys |-> IF k \in saved THEN [height |-> s, value |-> history[s][k]]
                         ELSE pending[k]]

\* What a dry run compares with: the pending event of a key, unless the stored one
\* is newer.
DryStored(rows, pending, k, s) ==
    LET at == {b \in Blocks : b <= s /\ rows[k][b] # Unstored}
    IN  IF pending[k].height > 0 /\ (at = {} \/ pending[k].height >= Max(at))
        THEN pending[k].value
        ELSE StoredAt(rows, k, s)

DrySaved(rows, pending, s) ==
    {k \in EntryKeys : /\ history[s][k] # NoEntry
                       /\ DryStored(rows, pending, k, s) # history[s][k]}

\* importRecord with dryRun: the events it would write up to each height, snapshot
\* by snapshot.
NothingPending == [pending |-> [k \in EntryKeys |-> [height |-> 0, value |-> Unstored]], count |-> 0]

DryRecord(rows, dry, s) ==
    [pending |-> Pending(dry.pending, DrySaved(rows, dry.pending, s), s),
     count |-> dry.count + Cardinality(DrySaved(rows, dry.pending, s))]

DryEvents(rows) ==
    LET After[h \in 0..ExportHeight] ==
            IF h = 0 THEN NothingPending
            ELSE IF h \in snapshots THEN DryRecord(rows, After[h - 1], h) ELSE After[h - 1]
    IN  After

-----------------------------------------------------------------------------
(* The script.                                                             *)

DryRun ==
    /\ script.phase = "idle"
    /\ validateExport
    /\ told = {}
    /\ told' = {DryEvents(entries)[ExportHeight].count}
    /\ UNCHANGED <<exportVars, entries, names, script, runsLeft, ranges, computing>>

\* An export that does not validate ends the script.
StartImport ==
    /\ script.phase = "idle"
    /\ runsLeft > 0
    /\ runsLeft' = runsLeft - 1
    /\ IF validateExport
       THEN script' = [script EXCEPT !.phase = "import", !.left = snapshots, !.written = 0,
                                     !.fresh = {}]
       ELSE script' = script
    /\ UNCHANGED <<exportVars, entries, names, told, ranges, computing>>

\* importRecord: the events of the next snapshot are saved.
importRecord ==
    /\ script.phase = "import"
    /\ script.left # {} /\ script.toName = {}
    /\ LET s == Min(script.left)
       IN  /\ entries' = SaveSnapshot(entries, s)
           /\ script' = [script EXCEPT !.left = @ \ {s}, !.written = @ + Rows(s),
                                       !.fresh = @ \cup {<<k, s>> : k \in ToSave(entries, s)},
                                       !.toName = {history[s][k] : k \in ToSave(entries, s)}]
    /\ computing' = {[c EXCEPT !.raced = TRUE] : c \in computing}
    /\ UNCHANGED <<exportVars, names, told, runsLeft, ranges>>

\* The saved events are transformed, with the code id of the export.
transformEvents ==
    /\ script.toName # {}
    /\ names' = names \cup (script.toName \cap Named)
    /\ script' = [script EXCEPT !.toName = {}]
    /\ UNCHANGED <<exportVars, entries, told, runsLeft, ranges, computing>>

\* All stored events are transformed again, with the code id of the contract's row.
transformContracts ==
    /\ script.phase = "import"
    /\ script.left = {} /\ script.toName = {}
    /\ names' = IF tracked THEN names \cup Nameable ELSE names
    /\ script' = [script EXCEPT !.phase = "invalidate"]
    /\ UNCHANGED <<exportVars, entries, told, runsLeft, ranges, computing>>

\* Mutant: only what this run wrote is invalidated.
Changes_Written == script.fresh

\* The rows of the record at its snapshot heights, whichever run wrote them.
Changes ==
    LET keys == {k \in EntryKeys : \E s \in snapshots : history[s][k] # NoEntry}
    IN  {x \in keys \X snapshots : entries[x[1]][x[2]] # Unstored}

\* invalidateImportedComputations: a computation that depends on one of the rows is
\* deleted from the first of them on, or cut short before it.
invalidateImportedComputations ==
    /\ script.phase = "invalidate"
    /\ LET first == Min({x[2] : x \in Changes})
           Depends(c) == \E x \in Changes : x[1] = c.key
       IN  ranges' = {IF Depends(c) /\ c.upTo >= first THEN [c EXCEPT !.upTo = first - 1] ELSE c :
                         c \in {d \in ranges : ~(Depends(d) /\ d.from >= first)}}
    /\ script' = [script EXCEPT !.phase = "verify", !.fresh = {}]
    /\ computing' = {[c EXCEPT !.raced = TRUE] : c \in computing}
    /\ UNCHANGED <<exportVars, entries, names, told, runsLeft>>

\* getXionAuthenticatorIdentity: a value that is no identity is not shown.
Decoded(v) == IF v \in Identities THEN v ELSE NoEntry

\* authenticatorIdentities, at the export height.
authenticatorIdentities == [k \in EntryKeys |-> Decoded(StoredAt(entries, k, ExportHeight))]

expectedIdentities == [k \in EntryKeys |-> IF reported THEN Decoded(history[ExportHeight][k]) ELSE NoEntry]

\* accountsByAuthenticator finds the account: by a transformation, under a code id of
\* accounts, of an identity the account has.
Resolves(v) == tracked /\ v \in names /\ \E k \in EntryKeys : authenticatorIdentities[k] = v

\* verifyRecord: the chain's identities, at least one, are shown, and each resolves.
Verifies ==
    /\ authenticatorIdentities = expectedIdentities
    /\ \E k \in EntryKeys : expectedIdentities[k] # NoEntry
    /\ \A k \in EntryKeys : expectedIdentities[k] # NoEntry => Resolves(expectedIdentities[k])

verifyRecord ==
    /\ script.phase = "verify"
    /\ script' = [script EXCEPT !.phase = IF Verifies THEN "ok" ELSE "failed"]
    /\ UNCHANGED <<exportVars, entries, names, told, runsLeft, ranges, computing>>

\* The script is run another time after it ended.
Rerun ==
    /\ script.phase \in {"ok", "failed"}
    /\ runsLeft > 0
    /\ script' = [Idle EXCEPT !.again = TRUE]
    /\ UNCHANGED <<exportVars, entries, names, told, runsLeft, ranges, computing>>

\* It dies before it ended.
ImportDies ==
    /\ script.phase \in {"import", "invalidate", "verify"}
    /\ runsLeft > 0
    /\ script' = [Idle EXCEPT !.again = script.again]
    /\ told' = {}
    /\ UNCHANGED <<exportVars, entries, names, runsLeft, ranges, computing>>

-----------------------------------------------------------------------------
(* The server.                                                             *)

\* A range of one key: its value at a block and how far it reaches.
ComputeStored ==
    /\ computing = {}
    /\ Cardinality(ranges) < StoredRanges
    /\ \E k \in EntryKeys, b \in Blocks :
           LET same == {u \in b..ExportHeight : \A h \in (b + 1)..u : entries[k][h] = Unstored}
           IN  computing' = {[key |-> k, from |-> b, upTo |-> Max(same),
                              value |-> StoredAt(entries, k, b), raced |-> FALSE]}
    /\ UNCHANGED <<exportVars, entries, names, script, told, runsLeft, ranges>>

StoreComputed ==
    /\ computing # {}
    /\ ranges' = ranges \cup computing
    /\ computing' = {}
    /\ UNCHANGED <<exportVars, entries, names, script, told, runsLeft>>

ImportNext ==
    \/ DryRun
    \/ StartImport
    \/ importRecord
    \/ transformEvents
    \/ transformContracts
    \/ invalidateImportedComputations
    \/ verifyRecord
    \/ Rerun
    \/ ImportDies
    \/ ComputeStored
    \/ StoreComputed

ImportSpec == ImportInit /\ [][ImportNext]_importVars

-----------------------------------------------------------------------------
\* Once the snapshots are written, the stored state at each snapshot's height has
\* the value of every live key, whichever rows the exporter had missed and however
\* often the script died before (importRecord, getStoredEventsAtHeight).
SnapshotsAreStored ==
    script.phase \in {"invalidate", "verify", "ok", "failed"} =>
        \A s \in snapshots, k \in EntryKeys :
            history[s][k] # NoEntry => StoredAt(entries, k, s) = history[s][k]

\* A run after one that ended writes nothing, and a dry run tells what the import
\* then writes (importRecord).
ImportIsAsTold ==
    script.phase \in {"invalidate", "verify", "ok", "failed"} =>
        /\ script.again => script.written = 0
        /\ ~script.again => \A n \in told : script.written = n

\* Once an import has invalidated, a stored computation is right at every block it
\* covers, even if an earlier run wrote rows and died before it invalidated; only a
\* result that was computed before the import wrote and stored after is not
\* (invalidateImportedComputations).
ImportedRangesAreRight ==
    script.phase \in {"verify", "ok", "failed"} =>
        \A c \in ranges : c.raced \/
            \A b \in c.from..c.upTo : StoredAt(entries, c.key, b) = c.value

\* The last change of a key, at h, was missed, and no snapshot can tell it: it comes
\* after the last one, or it is a removal.
LastMissed(k, h) ==
    /\ history[h][k] # Before(h)[k] /\ entries[k][h] = Unstored
    /\ \A d \in (h + 1)..ExportHeight : history[d][k] = Before(d)[k]
    /\ h > Max(snapshots) \/ history[h][k] = NoEntry

\* Verification fails only on what an import cannot bring about: nothing to compare with
\* (no authenticators in the export, or none that decodes), a contract's row under
\* another code id, an identity whose name is too long to be looked up, or a key shown
\* wrongly whose last change was missed and is in no snapshot. Neither a restart between
\* saving and transforming nor a removal between snapshots makes it fail (verifyRecord,
\* transformContracts, validateExport).
FailureHasACause ==
    script.phase = "failed" =>
        \/ ~reported \/ ~tracked
        \/ \A k \in EntryKeys : history[ExportHeight][k] \notin Identities
        \/ \E k \in EntryKeys : history[ExportHeight][k] \in Identities \ Named
        \/ \E k \in EntryKeys : /\ authenticatorIdentities[k] # Decoded(history[ExportHeight][k])
                               /\ \E h \in Blocks : LastMissed(k, h)

\* An import, with whatever restarts: what it stores, what it tells, which
\* computations it leaves and when it refuses.
ImportIsSound ==
    /\ SnapshotsAreStored
    /\ ImportIsAsTold
    /\ ImportedRangesAreRight
    /\ FailureHasACause
=============================================================================
