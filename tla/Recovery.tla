------------------------------ MODULE Recovery ------------------------------
(***************************************************************************)
(* Recovering the state of one contract from a node                        *)
(* (contract-state-recovery: the delayed queue job and the route), beside  *)
(* the exporter.  A recovery reads the height of the node once, the state  *)
(* in pages that each show the node's present, compares it with the latest *)
(* events in one query and writes what differs in another, under the       *)
(* height it began with.  Meanwhile blocks arrive, and the exporter writes *)
(* their events, suppresses webhooks below the cursor that recoveries also *)
(* move, or loses a block.                                                 *)
(***************************************************************************)
EXTENDS Integers, FiniteSets, FiniteSetsExt, Sequences

CONSTANTS
    StateKeys,      \* keys of the contract's state, in the order of the store
    StateValues,    \* values of a key
    Recoveries,     \* recovery jobs and requests
    RecoveryPage,   \* pageLimit
    RecoveryBounds  \* the jobs of a behaviour, the keys its blocks change, and bounds on
                    \* its blocks and lost blocks

Gone == "gone"          \* no value, or a delete event
NoEvent == "no event"   \* no row

ASSUME RecoveryAssumption ==
    /\ StateKeys \subseteq Nat /\ StateKeys # {} /\ IsFiniteSet(StateKeys)
    /\ {Gone, NoEvent} \cap StateValues = {}
    /\ RecoveryPage \in Nat \ {0}
    /\ RecoveryBounds \subseteq [jobs : SUBSET Recoveries, keys : SUBSET StateKeys,
                               blocks : Nat \ {0}, lost : Nat]

VARIABLES
    chain,       \* chain[h]: the state after block h
    events,      \* events[k][h]: WasmStateEvent rows
    exported,    \* blocks the exporter is done with
    exporting,   \* it has written the events of the next one
    lostBlocks,  \* blocks whose events were lost before the exporter
    suppressed,  \* exported blocks whose webhooks were not queued
    wasmCursor,  \* State.lastWasmBlockHeightExported
    recovery,    \* recovery[r]: a job; level: the blocks exported when it compared
    lateReads,   \* heights of jobs that read a page after that height
    overtaken,   \* jobs that had compared when one of a lower height wrote
    recoveryAllowed

recoveryVars == <<chain, events, exported, exporting, lostBlocks, suppressed, wasmCursor,
                  recovery, lateReads, overtaken, recoveryAllowed>>

NotBegun == [phase |-> "new", height |-> 0, next |-> Min(StateKeys), level |-> 0,
             read |-> [k \in StateKeys |-> Gone], latest |-> [k \in StateKeys |-> NoEvent]]

\* What is left of a job that ended.
Ended(job, phase) == [NotBegun EXCEPT !.phase = phase, !.height = job.height, !.level = job.level]

RecoveryInit ==
    /\ recoveryAllowed \in RecoveryBounds
    /\ chain \in [1..1 -> [StateKeys -> StateValues \cup {Gone}]]
    /\ events = [k \in StateKeys |-> [h \in 1..recoveryAllowed.blocks |-> NoEvent]]
    /\ exported = 0
    /\ exporting = FALSE
    /\ lostBlocks = {}
    /\ suppressed = {}
    /\ wasmCursor = 0
    /\ recovery = [r \in recoveryAllowed.jobs |-> NotBegun]
    /\ lateReads = {}
    /\ overtaken = {}

Tip == Len(chain)
StateAt(h) == IF h = 0 THEN [k \in StateKeys |-> Gone] ELSE chain[h]
Heights(k) == {h \in DOMAIN events[k] : events[k][h] # NoEvent}
LatestEvent(k) == IF Heights(k) = {} THEN NoEvent ELSE events[k][Max(Heights(k))]
Raise(cursor, height) == Max({cursor, height})

-----------------------------------------------------------------------------
(* The chain and the exporter.                                             *)

\* A block sets or removes keys.
ChainBlock ==
    /\ Tip < recoveryAllowed.blocks
    /\ \E k \in recoveryAllowed.keys, v \in StateValues \cup {Gone} :
           /\ v # chain[Tip][k]
           /\ chain' = Append(chain, [chain[Tip] EXCEPT ![k] = v])
    /\ UNCHANGED <<events, exported, exporting, lostBlocks, suppressed, wasmCursor,
                   recovery, lateReads, overtaken, recoveryAllowed>>

\* exportContractsAndEvents: the changed keys of the next block, deletes included.
ExportStateEvents ==
    /\ ~exporting
    /\ exported < Tip
    /\ LET h == exported + 1
           Changed(k) == chain[h][k] # StateAt(exported)[k]
       IN  events' = [k \in StateKeys |->
                         IF Changed(k) THEN [events[k] EXCEPT ![h] = chain[h][k]] ELSE events[k]]
    /\ exporting' = TRUE
    /\ UNCHANGED <<chain, exported, lostBlocks, suppressed, wasmCursor, recovery, lateReads,
                   overtaken, recoveryAllowed>>

\* Mutant: the last block exported counts as already sent.
SendsWebhooks_Newer(h) == h > wasmCursor

SendsWebhooks(h) == h >= wasmCursor

\* The webhooks, unless the block is below the cursor, and the cursor.
ExportWebhooks ==
    /\ exporting
    /\ suppressed' = IF SendsWebhooks(exported + 1) THEN suppressed
                     ELSE suppressed \cup {exported + 1}
    /\ wasmCursor' = Raise(wasmCursor, exported + 1)
    /\ exported' = exported + 1
    /\ exporting' = FALSE
    /\ UNCHANGED <<chain, events, lostBlocks, recovery, lateReads, overtaken,
                   recoveryAllowed>>

\* The traces of a block never reach the exporter.
LoseBlock ==
    /\ ~exporting
    /\ exported < Tip
    /\ Cardinality(lostBlocks) < recoveryAllowed.lost
    /\ lostBlocks' = lostBlocks \cup {exported + 1}
    /\ exported' = exported + 1
    /\ UNCHANGED <<chain, events, exporting, suppressed, wasmCursor, recovery, lateReads,
                   overtaken, recoveryAllowed>>

-----------------------------------------------------------------------------
(* A recovery.                                                             *)

\* client.getBlock(): the height of the node.
BeginRecovery(r) ==
    /\ recovery[r].phase = "new"
    /\ recovery' = [recovery EXCEPT ![r].phase = "pages", ![r].height = Tip]
    /\ UNCHANGED <<chain, events, exported, exporting, lostBlocks, suppressed, wasmCursor,
                   lateReads, overtaken, recoveryAllowed>>

\* AllContractState: up to RecoveryPage live keys, from a key on, and the next.
AllContractState(next) ==
    LET live == {k \in StateKeys : k >= next /\ chain[Tip][k] # Gone}
    IN  [keys |-> {k \in live : Cardinality({j \in live : j < k}) < RecoveryPage},
         rest |-> {k \in live : Cardinality({j \in live : j < k}) >= RecoveryPage}]

FetchStatePage(r) ==
    /\ recovery[r].phase = "pages"
    /\ LET page == AllContractState(recovery[r].next)
           read == [k \in StateKeys |-> IF k \in page.keys THEN chain[Tip][k]
                                        ELSE recovery[r].read[k]]
           more == page.rest # {}
       IN  recovery' = [recovery EXCEPT ![r] =
               IF more THEN [@ EXCEPT !.read = read, !.next = Min(page.rest)]
               ELSE IF \E k \in StateKeys : read[k] # Gone
                    THEN [@ EXCEPT !.read = read, !.phase = "compare"]
               ELSE Ended(@, "done")]
    /\ lateReads' = IF Tip > recovery[r].height THEN lateReads \cup {recovery[r].height}
                    ELSE lateReads
    /\ UNCHANGED <<chain, events, exported, exporting, lostBlocks, suppressed, wasmCursor,
                   overtaken, recoveryAllowed>>

\* defaultGetLatestEvents: the latest event of every key read, whatever its height.
ReadLatestEvents(r) ==
    /\ recovery[r].phase = "compare"
    /\ recovery' = [recovery EXCEPT ![r].phase = "save", ![r].level = exported,
                                    ![r].latest = [k \in StateKeys |-> LatestEvent(k)]]
    /\ UNCHANGED <<chain, events, exported, exporting, lostBlocks, suppressed, wasmCursor,
                   lateReads, overtaken, recoveryAllowed>>

\* Mutant: a key whose last event is a delete counts as unchanged.
isUnchangedLiveState_Deleted(read, latest) == latest = read \/ latest = Gone

isUnchangedLiveState(read, latest) == latest # Gone /\ latest = read

\* Mutant: the events are dated when they are saved.
SavedUnder_Now(job) == Tip

\* The height the recovered events are stored under.
SavedUnder(job) == job.height

\* saveEvents: the live keys that differ, over any event of that key and height.
SaveRecovered(r) ==
    /\ recovery[r].phase = "save"
    /\ LET job == recovery[r]
           toSave == {k \in StateKeys : /\ job.read[k] # Gone
                                        /\ ~isUnchangedLiveState(job.read[k], job.latest[k])}
       IN  /\ events' = [k \in StateKeys |->
                            IF k \in toSave THEN [events[k] EXCEPT ![SavedUnder(job)] = job.read[k]]
                            ELSE events[k]]
           /\ recovery' = [recovery EXCEPT ![r] = Ended(@, IF toSave = {} THEN "done" ELSE "state")]
           /\ overtaken' = overtaken \cup
                  {q \in DOMAIN recovery : /\ toSave # {} /\ recovery[q].height > job.height
                                           /\ recovery[q].phase \in {"save", "state", "done"}}
    /\ UNCHANGED <<chain, exported, exporting, lostBlocks, suppressed, wasmCursor,
                   lateReads, recoveryAllowed>>

\* defaultUpdateState, after the transformations.
UpdateRecoveryState(r) ==
    /\ recovery[r].phase = "state"
    /\ wasmCursor' = Raise(wasmCursor, recovery[r].height)
    /\ recovery' = [recovery EXCEPT ![r].phase = "done"]
    /\ UNCHANGED <<chain, events, exported, exporting, lostBlocks, suppressed, lateReads,
                   overtaken, recoveryAllowed>>

\* The node or the database fails, or the process ends; what was saved stays.
FailRecovery(r) ==
    /\ recovery[r].phase \in {"pages", "compare", "save", "state"}
    /\ recovery' = [recovery EXCEPT ![r] = Ended(@, "failed")]
    /\ UNCHANGED <<chain, events, exported, exporting, lostBlocks, suppressed, wasmCursor,
                   lateReads, overtaken, recoveryAllowed>>

RecoveryNext ==
    \/ ChainBlock
    \/ ExportStateEvents
    \/ ExportWebhooks
    \/ LoseBlock
    \/ \E r \in DOMAIN recovery :
           \/ BeginRecovery(r)
           \/ FetchStatePage(r)
           \/ ReadLatestEvents(r)
           \/ SaveRecovered(r)
           \/ UpdateRecoveryState(r)
           \/ FailRecovery(r)

RecoverySpec == RecoveryInit /\ [][RecoveryNext]_recoveryVars

-----------------------------------------------------------------------------
\* A finished recovery leaves the latest event of every live key right once the
\* exporter is level with the chain, however blocks, exports and other recoveries fell
\* between its reads and its write, if what was lost was lost up to its height and
\* before it compared, and no older recovery wrote after that: it skips a key whose
\* old value is also the newest, and the exporter or an older recovery may still
\* write the values between (recoverContractState).
RecoveredIsCurrent ==
    \A r \in DOMAIN recovery :
        (/\ recovery[r].phase = "done" /\ r \notin overtaken
         /\ exported = Tip /\ ~exporting
         /\ \A h \in lostBlocks : h <= recovery[r].height /\ h <= recovery[r].level)
        => \A k \in StateKeys : chain[Tip][k] # Gone => LatestEvent(k) = chain[Tip][k]

\* An event tells the state at its height, unless a recovery of that height read a
\* page after later blocks: pages show the node's present, the events are dated
\* once (recoverContractState, ContractStateRecoveryQueue.process).
EventsAreDated ==
    \A k \in StateKeys, h \in 1..Tip :
        h \notin lateReads => events[k][h] \in {NoEvent, chain[h][k]}

\* An exporter that goes through the blocks in order drops webhooks only of blocks
\* below the height of a recovery that moved the cursor past them
\* (defaultUpdateState, wasm handler).
SuppressedNeedsRecovery ==
    \A h \in suppressed : \E r \in DOMAIN recovery :
        recovery[r].phase = "done" /\ recovery[r].height > h

\* What a recovery brings, under which blocks, and the webhooks it costs.
RecoveryIsSound ==
    /\ RecoveredIsCurrent
    /\ EventsAreDated
    /\ SuppressedNeedsRecovery
=============================================================================
