------------------------------ MODULE DaoCore ------------------------------
(***************************************************************************)
(* The state of a DAO and its formulas.  Three sources tell it: events,    *)
(* transformations of events, and extractions, which a job (DaoExtractor)  *)
(* writes after asking the node and which the formulas prefer.  A job is   *)
(* queued for some of the operations of a DAO; it reads the node's present *)
(* in several queries and stores it under the block of its operation.      *)
(* Several jobs run at once; a job that fails or times out is tried again, *)
(* and a run that timed out goes on; a job whose code id is not known      *)
(* completes and stores nothing.                                           *)
(***************************************************************************)
EXTENDS Integers, FiniteSets, FiniteSetsExt, Sequences

CONSTANTS
    DaoItems,     \* keys of the items of the DAO, in the order of the store
    DaoModules,   \* its proposal modules, in the order of their addresses
    ItemLimit,    \* page length of list_items (20)
    DaoBlocks,    \* bound on the operations of the DAO, one in a block
    DaoBounds     \* bounds of a behaviour: operations, runs at a time (10), jobs that
                  \* fail for good and attempts that are repeated

ASSUME DaoAssumption ==
    /\ DaoItems \subseteq Nat /\ DaoModules \subseteq Nat \ {0}
    /\ ItemLimit \in Nat \ {0} /\ DaoBlocks \in Nat \ {0}
    /\ DaoBounds \subseteq [blocks : 1..DaoBlocks, runs : Nat, failures : Nat, repeats : Nat,
                            known : SUBSET BOOLEAN]

VARIABLES
    dao,         \* dao[h]: the state after block h; events and transformations tell it
    version,     \* 1 or 2
    daoJobs,     \* queued jobs
    daoJob,      \* the runs under way
    daoKnown,    \* the code id is known as dao-dao-core
    extraction,  \* extraction[h]: the rows stored under block h
    daoLost,     \* blocks whose job failed for good, was ignored or was never queued
    daoBound     \* what is left of the bounds

daoVars == <<dao, version, daoJobs, daoJob, daoKnown, extraction, daoLost, daoBound>>

NoData == "no data"
NoRows == [config |-> 0, dump |-> <<>>, items |-> <<>>,
           modules |-> [m \in DaoModules |-> NoData]]

\* An instantiated DAO with one proposal module, whose job is queued if its code id
\* is known.
DaoInit ==
    /\ version \in {1, 2}
    /\ dao = <<[config |-> 1, voting |-> 1, paused |-> FALSE, items |-> {},
                modules |-> [m \in DaoModules |-> IF m = Min(DaoModules) THEN "enabled"
                                                  ELSE "none"]]>>
    /\ daoBound \in DaoBounds /\ daoKnown \in daoBound.known
    /\ daoJobs = IF daoKnown THEN {[block |-> 1, modules |-> TRUE]} ELSE {}
    /\ daoLost = IF daoKnown THEN {} ELSE {1}
    /\ daoJob = {}
    /\ extraction = [h \in 1..DaoBlocks |-> NoRows]

DaoTip == Len(dao)
DaoNow == dao[DaoTip]

DaoSpend(what) == daoBound[what] > 0 /\ daoBound' = [daoBound EXCEPT ![what] = @ - 1]

-----------------------------------------------------------------------------
(* The contract.                                                           *)

Operate(state, queued, modules) ==
    /\ DaoTip < daoBound.blocks
    /\ dao' = Append(dao, state)
    /\ daoJobs' = IF queued THEN daoJobs \cup {[block |-> DaoTip + 1, modules |-> modules]}
                  ELSE daoJobs
    /\ UNCHANGED <<version, daoJob, daoKnown, extraction, daoLost, daoBound>>

SetItem == \E k \in DaoItems \ DaoNow.items : Operate([DaoNow EXCEPT !.items = @ \cup {k}], TRUE, FALSE)
RemoveItem == \E k \in DaoNow.items : Operate([DaoNow EXCEPT !.items = @ \ {k}], TRUE, FALSE)
UpdateConfig == Operate([DaoNow EXCEPT !.config = 3 - @], TRUE, FALSE)
UpdateVotingModule == Operate([DaoNow EXCEPT !.voting = 3 - @], TRUE, FALSE)

\* Mutant: an operation on the modules is saved like any other.
SavesModules_Never == FALSE

\* value === 'execute_update_proposal_modules'
SavesModules == TRUE

\* A module is added or disabled; V1 removes it instead.
UpdateProposalModules ==
    \E m \in DaoModules :
        Operate([DaoNow EXCEPT !.modules[m] =
                    CASE @ = "enabled" -> IF version = 1 THEN "none" ELSE "disabled"
                      [] OTHER -> "enabled"], TRUE, SavesModules)

\* No source of the extractor matches a pause.
Pause == ~DaoNow.paused /\ Operate([DaoNow EXCEPT !.paused = TRUE], FALSE, FALSE)

-----------------------------------------------------------------------------
(* DaoExtractor.                                                           *)

\* The tracker of code ids learns the code id (WasmCodes).
LearnDaoCode ==
    /\ ~daoKnown /\ daoKnown' = TRUE
    /\ UNCHANGED <<dao, version, daoJobs, daoJob, extraction, daoLost, daoBound>>

StartDaoJob ==
    /\ daoKnown /\ Cardinality(daoJob) < daoBound.runs
    /\ \E j \in daoJobs :
           /\ daoJob' = daoJob \cup {[block |-> j.block, all |-> j.modules, left |-> {"dump", "config", "items"},
                                      after |-> -1, rows |-> NoRows, items |-> {}]}
           /\ daoJobs' = daoJobs \ {j}
    /\ UNCHANGED <<dao, version, daoKnown, extraction, daoLost, daoBound>>

\* The job of a DAO whose code id is not known returns nothing and completes.
IgnoreDaoJob ==
    /\ ~daoKnown
    /\ \E j \in daoJobs :
           /\ daoJobs' = daoJobs \ {j}
           /\ daoLost' = daoLost \cup {j.block}
    /\ UNCHANGED <<dao, version, daoJob, daoKnown, extraction, daoBound>>

Run(j, next) ==
    /\ daoJob' = (daoJob \ {j}) \cup {next}
    /\ UNCHANGED <<dao, version, daoJobs, daoKnown, extraction, daoLost, daoBound>>

\* dump_state, and its proposal modules if they are saved too.
QueryDump(j) ==
    /\ "dump" \in j.left
    /\ LET rows == [j.rows EXCEPT
               !.dump = <<[voting |-> DaoNow.voting, paused |-> DaoNow.paused, modules |-> DaoNow.modules]>>,
               !.modules = [m \in DaoModules |->
                   IF j.all /\ DaoNow.modules[m] # "none" THEN DaoNow.modules[m] ELSE NoData]]
       IN  Run(j, [j EXCEPT !.left = @ \ {"dump"}, !.rows = rows])

\* config, asked for at the same time.
QueryConfig(j) ==
    /\ "config" \in j.left
    /\ LET rows == [j.rows EXCEPT !.config = DaoNow.config]
       IN  Run(j, [j EXCEPT !.left = @ \ {"config"}, !.rows = rows])

\* Mutant: a full page is taken for the last one.
LastPage_Full(page) == Cardinality(page) <= ItemLimit

LastPage(page) == Cardinality(page) < ItemLimit

\* A page of list_items, once the other answers are there.
QueryItems(j) ==
    /\ j.left = {"items"}
    /\ LET rest == {k \in DaoNow.items : k > j.after}
           page == {k \in rest : Cardinality({i \in rest : i < k}) < ItemLimit}
           found == j.items \cup page
           rows == [j.rows EXCEPT !.items = <<found>>]
       IN  Run(j, IF LastPage(page) THEN [j EXCEPT !.left = {}, !.rows = rows]
                  ELSE [j EXCEPT !.after = Max(page), !.items = found])

\* Rows of the same name and block are replaced.
SaveDao(j) ==
    /\ j.left = {}
    /\ extraction' = [extraction EXCEPT ![j.block] =
           [j.rows EXCEPT !.modules = [m \in DaoModules |->
               IF j.rows.modules[m] = NoData THEN extraction[j.block].modules[m] ELSE j.rows.modules[m]]]]
    /\ daoJob' = daoJob \ {j}
    /\ UNCHANGED <<dao, version, daoJobs, daoKnown, daoLost, daoBound>>

\* A run that fails has ended, one that times out goes on.
TryDaoAgain(j) ==
    /\ DaoSpend("repeats")
    /\ daoJobs' = daoJobs \cup {[block |-> j.block, modules |-> j.all]}
    /\ daoJob' \in {daoJob, daoJob \ {j}}
    /\ UNCHANGED <<dao, version, daoKnown, extraction, daoLost>>

\* So it is with the last attempt, after which the job has failed.
FailDaoJob(j) ==
    /\ DaoSpend("failures")
    /\ daoLost' = daoLost \cup {j.block}
    /\ daoJob' \in {daoJob, daoJob \ {j}}
    /\ UNCHANGED <<dao, version, daoJobs, daoKnown, extraction>>

-----------------------------------------------------------------------------
(* The formulas, at the latest block.                                      *)

\* The newest extraction that Has what is asked for.
NewestWhere(Has(_)) == LET H == {h \in 1..DaoTip : Has(extraction[h])}
                       IN  IF H = {} THEN 0 ELSE Max(H)

\* The first source that has the value: an extraction, then transformations and events.
dumpState ==
    LET Has(x) == x.dump # <<>>
        h == NewestWhere(Has)
    IN  IF h > 0 THEN extraction[h].dump[1]
        ELSE [voting |-> DaoNow.voting, paused |-> DaoNow.paused, modules |-> DaoNow.modules]

votingModule == dumpState.voting

config ==
    LET Has(x) == x.config # 0
        h == NewestWhere(Has)
    IN  IF h > 0 THEN extraction[h].config ELSE DaoNow.config

listItems ==
    LET Has(x) == x.items # <<>>
        h == NewestWhere(Has)
    IN  IF h > 0 THEN extraction[h].items[1] ELSE DaoNow.items

\* The newest row of every module; the other sources only if there is no row at all.
proposalModules ==
    LET Row(m) == LET Has(x) == x.modules[m] # NoData IN NewestWhere(Has)
    IN  IF \A m \in DaoModules : Row(m) = 0 THEN DaoNow.modules
        ELSE [m \in DaoModules |-> IF Row(m) = 0 THEN "none" ELSE extraction[Row(m)].modules[m]]

\* Transformations and events only.
item(k) == k \in DaoNow.items
pauseInfo == DaoNow.paused

DaoNext ==
    \/ SetItem
    \/ RemoveItem
    \/ UpdateConfig
    \/ UpdateVotingModule
    \/ UpdateProposalModules
    \/ Pause
    \/ LearnDaoCode
    \/ StartDaoJob
    \/ IgnoreDaoJob
    \/ \E j \in daoJob : \/ QueryDump(j) \/ QueryConfig(j) \/ QueryItems(j) \/ SaveDao(j)
                         \/ TryDaoAgain(j) \/ FailDaoJob(j)

DaoSpec == DaoInit /\ [][DaoNext]_daoVars

-----------------------------------------------------------------------------
\* The last block that changed one of the fields.
LastChange(fields) == Max({h \in 1..DaoTip : h = 1 \/ \E f \in fields : dao[h][f] # dao[h - 1][f]})

\* When no job is left, the formulas tell the state of the DAO as soon as the job of
\* its last change was not lost, whichever jobs before it were: but for its pause,
\* which no job is queued for. Its modules need the job of their own last change, and
\* those that a V1 DAO removed stay, as nothing clears their rows (DaoExtractor,
\* daoCore formulas).
DaoSettles ==
    daoJobs = {} /\ daoJob = {} =>
        /\ LastChange({"config", "voting", "items", "modules"}) \notin daoLost =>
               /\ config = DaoNow.config
               /\ votingModule = DaoNow.voting
               /\ listItems = DaoNow.items
               /\ [dumpState EXCEPT !.paused = DaoNow.paused] =
                      [voting |-> DaoNow.voting, paused |-> DaoNow.paused, modules |-> DaoNow.modules]
        /\ LastChange({"modules"}) \notin daoLost =>
               \A m \in DaoModules : \/ version = 1 /\ DaoNow.modules[m] = "none"
                                     \/ proposalModules[m] = DaoNow.modules[m]

=============================================================================
