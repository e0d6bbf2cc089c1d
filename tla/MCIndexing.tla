----------------------------- MODULE MCIndexing -----------------------------
\* What brings the database in line with a contract: extractors, syncs, recovery
\* jobs and the import. They share no state, so a behaviour is one of a single
\* component, its focus, and the others stay at rest: the state spaces add up
\* instead of multiplying.
EXTENDS NftStaking, ProposalModule, Recovery, StateImport, DaoCore, TLC

CONSTANTS r1, r2, r3, s1, s2

VARIABLE focus

-----------------------------------------------------------------------------
\* Staked tokens.
NftSizes ==
    {[blocks |-> 3, moves |-> 2, failures |-> 1, known |-> BOOLEAN],
     [blocks |-> 3, moves |-> 3, failures |-> 0, known |-> BOOLEAN]}

\* A proposal module: a sync; jobs that fail; formulas over events only; over
\* extractions; a listener that starts late.
PmSize(blocks, exports) ==
    [blocks |-> blocks, proposals |-> 2, exports |-> exports, failures |-> 0, syncs |-> 0,
     walks |-> 0, starts |-> 0, listening |-> {TRUE}, known |-> BOOLEAN, kind |-> "v2"]
PmSizes ==
    {[PmSize(2, 0) EXCEPT !.syncs = 1, !.known = {TRUE}],
     [PmSize(2, 0) EXCEPT !.syncs = 1, !.known = {TRUE}, !.proposals = 1, !.starts = 1, !.listening = {FALSE}],
     [PmSize(3, 1) EXCEPT !.failures = 1, !.kind = "v1"],
     [PmSize(3, 3) EXCEPT !.walks = 1, !.listening = {FALSE}],
     [PmSize(3, 0) EXCEPT !.walks = 1, !.known = {TRUE}],
     [PmSize(2, 2) EXCEPT !.walks = 1, !.starts = 1, !.listening = BOOLEAN, !.kind = "multiple"]}

\* Recovery: one job over three blocks; two jobs over two; and two jobs over three
\* blocks that change one key, set at first, two of them lost, so that it may return to a
\* value it had. A key that is set at first is "a" (the values of two keys are never
\* compared).
RecoverySizes ==
    {[jobs |-> {r1}, keys |-> StateKeys, blocks |-> 3, lost |-> 1],
     [jobs |-> {r2, r3}, keys |-> StateKeys, blocks |-> 2, lost |-> 1],
     [jobs |-> {r2, r3}, keys |-> {1}, blocks |-> 3, lost |-> 2]}

\* The two jobs are interchangeable, and so are the stakers.
IndexingSymmetry == Permutations({r2, r3}) \cup Permutations({s1, s2})

\* Exports: one key changes in a block, and the first change is of key 1. It is an
\* authenticator, with a name at first ("a") or with one that is too long ("b"); key 2 is another key (the
\* values of two keys are never compared). The last snapshot is of the last two blocks. The
\* export with one snapshot at the export height is also one without the chain's answer,
\* and one of a contract under another code id.
Histories ==
    {f \in [1 .. ExportHeight -> [EntryKeys -> EntryValues \cup {NoEntry}]] :
        /\ \A h \in 1 .. ExportHeight : f[h][1] # "x" /\ f[h][2] \in {"x", NoEntry}
        /\ f[1][1] # "b" /\ f[1][2] = NoEntry
        /\ f[1][1] = NoEntry => f[2][1] # "b" /\ f[2][2] = NoEntry
        /\ \A h \in 2 .. ExportHeight : \E k \in EntryKeys : f[h] = [f[h - 1] EXCEPT ![k] = f[h][k]]}
SomeExports ==
    {x \in [history : Histories, snapshots : SUBSET (1 .. ExportHeight),
            reported : BOOLEAN, tracked : BOOLEAN] :
        /\ x.snapshots \ {1} # {}
        /\ {1, 2} # x.snapshots
        /\ x.snapshots = {ExportHeight} \/ (x.reported /\ x.tracked)}

\* A DAO: two runs at a time; jobs that are lost; an attempt that is repeated.
DaoSizes ==
    LET Size(b, n, f, r, k) == [blocks |-> b, runs |-> n, failures |-> f, repeats |-> r, known |-> k]
    IN  {Size(3, 2, 0, 0, {TRUE}), Size(3, 1, 1, 0, BOOLEAN), Size(2, 2, 1, 1, {TRUE})}

-----------------------------------------------------------------------------
\* A component at rest starts from one state.
AtRest ==
    /\ IF focus = "nft" THEN TRUE ELSE indexed = TRUE /\ nftKnown = TRUE /\ nftBound = CHOOSE x \in NftSizes : TRUE \in x.known
    /\ IF focus = "module" THEN TRUE
       ELSE pmKnown = TRUE /\ listening = TRUE /\ pmBound = CHOOSE x \in PmSizes : TRUE \in x.listening
    /\ IF focus = "recovery"
       THEN /\ recoveryAllowed \in RecoverySizes
            /\ chain \in [1 .. 1 -> [StateKeys -> {"a", Gone}]]
            /\ \A k \in StateKeys \ recoveryAllowed.keys : chain[1][k] = Gone
            /\ recoveryAllowed.keys # StateKeys => \A k \in recoveryAllowed.keys : chain[1][k] = "a"
       ELSE /\ recoveryAllowed = CHOOSE x \in RecoverySizes : TRUE
            /\ chain = [h \in 1 .. 1 |-> [k \in StateKeys |-> Gone]]
    /\ IF focus = "import" THEN TRUE
       ELSE \E x \in {CHOOSE y \in Exports : TRUE} :
                /\ history = x.history /\ snapshots = x.snapshots
                /\ reported = x.reported /\ tracked = x.tracked
                /\ entries = [k \in EntryKeys |-> [h \in 1 .. ExportHeight |-> Unstored]]
    /\ IF focus = "dao" THEN TRUE ELSE version = 2 /\ daoKnown = TRUE /\ daoBound = CHOOSE x \in DaoSizes : TRUE \in x.known

IndexingInit ==
    /\ focus \in {"nft", "module", "recovery", "import", "dao"}
    /\ AtRest
    /\ NftStakingInit
    /\ ProposalModuleInit
    /\ RecoveryInit
    /\ ImportInit
    /\ DaoInit

IndexingNext ==
    \/ /\ focus = "nft" /\ NftStakingNext
       /\ UNCHANGED <<focus, pmVars, recoveryVars, importVars, daoVars>>
    \/ /\ focus = "module" /\ ProposalModuleNext
       /\ UNCHANGED <<focus, nftVars, recoveryVars, importVars, daoVars>>
    \/ /\ focus = "recovery" /\ RecoveryNext
       /\ UNCHANGED <<focus, nftVars, pmVars, importVars, daoVars>>
    \/ /\ focus = "import" /\ ImportNext
       /\ UNCHANGED <<focus, nftVars, pmVars, recoveryVars, daoVars>>
    \/ /\ focus = "dao" /\ DaoNext
       /\ UNCHANGED <<focus, nftVars, pmVars, recoveryVars, importVars>>

IndexingSpec == IndexingInit /\ [][IndexingNext]_<<focus, nftVars, pmVars, recoveryVars, importVars, daoVars>>
=============================================================================
