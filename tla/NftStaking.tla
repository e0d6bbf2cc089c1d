----------------------------- MODULE NftStaking -----------------------------
(***************************************************************************)
(* Voting with staked NFTs.  daoVotingOnftStaked is read from the indexed  *)
(* state of the contract.  daoVotingCw721Staked prefers what the           *)
(* NftStakeUpdateExtractor found out: after a stake or an unstake it asks  *)
(* a node for the totals and, page by page, for the staker's tokens and    *)
(* saves the answers under the block of the event, though the node answers *)
(* for the block it is at by then.  A job whose code id is not known       *)
(* completes and saves nothing; one that fails or times out is tried again,*)
(* and a run that timed out goes on.                                       *)
(***************************************************************************)
EXTENDS Integers, Sequences, FiniteSets, FiniteSetsExt

CONSTANTS
    Tokens,         \* in the order of the contract's store
    Stakers,
    NftLimit,       \* page length of staked_nfts (30)
    NftBounds       \* bounds of a behaviour: blocks, moves of tokens and failed attempts

ASSUME NftStakingAssumption ==
    /\ Tokens \subseteq Nat \ {0} /\ IsFiniteSet(Tokens)
    /\ NftLimit \in Nat \ {0}
    /\ NftBounds \subseteq [blocks : Nat, moves : Nat, failures : Nat, known : SUBSET BOOLEAN]

VARIABLES
    owners,     \* owners[h][t]: {} or {who staked token t}, after block h
    nftJobs,    \* extract jobs and their runs under way
    nftKnown,   \* the code id is known as dao-voting-cw721-staked
    totalRows,  \* extractions total_power_at_height:<height>
    stakerRows, \* extractions staker:<sender>
    ownerRows,  \* extractions stakedNftOwner:<token>
    nftLate,    \* heights whose total was asked for when later blocks were there
    nftLost,    \* jobs that failed for good or were ignored
    indexed,    \* whether the contract's state is indexed as well
    nftBound    \* what is left of the bounds

nftVars == <<owners, nftJobs, nftKnown, totalRows, stakerRows, ownerRows, nftLate, nftLost, indexed, nftBound>>

NftHeight == Len(owners)
Now == owners[NftHeight]

NftStakingInit ==
    /\ owners = <<[t \in Tokens |-> {}]>>
    /\ nftJobs = {} /\ totalRows = {} /\ stakerRows = {} /\ ownerRows = {}
    /\ nftLate = {} /\ nftLost = {}
    /\ indexed \in BOOLEAN
    /\ nftBound \in NftBounds /\ nftKnown \in nftBound.known

-----------------------------------------------------------------------------
(* The contract. A query of a power sees the value before the block the    *)
(* node is at, a query of tokens the value after it.                       *)

Staked(own) == {t \in Tokens : own[t] # {}}
StakedBy(own, s) == {t \in Tokens : own[t] = {s}}

Before721(h) == IF h = 1 THEN owners[1] ELSE owners[h - 1]

\* The job of a staker's event.
NewJob(h, s) == [height |-> h, sender |-> s, phase |-> "total", total |-> 0, power |-> 0,
                 after |-> 0, tokens |-> {}]

\* A block in which some tokens are staked, unstaked or both. Each staker who did
\* something is the sender of an event, for which the listener adds a job.
NftBlock ==
    /\ nftBound.blocks > 0
    /\ \E moved \in UNION {kSubset(n, Tokens) : n \in 0 .. Min({nftBound.moves, Cardinality(Tokens)})} :
       \E to \in [moved -> {{}} \cup {{s} : s \in Stakers}] :
           /\ \A t \in moved : to[t] # Now[t]
           /\ owners' = Append(owners, [t \in Tokens |-> IF t \in moved THEN to[t] ELSE Now[t]])
           /\ nftJobs' = nftJobs \cup
                  {NewJob(NftHeight + 1, s) : s \in UNION {to[t] \cup Now[t] : t \in moved}}
           /\ nftBound' = [nftBound EXCEPT !.blocks = @ - 1, !.moves = @ - Cardinality(moved)]
    /\ UNCHANGED <<nftKnown, totalRows, stakerRows, ownerRows, nftLate, nftLost, indexed>>

-----------------------------------------------------------------------------
(* NftStakeUpdateExtractor.save, a step per query.                         *)

Becomes(j, next) == nftJobs' = (nftJobs \ {j}) \cup {next}

\* Mutant: the block itself is enough.
waitForBlock_Same(j) == NftHeight >= j.height

\* Waits until the node is past the block.
waitForBlock(j) == NftHeight > j.height

\* The tracker of code ids learns the code id (WasmCodes).
LearnNftCode ==
    /\ ~nftKnown /\ nftKnown' = TRUE
    /\ UNCHANGED <<owners, nftJobs, totalRows, stakerRows, ownerRows, nftLate, nftLost, indexed, nftBound>>

Lose(j) == nftLost' = nftLost \cup {[height |-> j.height, sender |-> j.sender]}

\* The job of a contract whose code id is not known returns nothing and completes.
ignoreNftJob(j) ==
    /\ j \in nftJobs /\ j.phase = "total" /\ waitForBlock(j) /\ ~nftKnown
    /\ nftJobs' = nftJobs \ {j} /\ Lose(j)
    /\ UNCHANGED <<owners, nftKnown, totalRows, stakerRows, ownerRows, nftLate, indexed, nftBound>>

queryTotalPower(j) ==
    /\ j \in nftJobs /\ j.phase = "total" /\ waitForBlock(j) /\ nftKnown
    /\ Becomes(j, [j EXCEPT !.phase = "power", !.total = Cardinality(Staked(Before721(NftHeight)))])
    /\ nftLate' = IF NftHeight > j.height + 1 THEN nftLate \cup {j.height} ELSE nftLate
    /\ UNCHANGED <<owners, nftKnown, totalRows, stakerRows, ownerRows, nftLost, indexed, nftBound>>

queryVotingPower(j) ==
    /\ j \in nftJobs /\ j.phase = "power"
    /\ Becomes(j, [j EXCEPT !.phase = "tokens", !.power = Cardinality(StakedBy(Before721(NftHeight), j.sender))])
    /\ UNCHANGED <<owners, nftKnown, totalRows, stakerRows, ownerRows, nftLate, nftLost, indexed, nftBound>>

LastNftPage(page) == Cardinality(page) < NftLimit

\* A page of staked_nfts.
queryStakedNfts(j) ==
    /\ j \in nftJobs /\ j.phase = "tokens"
    /\ LET rest == {t \in StakedBy(Now, j.sender) : t > j.after}
           page == {t \in rest : Cardinality({u \in rest : u < t}) < NftLimit}
           found == j.tokens \cup page
       IN  Becomes(j, IF LastNftPage(page) THEN [j EXCEPT !.phase = "save", !.tokens = found]
                      ELSE [j EXCEPT !.after = Max(page), !.tokens = found])
    /\ UNCHANGED <<owners, nftKnown, totalRows, stakerRows, ownerRows, nftLate, nftLost, indexed, nftBound>>

\* Rows are upserted, by name and height.
Upsert(rows, new) ==
    {r \in rows : \A n \in new : r.name # n.name \/ r.height # n.height} \cup new

\* Mutant: under the block the node is at.
save_Now(j) ==
    /\ j \in nftJobs /\ j.phase = "save"
    /\ nftJobs' = nftJobs \ {j}
    /\ totalRows' = Upsert(totalRows, {[name |-> NftHeight, height |-> NftHeight, data |-> j.total]})
    /\ stakerRows' = Upsert(stakerRows,
           {[name |-> j.sender, height |-> NftHeight, data |-> [power |-> j.power, tokens |-> j.tokens]]})
    /\ ownerRows' = Upsert(ownerRows, {[name |-> t, height |-> NftHeight, data |-> j.sender] : t \in j.tokens})
    /\ UNCHANGED <<owners, nftKnown, nftLate, nftLost, indexed, nftBound>>

\* The outputs are saved under the block of the event. Nothing is saved for tokens
\* the sender no longer has.
save(j) ==
    /\ j \in nftJobs /\ j.phase = "save"
    /\ nftJobs' = nftJobs \ {j}
    /\ totalRows' = Upsert(totalRows, {[name |-> j.height, height |-> j.height, data |-> j.total]})
    /\ stakerRows' = Upsert(stakerRows,
           {[name |-> j.sender, height |-> j.height, data |-> [power |-> j.power, tokens |-> j.tokens]]})
    /\ ownerRows' = Upsert(ownerRows, {[name |-> t, height |-> j.height, data |-> j.sender] : t \in j.tokens})
    /\ UNCHANGED <<owners, nftKnown, nftLate, nftLost, indexed, nftBound>>

\* An attempt fails, or times out and its run goes on: the job is attempted again, or
\* was attempted for the last time.
attemptFails(j) ==
    /\ j \in nftJobs /\ nftBound.failures > 0
    /\ nftBound' = [nftBound EXCEPT !.failures = @ - 1]
    /\ \E left \in {nftJobs, nftJobs \ {j}} :
           \/ nftJobs' = left \cup {NewJob(j.height, j.sender)} /\ UNCHANGED nftLost
           \/ nftJobs' = left /\ Lose(j)
    /\ UNCHANGED <<owners, nftKnown, totalRows, stakerRows, ownerRows, nftLate, indexed>>

NftStakingNext ==
    \/ NftBlock
    \/ LearnNftCode
    \/ \E j \in nftJobs : ignoreNftJob(j) \/ queryTotalPower(j) \/ queryVotingPower(j)
                              \/ queryStakedNfts(j) \/ save(j) \/ attemptFails(j)

NftStakingSpec == NftStakingInit /\ [][NftStakingNext]_nftVars

-----------------------------------------------------------------------------
(* The formulas.                                                           *)

\* The latest row of a name, if any.
LatestRow(rows, name) ==
    LET mine == {r \in rows : r.name = name}
    IN  {r.data : r \in {x \in mine : \A y \in mine : y.height <= x.height}}

\* What the indexed state holds; without it the formulas find nothing.
State(own) == IF indexed THEN own ELSE [t \in Tokens |-> {}]

\* daoVotingOnftStaked: the indexed state, at a height or now.
onftPowerAtHeight(s, h) == Cardinality(StakedBy(State(Before721(h)), s))
onftTotalPowerAtHeight(h) == Cardinality(Staked(State(Before721(h))))
onftStakedNfts(s) == StakedBy(State(Now), s)
onftStaker(t) == State(Now)[t]
onftTopStakers == [s \in {x \in Stakers : onftStakedNfts(x) # {}} |-> Cardinality(onftStakedNfts(s))]
onftOwnersOfStakedNfts ==
    [t \in UNION {onftStakedNfts(s) : s \in DOMAIN onftTopStakers} |->
        CHOOSE s \in DOMAIN onftTopStakers : t \in onftStakedNfts(s)]

\* daoVotingCw721Staked: the power of a staker comes from the state alone.
cw721PowerAtHeight(s, h) == Cardinality(StakedBy(State(Before721(h)), s))

\* The total is that of the highest extraction below the height, else the state's.
cw721TotalPowerAtHeight(h) ==
    LET below == {r \in totalRows : r.height < h}
    IN  IF below = {} THEN Cardinality(Staked(State(Before721(h))))
        ELSE (CHOOSE r \in below : \A x \in below : x.height <= r.height).data

cw721StakedNfts(s) ==
    IF LatestRow(stakerRows, s) # {} THEN (CHOOSE d \in LatestRow(stakerRows, s) : TRUE).tokens
    ELSE StakedBy(State(Now), s)

cw721Staker(t) == IF LatestRow(ownerRows, t) # {} THEN LatestRow(ownerRows, t) ELSE State(Now)[t]

\* The balances of the state, overridden by those of extractions, without zeros.
cw721Balance(s) ==
    IF LatestRow(stakerRows, s) # {} THEN (CHOOSE d \in LatestRow(stakerRows, s) : TRUE).power
    ELSE Cardinality(StakedBy(State(Now), s))

cw721TopStakers == [s \in {x \in Stakers : cw721Balance(x) > 0} |-> cw721Balance(s)]

\* Of two stakers listed with a token, the one that comes last in the map wins.
cw721OwnersOfStakedNfts ==
    LET stakers == {s \in Stakers : cw721Balance(s) > 0}
    IN  [t \in UNION {cw721StakedNfts(s) : s \in stakers} |-> {s \in stakers : t \in cw721StakedNfts(s)}]

-----------------------------------------------------------------------------
(* Properties.                                                             *)

\* The last block that changed a value of the owners.
LastMove(Of(_)) == Max({h \in 1 .. NftHeight : h = 1 \/ Of(owners[h]) # Of(owners[h - 1])})

\* The job of the last change of a staker, or of a token that is staked, was lost.
StakerLost(s) == LET Of(own) == StakedBy(own, s)
                 IN  [height |-> LastMove(Of), sender |-> s] \in nftLost
TokenLost(t) == LET Of(own) == own[t]
                IN  \E s \in Now[t] : [height |-> LastMove(Of), sender |-> s] \in nftLost

\* When no job is left, a staker's tokens and share are those of the contract unless
\* the job of its last event was lost, and so are the stakers, their shares and the
\* owners of the tokens if none was, in whatever order, however late and however often
\* the jobs ran, and whether or not the state is indexed as well: the row under the
\* last event of a staker was read after that event, page by page (save, topStakers,
\* ownersOfStakedNfts).
StakersSettle ==
    nftJobs = {} =>
        /\ \A s \in Stakers : ~StakerLost(s) =>
               cw721StakedNfts(s) = StakedBy(Now, s) /\ cw721Balance(s) = Cardinality(StakedBy(Now, s))
        /\ \A t \in Staked(Now) : ~TokenLost(t) => cw721Staker(t) = Now[t]
        /\ (\A s \in Stakers : ~StakerLost(s)) =>
               /\ cw721TopStakers = [s \in {x \in Stakers : StakedBy(Now, x) # {}} |-> Cardinality(StakedBy(Now, s))]
               /\ cw721OwnersOfStakedNfts = [t \in Staked(Now) |-> Now[t]]
               /\ indexed => cw721TopStakers = onftTopStakers
        /\ indexed => \A s \in Stakers, h \in 1 .. NftHeight :
               onftPowerAtHeight(s, h) = cw721PowerAtHeight(s, h) /\ onftPowerAtHeight(s, h) <= onftTotalPowerAtHeight(h)

\* A total at a height is the one there was when that block began if the jobs
\* below were done in time; a job that comes late saves a later total under its
\* block (totalPowerAtHeight).
TotalsOnTime ==
    \A h \in 1 .. NftHeight :
        (/\ \A j \in nftJobs \cup nftLost : j.height >= h
         /\ \A l \in nftLate : l >= h)
        => cw721TotalPowerAtHeight(h) = Cardinality(Staked(Before721(h)))

\* Stakers once the extractors are done, and totals of jobs that were in time.
StakingSettles ==
    /\ StakersSettle
    /\ TotalsOnTime
=============================================================================
