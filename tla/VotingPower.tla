---------------------------- MODULE VotingPower ----------------------------
(***************************************************************************)
(* Voting power and delegations, as the formulas report them.  Contracts   *)
(* keep them in snapshot maps and items (cw-storage-plus), vector maps and *)
(* wormholes, which the transformers index entry by entry; the formulas    *)
(* (formulas/utils.ts, contract/voting, contract/staking,                  *)
(* contract/delegation, external/cw4Group.ts) put the value at a height    *)
(* together again.                                                         *)
(***************************************************************************)
EXTENDS Integers, Sequences, FiniteSets, FiniteSetsExt, SequencesExt

CONSTANTS
    Members,        \* addresses, numbered in their order
    Delegates,      \* addresses that may be delegates
    MaxStake,       \* bound on the stake of a member
    MaxBlock,       \* bound on the height
    MaxChanges,     \* bound on the transactions of a behaviour
    Lifetime,       \* blocks until a delegation expires
    Whole,          \* a voting power cap is a part of this
    Caps            \* the caps that are set

ASSUME VotingPowerAssumption ==
    /\ Members \subseteq Nat \ {0} /\ IsFiniteSet(Members) /\ Delegates \subseteq Nat \ {0}
    /\ MaxStake \in Nat /\ MaxBlock \in Nat /\ MaxChanges \in Nat
    /\ Lifetime \in Nat \ {0} /\ Whole \in Nat \ {0} /\ Caps \subseteq 0 .. Whole

VARIABLES
    block,      \* the latest block
    store,      \* the indexed entries of snapshot maps and items
    delegated,  \* the wormhole: delegated[d]: values from a height on
    made,       \* the delegations a member made, by id
    ballot,     \* a proposal: the height it opened at, or 0, who voted and the unvoted power
    past,       \* past[h]: what the contract held when block h began
    changes,    \* transactions so far
    stakes      \* whether this behaviour stakes or delegates

powerVars == <<block, store, delegated, made, ballot, past, changes, stakes>>

\* A value is <<>> where there is none, <<v>>, or Removed.
Removed == <<"no", "value">>
Total == 0              \* the key of a snapshot item
Error == -1             \* a formula throws

\* A snapshot map or item: the current value, and the changelog, whose entries
\* have the value before their height.
Snapshots == [value |-> <<>>, log |-> <<>>]

\* In a behaviour about delegations every member has a power of one.
VotingPowerInit ==
    /\ block = 1
    /\ stakes \in BOOLEAN
    /\ LET Start(n) == IF stakes THEN Snapshots ELSE [Snapshots EXCEPT !.value = <<n>>]
       IN  store = [balance |-> [k \in Members \cup {Total} |->
                                    Start(IF k = Total THEN Cardinality(Members) ELSE 1)],
                    delegate |-> [d \in Delegates |-> Snapshots],
                    active |-> [m \in Members |-> Snapshots],
                    cap |-> Snapshots]
    /\ delegated = [d \in Delegates |-> {}]
    /\ made = [m \in Members |-> <<>>]
    /\ ballot = [opened |-> 0, voted |-> {}, unvoted |-> [d \in Delegates |-> <<>>]]
    /\ past = <<[balance |-> [m \in Members |-> IF stakes THEN 0 ELSE 1], delegate |-> {},
                 active |-> [m \in Members |-> {}], cap |-> <<>>]>>
    /\ changes = 0

-----------------------------------------------------------------------------
(* Snapshots.                                                              *)

Exists(x) == Len(x) = 1
Cur(s) == IF Exists(s.value) THEN s.value ELSE <<>>

\* Mutant: after the height.
snapshotMayLoad_After(s, height) ==
    LET since == {i \in DOMAIN s.log : s.log[i].height > height}
    IN  IF since = {} THEN <<>>
        ELSE <<s.log[CHOOSE i \in since : \A j \in since : s.log[i].height <= s.log[j].height].old>>

\* The first entry at or after the height.
snapshotMayLoad(s, height) ==
    LET since == {i \in DOMAIN s.log : s.log[i].height >= height}
    IN  IF since = {} THEN <<>>
        ELSE <<s.log[CHOOSE i \in since : \A j \in since : s.log[i].height <= s.log[j].height].old>>

mayLoadAtHeight(s, height) ==
    LET old == snapshotMayLoad(s, height)
    IN  IF old = <<>> THEN Cur(s) ELSE IF Exists(old[1]) THEN old[1] ELSE <<>>

OrZero(x) == IF x = <<>> THEN 0 ELSE x[1]

\* Without a height argument a formula takes the height of the block.
AtHeight(height) == IF height = {} THEN block ELSE CHOOSE h \in height : TRUE

SnapshotPower(m, height) == OrZero(mayLoadAtHeight(store.balance[m], AtHeight(height)))
SnapshotTotal(height) == OrZero(mayLoadAtHeight(store.balance[Total], AtHeight(height)))

\* Mutant: starts at the key.
mapRange_From(map, startAfter, limit) ==
    LET keys == {k \in DOMAIN map \ {Total} : k >= startAfter /\ map[k].value # <<>>}
        page == {k \in keys : Cardinality({x \in keys : x < k}) < limit}
    IN  {k \in page : Exists(map[k].value)}

\* mapRange: the limit is taken of the keys, removed ones included, and those
\* are dropped after. The set stands for the list in the order of the keys.
mapRange(map, startAfter, limit) ==
    LET keys == {k \in DOMAIN map \ {Total} : k > startAfter /\ map[k].value # <<>>}
        page == {k \in keys : Cardinality({x \in keys : x < k}) < limit}
    IN  {k \in page : Exists(map[k].value)}

Everyone == Cardinality(Members)
Balance(m) == OrZero(Cur(store.balance[m]))

\* Stakers and the total their voting power percent is taken of.
SharesOf(stakers, total) == [shares |-> [m \in stakers |-> Balance(m)], of |-> total]

\* The first n by descending balance; who comes first of equals is open, the
\* lower key here.
TopBy(stakers, n) ==
    {m \in stakers : Cardinality({x \in stakers : Balance(x) > Balance(m)
                                       \/ (Balance(x) = Balance(m) /\ x < m)}) < n}

-----------------------------------------------------------------------------
(* The voting modules.                                                     *)

\* daoVotingTokenStaked.
tokenStakedPowerAtHeight(m, height) == SnapshotPower(m, height)
tokenStakedTotalPowerAtHeight(height) == SnapshotTotal(height)
tokenStakedListStakers(startAfter, limit) == mapRange(store.balance, startAfter, limit)

\* Mutant: one staker is left out.
tokenStakedTopStakers_Limited ==
    SharesOf(tokenStakedListStakers(0, Everyone - 1), tokenStakedTotalPowerAtHeight({}))

tokenStakedTopStakers ==
    SharesOf(tokenStakedListStakers(0, Everyone), tokenStakedTotalPowerAtHeight({}))

\* daoVotingNativeStaked.
nativeStakedPowerAtHeight(m, height) == SnapshotPower(m, height)
nativeStakedTotalPowerAtHeight(height) == SnapshotTotal(height)
nativeStakedListStakers(startAfter, limit) == mapRange(store.balance, startAfter, limit)
nativeStakedTopStakers ==
    SharesOf(nativeStakedListStakers(0, Everyone), nativeStakedTotalPowerAtHeight({}))

\* daoVotingSgCommunityNft, whose voters are listed in the order of the keys of a
\* map of their tokens: a voter's token is registered while it has power.
voterTokens ==
    [m \in Members |-> [value |-> IF Balance(m) > 0 THEN <<m>>
                                  ELSE IF store.balance[m].value = <<>> THEN <<>> ELSE Removed]]
sgCommunityPowerAtHeight(m, height) == SnapshotPower(m, height)
sgCommunityTotalPowerAtHeight(height) == SnapshotTotal(height)
sgCommunityListVoters(startAfter, limit) == mapRange(voterTokens, startAfter, limit)
sgCommunityAllVotersWithVotingPower ==
    SharesOf(mapRange(store.balance, 0, Everyone), sgCommunityTotalPowerAtHeight({}))

\* cw20Stake, the contract that keeps the stakes of daoVotingCw20Staked. Its
\* list of top stakers has no empty balances.
stakedBalanceAtHeight(m, height) == SnapshotPower(m, height)
totalStakedAtHeight(height) == SnapshotTotal(height)
cw20StakeListStakers(startAfter, limit) == mapRange(store.balance, startAfter, limit)
cw20StakeTopStakers(limit) ==
    TopBy({m \in Members : Exists(store.balance[m].value) /\ Balance(m) > 0}, limit)

\* daoVotingCw20Staked, where staking tells whether the staking contract is known,
\* of an unknown kind, or not indexed. The power and the stakers need a known
\* one; the total does not look.
cw20StakedPowerAtHeight(staking, m, height) ==
    IF staking = "known" THEN stakedBalanceAtHeight(m, height) ELSE Error
cw20StakedTotalPowerAtHeight(staking, height) ==
    IF staking = "missing" THEN 0 ELSE totalStakedAtHeight(height)
cw20StakedTopStakers == SharesOf(cw20StakeTopStakers(Everyone), cw20StakedTotalPowerAtHeight("known", {}))

\* cw4Group answers with the current value when no height is given.
member(m, height) ==
    IF height = {} THEN Balance(m)
    ELSE OrZero(mayLoadAtHeight(store.balance[m], AtHeight(height)))
listMembersOfGroup(startAfter, limit) == mapRange(store.balance, startAfter, limit)

\* Mutant: the weight of now at every height.
totalWeight_Now(height) == OrZero(Cur(store.balance[Total]))

totalWeight(height) ==
    IF height = {} THEN OrZero(Cur(store.balance[Total]))
    ELSE OrZero(mayLoadAtHeight(store.balance[Total], AtHeight(height)))

\* daoVotingCw4 asks its group.
cw4PowerAtHeight(m, height) == member(m, height)
cw4TotalPowerAtHeight(height) == totalWeight(height)

-----------------------------------------------------------------------------
(* The DAO passes a query through to its voting module, by the kind of its *)
(* code.                                                                   *)

Kinds == {"token", "native", "sg", "cw20", "cw4"}

votingPowerAtHeight(kind, m, height) ==
    CASE kind = "token"  -> tokenStakedPowerAtHeight(m, height)
      [] kind = "native" -> nativeStakedPowerAtHeight(m, height)
      [] kind = "sg"     -> sgCommunityPowerAtHeight(m, height)
      [] kind = "cw20"   -> cw20StakedPowerAtHeight("known", m, height)
      [] kind = "cw4"    -> cw4PowerAtHeight(m, height)
      [] OTHER -> Error

totalPowerAtHeight(kind, height) ==
    CASE kind = "token"  -> tokenStakedTotalPowerAtHeight(height)
      [] kind = "native" -> nativeStakedTotalPowerAtHeight(height)
      [] kind = "sg"     -> sgCommunityTotalPowerAtHeight(height)
      [] kind = "cw20"   -> cw20StakedTotalPowerAtHeight("known", height)
      [] kind = "cw4"    -> cw4TotalPowerAtHeight(height)
      [] OTHER -> Error

listMembers(kind) ==
    CASE kind = "token"  -> tokenStakedTopStakers
      [] kind = "native" -> nativeStakedTopStakers
      [] kind = "sg"     -> sgCommunityAllVotersWithVotingPower
      [] kind = "cw20"   -> cw20StakedTopStakers
      [] kind = "cw4"    -> SharesOf(listMembersOfGroup(0, Everyone), totalWeight({}))

\* The pages of the lists.
ListStakers(kind, startAfter, limit) ==
    CASE kind = "token"  -> tokenStakedListStakers(startAfter, limit)
      [] kind = "native" -> nativeStakedListStakers(startAfter, limit)
      [] kind = "sg"     -> sgCommunityListVoters(startAfter, limit)
      [] kind = "cw20"   -> cw20StakeListStakers(startAfter, limit)
      [] kind = "cw4"    -> listMembersOfGroup(startAfter, limit)

-----------------------------------------------------------------------------
(* Delegations.                                                            *)

\* Mutant: an entry is seen one block late.
wormholeLoad_Late(entries, height) ==
    LET upTo == {e \in entries : e.height < height}
    IN  IF upTo = {} THEN <<>>
        ELSE <<(CHOOSE e \in upTo : \A f \in upTo : f.height <= e.height).value>>

\* wormholeLoad: the entry with the latest height not after the one asked for.
wormholeLoad(entries, height) ==
    LET upTo == {e \in entries : e.height <= height}
    IN  IF upTo = {} THEN <<>>
        ELSE <<(CHOOSE e \in upTo : \A f \in upTo : f.height <= e.height).value>>

registration(d, height) ==
    [registered |-> mayLoadAtHeight(store.delegate[d], AtHeight(height)) # <<>>,
     power |-> OrZero(wormholeLoad(delegated[d], AtHeight(height)))]

\* delegates: those registered now, with their power at the height of the block.
delegates(startAfter, limit) ==
    LET page == mapRange(store.delegate, startAfter, limit)
    IN  [d \in page |-> OrZero(wormholeLoad(delegated[d], block))]

\* The members of a vector map active at a height and not expired, of which limit
\* are taken after the first offset.
snapshotVectorMapLoad(m, h, offset, limit) ==
    LET ids == mayLoadAtHeight(store.active[m], h)
        live == IF ids = <<>> THEN {} ELSE {i \in ids[1] : i.expiration > h}
        Place(i) == Cardinality({x \in live : x.id < i.id})
    IN  {i \in live : Place(i) >= offset /\ Place(i) < offset + limit}

\* delegations: to which delegates, and whether these are registered then.
delegations(m, h, offset, limit) ==
    {[delegate |-> made[m][i.id], active |-> mayLoadAtHeight(store.delegate[made[m][i.id]], h) # <<>>] :
        i \in snapshotVectorMapLoad(m, h, offset, limit)}

votingPowerCap(height) == mayLoadAtHeight(store.cap, AtHeight(height))

\* Mutant: the power delegated now.
unvotedDelegatedVotingPower_Now(d, h) ==
    IF mayLoadAtHeight(store.delegate[d], h) = <<>> THEN [total |-> 0, effective |-> 0]
    ELSE LET total == IF ballot.unvoted[d] # <<>> THEN ballot.unvoted[d][1]
                      ELSE OrZero(wormholeLoad(delegated[d], block))
         IN  [total |-> total, effective |-> total]

\* unvotedDelegatedVotingPower: what the contract stored when someone voted, or
\* else the delegated power when the proposal opened; capped at a part of the
\* total power of the DAO then.
unvotedDelegatedVotingPower(d, h) ==
    LET total == IF ballot.unvoted[d] # <<>> THEN ballot.unvoted[d][1]
                 ELSE OrZero(wormholeLoad(delegated[d], h))
        cap == votingPowerCap({h})
        most == (totalPowerAtHeight("token", {h}) * OrZero(cap)) \div Whole
    IN  IF mayLoadAtHeight(store.delegate[d], h) = <<>> THEN [total |-> 0, effective |-> 0]
        ELSE [total |-> total,
              effective |-> IF cap = <<>> \/ cap[1] >= Whole THEN total ELSE Min({total, most})]

-----------------------------------------------------------------------------
(* The contracts. A change leaves the value before the block in the        *)
(* changelog, once per block.                                              *)

Save(s, v) ==
    [value |-> v,
     log |-> IF \E i \in DOMAIN s.log : s.log[i].height = block THEN s.log
             ELSE Append(s.log, [height |-> block, old |-> s.value])]

Change == changes < MaxChanges /\ changes' = changes + 1 /\ UNCHANGED <<block, past, stakes>>

\* Staking and unstaking; a contract may drop the key of an empty stake.
Stake(m) ==
    /\ stakes /\ Change
    /\ \E n \in 0 .. MaxStake :
           LET total == OrZero(Cur(store.balance[Total]))
           IN  /\ n # Balance(m)
               /\ \E v \in IF n = 0 THEN {<<0>>, Removed} ELSE {<<n>>} :
                      store' = [store EXCEPT !.balance[m] = Save(@, v),
                                             !.balance[Total] = Save(@, <<total + n - Balance(m)>>)]
    /\ UNCHANGED <<delegated, made, ballot>>

Register(d) ==
    /\ ~stakes /\ Change
    /\ store' = [store EXCEPT !.delegate[d] =
           Save(@, IF Exists(@.value) THEN Removed ELSE <<TRUE>>)]
    /\ UNCHANGED <<delegated, made, ballot>>

SetCap(c) ==
    /\ ~stakes /\ Change /\ Cur(store.cap) # <<c>>
    /\ store' = [store EXCEPT !.cap = Save(@, <<c>>)]
    /\ UNCHANGED <<delegated, made, ballot>>

\* Adds n to the wormhole from height h on.
Add(entries, h, n) ==
    LET at == OrZero(wormholeLoad(entries, h))
    IN  {IF e.height > h THEN [e EXCEPT !.value = @ + n] ELSE e : e \in {x \in entries : x.height # h}}
            \cup {[height |-> h, value |-> at + n]}

\* A member delegates from the next block until the delegation expires, or takes
\* back the delegation it has.
Delegate(m, d) ==
    LET now == Cur(store.active[m])
        until == block + Lifetime
    IN  /\ ~stakes /\ Change
        /\ \A i \in UNION ToSet(now) : i.expiration <= block
        /\ Exists(store.delegate[d].value)
        /\ made' = [made EXCEPT ![m] = Append(@, d)]
        /\ store' = [store EXCEPT !.active[m] =
               Save(@, <<{[id |-> Len(made'[m]), expiration |-> until, from |-> block]}>>)]
        /\ delegated' = [delegated EXCEPT ![d] = Add(Add(@, block + 1, 1), until, -1)]
        /\ UNCHANGED ballot

Undelegate(m) ==
    LET now == Cur(store.active[m])
    IN  /\ ~stakes /\ Change
        /\ \E i \in UNION ToSet(now) :
               /\ i.expiration > block + 1 /\ i.from < block
               /\ delegated' = [delegated EXCEPT ![made[m][i.id]] =
                      Add(Add(@, block + 1, -1), i.expiration, 1)]
        /\ store' = [store EXCEPT !.active[m] = Save(@, <<{}>>)]
        /\ UNCHANGED <<made, ballot>>

\* A proposal opens, with the powers of this block's start.
OpenProposal ==
    /\ ~stakes /\ ballot.opened = 0
    /\ ballot' = [ballot EXCEPT !.opened = block]
    /\ UNCHANGED <<block, store, delegated, made, past, changes, stakes>>

\* A member votes: it takes its power out of what its delegates have left.
Vote(m) ==
    /\ ~stakes /\ Change /\ ballot.opened # 0 /\ m \notin ballot.voted
    /\ ballot' = [ballot EXCEPT
           !.voted = @ \cup {m},
           !.unvoted = [d \in Delegates |->
               IF d \in past[ballot.opened].active[m]
               THEN <<(IF @[d] # <<>> THEN @[d][1]
                       ELSE OrZero(wormholeLoad(delegated[d], ballot.opened))) - 1>>
               ELSE @[d]]]
    /\ UNCHANGED <<store, delegated, made>>

\* The next block begins with what the contracts hold.
NextBlock ==
    /\ block < MaxBlock
    /\ block' = block + 1
    /\ past' = Append(past,
           [balance |-> [m \in Members |-> Balance(m)],
            delegate |-> {d \in Delegates : Exists(store.delegate[d].value)},
            active |-> [m \in Members |->
                {made[m][i.id] : i \in {x \in UNION ToSet(Cur(store.active[m])) :
                                             x.expiration > block + 1}}],
            cap |-> Cur(store.cap)])
    /\ UNCHANGED <<store, delegated, made, ballot, changes, stakes>>

VotingPowerNext ==
    \/ \E m \in Members : Stake(m) \/ Undelegate(m) \/ Vote(m) \/ \E d \in Delegates : Delegate(m, d)
    \/ \E d \in Delegates : Register(d)
    \/ \E c \in Caps : SetCap(c)
    \/ OpenProposal
    \/ NextBlock

VotingPowerSpec == VotingPowerInit /\ [][VotingPowerNext]_powerVars

-----------------------------------------------------------------------------
(* Properties. Where delegations are made, stakes do not change.           *)

\* At every height up to the latest block the power of a member is what it had
\* staked when the block began, whatever the voting module, however often it
\* changed within a block, and also after its key was removed and set again
\* (snapshotMayLoadAtHeight). Without a height a cw4 group tells its weight of
\* now, the other modules that of the start of the block.
PowerIsPast ==
    stakes => \A m \in Members, kind \in Kinds :
        /\ \A h \in 1 .. block : votingPowerAtHeight(kind, m, {h}) = past[h].balance[m]
        /\ votingPowerAtHeight(kind, m, {}) = IF kind = "cw4" THEN Balance(m) ELSE past[block].balance[m]

\* The powers add up to the total at every height, for every voting module.
TotalIsSum ==
    stakes => \A kind \in Kinds, height \in {{}} \cup {{h} : h \in 1 .. block + 1} :
        totalPowerAtHeight(kind, height) = SumFunction([m \in Members |-> votingPowerAtHeight(kind, m, height)])

\* The shares of a DAO's members add up to one, except at a block that changed a
\* stake, where the balances are the new ones and the total still the old one; a
\* cw4 group's add up then too (topStakers, listMembers).
Changed == \E i \in DOMAIN store.balance[Total].log : store.balance[Total].log[i].height = block
SharesAddUp ==
    stakes => \A kind \in Kinds :
        kind = "cw4" \/ ~Changed =>
            LET list == listMembers(kind)
            IN  SumFunction(list.shares) = list.of

\* Reading the stakers page by page, each page after the last staker of the one
\* before, until a page is not full, finds every one of them, unless keys were
\* removed: a page may be short, or empty, because of those (mapRange).
Walk(kind, limit) ==
    LET Step(st, i) ==
            IF st.done THEN st
            ELSE LET page == ListStakers(kind, Max({0} \cup st.seen), limit)
                 IN  [seen |-> st.seen \cup page, twice |-> st.twice \/ st.seen \cap page # {},
                      done |-> Cardinality(page) < limit]
    IN  FoldLeft(Step, [seen |-> {}, twice |-> FALSE, done |-> FALSE], [i \in 1 .. Everyone + 1 |-> i])
Entries(kind) == IF kind = "sg" THEN voterTokens ELSE store.balance
PagesFindStakers ==
    stakes => \A kind \in Kinds, limit \in 1 .. Everyone :
        (\A m \in Members : Entries(kind)[m].value # Removed) =>
            Walk(kind, limit).seen = ListStakers(kind, 0, Everyone) /\ ~Walk(kind, limit).twice

\* The power delegated to a delegate at a height is that of the members whose
\* delegation to it is active then and not expired: the wormhole and the vector
\* map, which are indexed apart, tell the same story (registration, delegates,
\* delegations).
DelegatedIsActive ==
    \A h \in 1 .. block, d \in Delegates :
        LET power == Cardinality({m \in Members : \E x \in delegations(m, h, 0, 1) : x.delegate = d})
        IN  /\ registration(d, {h}).power = power
            /\ h = block /\ d \in DOMAIN delegates(0, Cardinality(Delegates)) =>
                   delegates(0, Cardinality(Delegates))[d] = power

\* Delegations, delegates and the cap at a height are those there were when the
\* block began.
DelegationsArePast ==
    \A h \in 1 .. block :
        /\ \A m \in Members : {x.delegate : x \in delegations(m, h, 0, 1)} = past[h].active[m]
        /\ \A d \in Delegates : registration(d, {h}).registered = (d \in past[h].delegate)
        /\ votingPowerCap({h}) = past[h].cap

\* A delegate that was registered when a proposal opened has left what was
\* delegated to it by members that did not vote themselves, whatever is delegated,
\* taken back or expires while the proposal is open, and can use at most the part
\* of the total power that the cap allowed then (unvotedDelegatedVotingPower).
UnvotedIsLeft ==
    ballot.opened # 0 =>
        \A d \in Delegates :
            LET h == ballot.opened
                left == {m \in Members \ ballot.voted : d \in past[h].active[m]}
                power == unvotedDelegatedVotingPower(d, h)
            IN  /\ power.total = IF d \in past[h].delegate THEN Cardinality(left) ELSE 0
                /\ power.effective <= power.total
                /\ past[h].cap # <<>> => power.effective * Whole <= past[h].cap[1] * Everyone

\* The formulas of voting modules and of delegations agree with each other and with
\* what there was at every height.
PowersAgree ==
    /\ PowerIsPast
    /\ TotalIsSum
    /\ SharesAddUp
    /\ PagesFindStakers
    /\ DelegatedIsActive
    /\ DelegationsArePast
    /\ UnvotedIsLeft
=============================================================================
