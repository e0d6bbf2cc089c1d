----------------------------- MODULE MCComputer -----------------------------
\* Formulas as the repository writes them, over one contract (or account, or
\* validator) 1 of code 1, and the rows that may exist for each.
EXTENDS Computer, TLC

Call(op, key) == [op |-> op, key |-> key, where |-> {}, codes |-> {}, orElse |-> FALSE]
Else(c) == [c EXCEPT !.orElse = TRUE]
Where(c, vals) == [c EXCEPT !.where = vals]
Load(op, dks) == [op |-> op, keys |-> dks, orElse |-> FALSE]
Page(op, key, offset, limit) ==
    [op |-> op, key |-> key, offset |-> offset, limit |-> limit, orElse |-> FALSE]
K(ns, key) == [ns |-> ns, key |-> key]

Wasm == {K("wasm", <<1, 1>>), K("wasm", <<1, 2, 1>>)}

\* An item and a map, read alone and prefetched (cw20 and dao core queries).
ItemAndMap == <<Call("get", <<1, 1>>), Call("getMap", <<1, 2>>)>>
Prefetched ==
    <<Load("prefetch", <<Exact("wasm", <<1, 1>>), Prefix("wasm", <<1, 2>>)>>),
      Call("get", <<1, 1>>), Call("getMap", <<1, 2>>), Call("get", <<1, 2, 1>>)>>
Dates == <<Call("getDateKeyModified", <<1, 1>>), Call("getDateKeyFirstSet", <<1, 3>>)>>
FirstA == <<Where(Call("getDateKeyFirstSetWithValueMatch", <<1, 1>>), {"a"})>>
\* A transformation, and the state itself where there is none.
Transformed ==
    <<Call("getTransformationMatch", <<1, 1>>), Else(Call("get", <<1, 1>>))>>
MatchOfCode ==
    <<[Call("getTransformationMatches", <<1, 1>>) EXCEPT !.codes = {1}],
      Call("getTransformationMap", <<1, 2>>), Call("getDateFirstTransformed", <<1, 3>>)>>
Slashes == <<Call("getSlashEvents", <<1>>), Call("getExtraction", <<1, 1>>)>>
BankHistory == <<Call("getBalance", <<1, 1>>), Call("getBalances", <<1>>)>>
Gov ==
    <<Call("getProposal", <<1>>), Call("getProposalCount", <<>>),
      Call("getProposalVote", <<1, 1>>), Call("getProposalVoteCount", <<1>>)>>
Extractions ==
    <<Call("getExtractionMap", <<1, 2>>), Call("getExtraction", <<1, 1>>),
      Call("getDateFirstExtracted", <<1, 3>>)>>
Allowance ==
    <<Call("getFeegrantAllowance", <<1, 1>>), Call("hasFeegrantAllowance", <<1, 2>>)>>

\* Formulas whose ranges go wrong: see the README.
\* The power of an address at the current block (dao-voting-token-staked).
VotingPower == <<Call("votingPower", <<1, 1, 1>>)>>
Created == <<Call("get", <<1, 1>>), Call("getDateKeyFirstSet", <<1, 1>>)>>
Proposals == <<Page("getProposals", <<>>, 0, 1)>>
Votes == <<Page("getProposalVotes", <<1>>, 0, 1)>>
Pool == <<Call("getCommunityPoolBalances", <<>>)>>
ExtractionsLike == <<Call("getExtractions", <<1, Wild>>)>>
Allowances == <<Call("getFeegrantAllowances", <<1, Wild>>)>>
Transactions == <<Call("getTxEvents", <<1>>)>>
TransformationsLoaded ==
    <<Load("prefetchTransformations", <<Exact("transformation", <<1, 1>>)>>),
      Call("getTransformationMatch", <<1, 1>>)>>

MCKeysOf(f) ==
    CASE f \in {ItemAndMap, Prefetched} -> Wasm
      [] f = Dates -> {K("wasm", <<1, 1>>), K("wasm", <<1, 3>>)}
      [] f \in {FirstA, Created} -> {K("wasm", <<1, 1>>)}
      [] f = Transformed -> {K("transformation", <<1, 1>>), K("wasm", <<1, 1>>)}
      [] f = MatchOfCode -> {K("transformation", k) : k \in {<<1, 1>>, <<1, 2, 1>>, <<1, 3>>}}
      [] f = VotingPower -> {K("snapshot", <<1, 1, 1>>)}
      [] f = Slashes -> {K("slash", <<1>>), K("extraction", <<1, 1>>)}
      [] f = BankHistory -> {K("bank", <<1, 1>>), K("bank", <<1, 2>>)}
      [] f = Gov -> {K("proposal", <<1>>), K("proposal", <<2>>), K("vote", <<1, 1>>)}
      [] f = Extractions -> {K("extraction", k) : k \in {<<1, 1>>, <<1, 2, 1>>, <<1, 3>>}}
      [] f = Allowance -> {K("feegrant", <<1, 1>>), K("feegrant", <<1, 2>>)}
      [] f = Proposals -> {K("proposal", <<1>>), K("proposal", <<2>>)}
      [] f = Votes -> {K("vote", <<1, 1>>)}
      [] f = Transactions -> {K("tx", <<1>>)}
      [] f = TransformationsLoaded -> {K("transformation", <<1, 1>>)}
      [] f = Pool -> {K("pool", <<>>)}
      [] f = ExtractionsLike -> {K("extraction", <<1, 1>>)}
      [] f = Allowances -> {K("feegrant", <<1, 1>>), K("feegrant", <<1, 2>>)}

MCFormulas ==
    {ItemAndMap, Prefetched, Dates, FirstA, Transformed, MatchOfCode, Slashes,
     BankHistory, Gov, Extractions, Allowance}
\* The formula of the compute_range run: a snapshot read at the current height.
RangeFormulas == {VotingPower}
\* The others have causes of their own, and are in no configuration.
FurtherRangeFormulas ==
    {Allowances, Created, Votes, Proposals, Pool, ExtractionsLike, Transactions, TransformationsLoaded}

MCCodeOf == [a \in {1} |-> 1]
MCHistory == {1}
MCTimeOf(h) == 2 * h

\* The first formula is checked with two requests and a row written late; the
\* others with one request against every way to write two or three rows.
MCMaxRows(f) == IF f = Dates THEN 3 ELSE 2
MCMaxRequests(f) == IF f = ItemAndMap THEN 2 ELSE 1
MCMaxLate(f) == IF f = ItemAndMap THEN 1 ELSE 0
=============================================================================
