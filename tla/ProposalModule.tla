--------------------------- MODULE ProposalModule ---------------------------
(***************************************************************************)
(* A proposal module as three writers index it and the formulas answer for *)
(* it. The tracer's exporter writes state events and, once the code id is  *)
(* known, transformations (tracer/handlers/wasm.ts, transformers/proposal);*)
(* the proposal extractor queries the node for every event of the module   *)
(* and saves what it sees under the block of the event                     *)
(* (listener/extractors/proposal.ts); a sync yields every proposal and     *)
(* vote as if it had just happened (queues/sync-extractors.ts). The        *)
(* formulas of daoProposalSingle and daoProposalMultiple ask extractions   *)
(* first, then transformations, then events.                               *)
(*                                                                         *)
(* A proposal is the block it was made in, the last block that changed it  *)
(* and whether it is open; a vote is the block it was cast in. Voters are  *)
(* numbers, in the order of their addresses.                               *)
(***************************************************************************)
EXTENDS Naturals, Sequences, FiniteSets, FiniteSetsExt

CONSTANTS Voters,       \* a set of positive numbers
          SyncLimit,    \* the page of a sync, 20 in the code
          ClientLimit,  \* the page a client of the formulas asks for
          PmBounds      \* the bounds of a behaviour

ASSUME PmAssumption ==
    /\ Voters \subseteq Nat \ {0} /\ IsFiniteSet(Voters)
    /\ SyncLimit \in Nat \ {0} /\ ClientLimit \in Nat \ {0}
    /\ PmBounds \subseteq [blocks : Nat, proposals : Nat, exports : Nat, failures : Nat, syncs : Nat, walks : Nat,
                           starts : Nat, listening : SUBSET BOOLEAN, known : SUBSET BOOLEAN,
                           kind : {"v1", "v2", "multiple"}]

VARIABLES
    pmChain,    \* the states of the module, one per block
    pmExported, \* blocks that were exported
    pmRows,     \* the rows: extractions, transformations and events
    pmKnown,    \* the code id of the module is known under its key
    listening,  \* the listener runs
    pmJobs,     \* extraction jobs
    sync,       \* the sync
    client,     \* a client that walks through pages
    gaps,       \* tables that miss something: "ext", "tr"
    pmBound     \* what is left of the bounds

pmVars == <<pmChain, pmExported, pmRows, pmKnown, listening, pmJobs, sync, client, gaps, pmBound>>

NoVoter == 0
ModuleAt(h) == IF h = 0 THEN [props |-> <<>>, votes |-> {}] ELSE pmChain[h]
PmHeight == Len(pmChain)
Module == ModuleAt(PmHeight)

NotSyncing == [on |-> FALSE, height |-> 0, after |-> 0, todo |-> {}, last |-> FALSE, voters |-> 0,
               clean |-> FALSE, ever |-> FALSE]
NoClient == [what |-> "none", cursor |-> 0, seen |-> <<>>, want |-> {}, table |-> "none",
             switched |-> FALSE, done |-> FALSE]

ProposalModuleInit ==
    /\ pmChain = <<>> /\ pmExported = 0
    /\ pmRows = [ext |-> {}, tr |-> {}, ev |-> {}]
    /\ pmJobs = {} /\ sync = NotSyncing /\ client = NoClient /\ gaps = {}
    /\ pmBound \in PmBounds /\ listening \in pmBound.listening /\ pmKnown \in pmBound.known

PmSpend(bound) == pmBound[bound] > 0 /\ pmBound' = [pmBound EXCEPT ![bound] = @ - 1]

-----------------------------------------------------------------------------
(* The module. Each block holds one event, for which the listener queues a *)
(* job: a proposal is made, with a vote of its proposer or without; a vote *)
(* is cast, or cast again; a proposal is executed, closed or vetoed.       *)

Job(h, i, v, by) == [height |-> h, id |-> i, voter |-> v, by |-> by, prop |-> {}, vote |-> {}, asked |-> FALSE]

PmBlock(i, next, v) ==
    /\ PmSpend("blocks")
    /\ pmChain' = Append(pmChain, next)
    /\ pmJobs' = pmJobs \cup (IF listening THEN {Job(PmHeight + 1, i, v, "event")} ELSE {})
    /\ gaps' = gaps \cup (IF listening THEN {} ELSE {"ext"})
    /\ sync' = IF listening THEN sync ELSE [sync EXCEPT !.clean = FALSE]
    /\ UNCHANGED <<pmExported, pmRows, pmKnown, listening, client>>

Casts(v, i) ==
    {w \in Module.votes : ~(w.voter = v /\ w.id = i)} \cup {[voter |-> v, id |-> i, at |-> PmHeight + 1]}

Propose ==
    \E v \in Voters \cup {NoVoter} :
        LET i == Len(Module.props) + 1
        IN  /\ i <= pmBound.proposals
            /\ PmBlock(i, [props |-> Append(Module.props, [start |-> PmHeight + 1, mod |-> PmHeight + 1,
                                                           open |-> TRUE]),
                           votes |-> IF v = NoVoter THEN Module.votes ELSE Casts(v, i)], v)

CastBallot(i, v) ==
    /\ Module.props[i].open
    /\ PmBlock(i, [props |-> [Module.props EXCEPT ![i].mod = PmHeight + 1], votes |-> Casts(v, i)], v)

CloseProposal(i) ==
    /\ Module.props[i].open
    /\ PmBlock(i, [props |-> [Module.props EXCEPT ![i] = [@ EXCEPT !.mod = PmHeight + 1, !.open = FALSE]],
                   votes |-> Module.votes], NoVoter)

-----------------------------------------------------------------------------
(* The exporter: what the block changed, as events and, if the code id is  *)
(* known, as transformations. The key of a proposal depends on the version *)
(* of the module.                                                          *)

ProposalsKey == IF pmBound.kind = "v2" THEN "proposals_v2" ELSE "proposals"

Put(table, new) ==
    {r \in table : \A n \in new : r.name # n.name \/ r.height # n.height} \cup new

\* An event names a ballot by its proposal first, a transformation by its voter.
VoteName(key, v, i) == IF key = "ballots" THEN <<"ballots", i, v>> ELSE <<"voteCast", v, i>>

RowsOf(module, h, key, voteKey) ==
    {[name |-> <<key, i>>, height |-> h, data |-> module.props[i]] :
         i \in {k \in DOMAIN module.props : module.props[k].mod = h}} \cup
    {[name |-> VoteName(voteKey, w.voter, w.id), height |-> h, data |-> [vote |-> h, votedAt |-> h]] :
         w \in {x \in module.votes : x.at = h}}

ExportBlock ==
    /\ pmExported < PmHeight /\ pmExported < pmBound.exports
    /\ LET h == pmExported + 1
       IN  /\ pmExported' = h
           /\ pmRows' = [pmRows EXCEPT
                  !.ev = Put(@, RowsOf(ModuleAt(h), h, ProposalsKey, "ballots")),
                  !.tr = IF pmKnown THEN Put(@, RowsOf(ModuleAt(h), h, "proposal", "voteCast")) ELSE @]
    /\ gaps' = gaps \cup (IF pmKnown THEN {} ELSE {"tr"})
    /\ UNCHANGED <<pmChain, pmKnown, listening, pmJobs, sync, client, pmBound>>

\* The code id is tracked (WasmCodes), or the listener is started, late.
LearnModuleCode ==
    /\ ~pmKnown /\ pmKnown' = TRUE
    /\ UNCHANGED <<pmChain, pmExported, pmRows, listening, pmJobs, sync, client, gaps, pmBound>>

StartListening ==
    /\ ~listening /\ PmSpend("starts") /\ listening' = TRUE
    /\ UNCHANGED <<pmChain, pmExported, pmRows, pmKnown, pmJobs, sync, client, gaps>>

-----------------------------------------------------------------------------
(* ProposalExtractor.saveProposal. The node answers with its state at the  *)
(* time, which is that of the job's block or a later one.                  *)

\* The proposal and, if the event has a position, the sender's vote. No property
\* relates the two, so one state of the node answers both.
QueryProposal(j) ==
    /\ pmKnown /\ ~j.asked
    /\ pmJobs' = (pmJobs \ {j}) \cup
           {[j EXCEPT !.asked = TRUE, !.prop = {Module.props[j.id]},
                      !.vote = {w.at : w \in {x \in Module.votes : x.voter = j.voter /\ x.id = j.id}}]}
    /\ UNCHANGED <<pmChain, pmExported, pmRows, pmKnown, listening, sync, client, gaps, pmBound>>

\* Mutant: the vote is asked for when a proposal is voted on, not when it is made.
Answers_VoteOnly(j) ==
    {[name |-> <<"proposal", j.id>>, height |-> j.height, data |-> d] : d \in j.prop} \cup
    {[name |-> <<"voteCast", j.voter, j.id>>, height |-> j.height, data |-> [vote |-> a, votedAt |-> j.height]] :
         a \in {x \in j.vote : \A d \in j.prop : d.start # j.height}}

\* Mutant: the vote is dated by the vote's own block, the row by the latest block.
Answers_Latest(j) ==
    {[name |-> <<"proposal", j.id>>, height |-> PmHeight, data |-> d] : d \in j.prop} \cup
    {[name |-> <<"voteCast", j.voter, j.id>>, height |-> PmHeight, data |-> [vote |-> a, votedAt |-> PmHeight]] :
         a \in j.vote}

Answers(j) ==
    {[name |-> <<"proposal", j.id>>, height |-> j.height, data |-> d] : d \in j.prop} \cup
    {[name |-> <<"voteCast", j.voter, j.id>>, height |-> j.height, data |-> [vote |-> a, votedAt |-> j.height]] :
         a \in j.vote}

\* Rows of the same name and block are replaced.
SaveProposal(j) ==
    /\ j.asked
    /\ pmRows' = [pmRows EXCEPT !.ext = Put(@, Answers(j))]
    /\ pmJobs' = pmJobs \ {j}
    /\ UNCHANGED <<pmChain, pmExported, pmKnown, listening, sync, client, gaps, pmBound>>

\* A job of a module whose code id is not known yet returns nothing; one whose
\* attempts all fail is lost.
JobIgnored(j) ==
    /\ ~j.asked
    /\ ~pmKnown \/ PmSpend("failures")
    /\ ~pmKnown => UNCHANGED pmBound
    /\ pmJobs' = pmJobs \ {j}
    /\ gaps' = gaps \cup {"ext"} /\ sync' = [sync EXCEPT !.clean = FALSE]
    /\ UNCHANGED <<pmChain, pmExported, pmRows, pmKnown, listening, client>>

-----------------------------------------------------------------------------
(* ProposalExtractor.sync: pages of proposals, and for every proposal of a *)
(* page the pages of its voters. Its jobs carry the block the sync began   *)
(* at.                                                                     *)

PageAfter(S, after, limit) ==
    {x \in S : x > after /\ Cardinality({y \in S : after < y /\ y < x}) < limit}

StartSync ==
    /\ ~sync.on /\ PmHeight > 0 /\ PmSpend("syncs")
    /\ sync' = [NotSyncing EXCEPT !.on = TRUE, !.height = PmHeight, !.clean = listening /\ pmKnown, !.ever = TRUE]
    /\ UNCHANGED <<pmChain, pmExported, pmRows, pmKnown, listening, pmJobs, client, gaps>>

SyncProposals ==
    /\ sync.on /\ sync.todo = {} /\ ~sync.last
    /\ LET page == PageAfter(DOMAIN Module.props, sync.after, SyncLimit)
       IN  /\ pmJobs' = pmJobs \cup {Job(sync.height, i, NoVoter, "sync") : i \in page}
           /\ sync' = [sync EXCEPT !.todo = page, !.last = Cardinality(page) < SyncLimit,
                                   !.after = IF page = {} THEN @ ELSE Max(page)]
    /\ UNCHANGED <<pmChain, pmExported, pmRows, pmKnown, listening, client, gaps, pmBound>>

SyncVotes ==
    /\ sync.on /\ sync.todo # {}
    /\ LET i == Min(sync.todo)
           page == PageAfter({w.voter : w \in {x \in Module.votes : x.id = i}}, sync.voters, SyncLimit)
           short == Cardinality(page) < SyncLimit
       IN  /\ pmJobs' = pmJobs \cup {Job(sync.height, i, v, "sync") : v \in page}
           /\ sync' = [sync EXCEPT !.todo = IF short THEN @ \ {i} ELSE @,
                                   !.voters = IF short THEN 0 ELSE Max(page)]
    /\ UNCHANGED <<pmChain, pmExported, pmRows, pmKnown, listening, client, gaps, pmBound>>

\* The listings are done, or one failed, which is ignored.
SyncEnds ==
    /\ sync.on
    /\ \/ /\ sync.last /\ sync.todo = {}
          /\ gaps' = IF sync.clean THEN gaps \ {"ext"} ELSE gaps
          /\ UNCHANGED pmBound
       \/ PmSpend("failures") /\ UNCHANGED gaps
    /\ sync' = [NotSyncing EXCEPT !.ever = TRUE]
    /\ UNCHANGED <<pmChain, pmExported, pmRows, pmKnown, listening, pmJobs, client>>

-----------------------------------------------------------------------------
(* The formulas. An optional value is a set of at most one element.        *)

Newest(table, name) ==
    LET found == {r \in table : r.name = name}
    IN  {r.data : r \in {x \in found : \A y \in found : y.height <= x.height}}

First(a, b) == IF a # {} THEN a ELSE b

\* getExtractionMap, getTransformationMap and getMap: undefined if it is empty.
MapOf(table, key) ==
    [i \in {r.name[2] : r \in {x \in table : x.name[1] = key}} |->
         CHOOSE d \in Newest(table, <<key, i>>) : TRUE]
OrElse(f, g) == IF DOMAIN f # {} THEN f ELSE g

getProposalSingle(i) ==
    First(Newest(pmRows.ext, <<"proposal", i>>),
    First(Newest(pmRows.tr, <<"proposal", i>>),
    First(Newest(pmRows.ev, <<"proposals_v2", i>>), Newest(pmRows.ev, <<"proposals", i>>))))

getProposalMultiple(i) ==
    First(Newest(pmRows.ext, <<"proposal", i>>),
    First(Newest(pmRows.tr, <<"proposal", i>>), Newest(pmRows.ev, <<"proposals", i>>)))

getProposal(i) == IF pmBound.kind = "multiple" THEN getProposalMultiple(i) ELSE getProposalSingle(i)

proposalsSingle ==
    OrElse(MapOf(pmRows.ext, "proposal"), OrElse(MapOf(pmRows.tr, "proposal"),
    OrElse(MapOf(pmRows.ev, "proposals_v2"), MapOf(pmRows.ev, "proposals"))))

proposalsMultiple ==
    OrElse(MapOf(pmRows.ext, "proposal"), OrElse(MapOf(pmRows.tr, "proposal"), MapOf(pmRows.ev, "proposals")))

proposals == IF pmBound.kind = "multiple" THEN proposalsMultiple ELSE proposalsSingle

\* Mutant: the page starts with the cursor.
listProposals_From(startAfter, limit) == PageAfter(DOMAIN proposals, startAfter - 1, limit)

\* A page is the ids it holds, which every caller takes in their order.
listProposals(startAfter, limit) == PageAfter(DOMAIN proposals, startAfter, limit)

\* Before 0 is before infinity.
reverseProposals(startBefore, limit) ==
    {i \in DOMAIN proposals :
        /\ startBefore = 0 \/ i < startBefore
        /\ Cardinality({k \in DOMAIN proposals : k > i /\ (startBefore = 0 \/ k < startBefore)}) < limit}

vote(i, v) ==
    First(Newest(pmRows.ext, <<"voteCast", v, i>>),
    First(Newest(pmRows.tr, <<"voteCast", v, i>>), Newest(pmRows.ev, <<"ballots", i, v>>)))

\* The voters that a table has for a proposal.
VotersIn(table, i) == {r.name[2] : r \in {x \in table : x.name[1] = "voteCast" /\ x.name[3] = i}}
BallotsIn(table, i) == {r.name[3] : r \in {x \in table : x.name[1] = "ballots" /\ x.name[2] = i}}

\* The page asked of extractions may be empty, in which case the others are asked.
listVotes(i, startAfter, limit) ==
    First(PageAfter(VotersIn(pmRows.ext, i), startAfter, limit),
    First(PageAfter(VotersIn(pmRows.tr, i), startAfter, limit),
          PageAfter(BallotsIn(pmRows.ev, i), startAfter, limit)))

openProposals(v) ==
    {[id |-> i, voted |-> vote(i, v) # {}] : i \in {k \in DOMAIN proposals : proposals[k].open}}

\* The block of the proposal, if there is a row for it, or the first row.
proposalCreatedAt(i) ==
    LET firstIn(table, keys) == {r.height : r \in {x \in table : x.name[1] \in keys /\ x.name[2] = i}}
        blocks == 1 .. pmExported \cup {r.height : r \in pmRows.ext}
    IN  {Min(c) : c \in {First({d.start : d \in getProposal(i)} \cap blocks,
                         First(firstIn(pmRows.tr, {"proposal"}),
                         First(firstIn(pmRows.ext, {"proposal"}),
                               firstIn(pmRows.ev, {"proposals", "proposals_v2"}))))} \ {{}}}

-----------------------------------------------------------------------------
(* A client walks through the pages until one is short.                    *)

\* The table that answers a list.
Table(what) ==
    LET Has(table) == \E r \in table : IF what = "votes" THEN r.name[1] = "voteCast" /\ r.name[3] = 1
                                                        ELSE r.name[1] = "proposal"
    IN  IF Has(pmRows.ext) THEN "ext" ELSE IF Has(pmRows.tr) THEN "tr" ELSE "ev"

PageOf(what, cursor) ==
    CASE what = "list" -> listProposals(cursor, ClientLimit)
      [] what = "reverse" -> reverseProposals(cursor, ClientLimit)
      [] what = "votes" -> listVotes(1, cursor, ClientLimit)
AllOf(what) == IF what = "votes" THEN listVotes(1, 0, Cardinality(Voters)) ELSE DOMAIN proposals

StartWalk(what) ==
    /\ client.what = "none" /\ PmSpend("walks") /\ AllOf(what) # {}
    /\ client' = [NoClient EXCEPT !.what = what, !.want = AllOf(what), !.table = Table(what)]
    /\ UNCHANGED <<pmChain, pmExported, pmRows, pmKnown, listening, pmJobs, sync, gaps>>

WalkPage ==
    /\ client.what # "none" /\ ~client.done
    /\ \E page \in {PageOf(client.what, client.cursor)} :
           client' = [client EXCEPT
               !.seen = Append(@, page), !.done = Cardinality(page) < ClientLimit,
               !.switched = @ \/ Table(client.what) # client.table,
               !.cursor = IF page = {} THEN @ ELSE IF client.what = "reverse" THEN Min(page) ELSE Max(page)]
    /\ UNCHANGED <<pmChain, pmExported, pmRows, pmKnown, listening, pmJobs, sync, gaps, pmBound>>

ProposalModuleNext ==
    \/ Propose
    \/ \E i \in DOMAIN Module.props : CloseProposal(i) \/ \E v \in Voters : CastBallot(i, v)
    \/ ExportBlock \/ LearnModuleCode \/ StartListening
    \/ \E j \in pmJobs : QueryProposal(j) \/ SaveProposal(j) \/ JobIgnored(j)
    \/ StartSync \/ SyncProposals \/ SyncVotes \/ SyncEnds
    \/ \E what \in {"list", "reverse", "votes"} : StartWalk(what)
    \/ WalkPage

ProposalModuleSpec == ProposalModuleInit /\ [][ProposalModuleNext]_pmVars

-----------------------------------------------------------------------------
(* Properties.                                                             *)

\* The writers of the table that answers are done, and it misses nothing.
PmSettled ==
    /\ pmJobs = {} /\ ~sync.on
    /\ IF pmRows.ext # {} THEN "ext" \notin gaps
       ELSE pmExported = PmHeight /\ (pmRows.tr = {} \/ "tr" \notin gaps)

\* Whatever the order in which the exporter, the jobs of the extractor and a
\* sync wrote, and however late each read the node: once they are done and none
\* was lost, the lists, the single proposals, the votes and the open proposals
\* are those of the module.
ProposalsSettle ==
    PmSettled =>
        /\ proposals = Module.props
        /\ \A i \in DOMAIN Module.props :
               /\ getProposal(i) = {Module.props[i]}
               /\ listVotes(i, 0, Cardinality(Voters)) = {w.voter : w \in {x \in Module.votes : x.id = i}}
               /\ \A v \in Voters :
                      {d.vote : d \in vote(i, v)} = {w.at : w \in {x \in Module.votes : x.voter = v /\ x.id = i}}
        /\ \A v \in Voters : openProposals(v) =
               {[id |-> i, voted |-> \E w \in Module.votes : w.voter = v /\ w.id = i] :
                    i \in {k \in DOMAIN Module.props : Module.props[k].open}}

\* A vote is dated by the block it was cast in; after a sync it may be dated
\* later, by the block the sync began at, and never earlier. A proposal is dated
\* by the block it was made in if that block was exported, and never before it
\* without a sync; one made during a sync may be.
DatesSettle ==
    /\ PmSettled =>
           \A w \in Module.votes : \A d \in vote(w.id, w.voter) :
               IF sync.ever THEN d.votedAt >= w.at ELSE d.votedAt = w.at
    /\ \A i \in DOMAIN Module.props : \A t \in proposalCreatedAt(i) :
           /\ t >= Module.props[i].start \/ sync.ever
           /\ Module.props[i].start <= pmExported => t = Module.props[i].start

\* A client that walks to the end of the list, forward or backward, or of the
\* votes of a proposal, has seen everything that was there when it began, and
\* nothing twice, while proposals and votes are added; unless the table that
\* answers changed under it: the first extraction of a module hides every
\* proposal that only transformations or events have.
WalkFindsAll ==
    ~client.switched =>
        /\ client.done => client.want \subseteq UNION {client.seen[k] : k \in DOMAIN client.seen}
        /\ \A k, l \in DOMAIN client.seen : k # l => client.seen[k] \cap client.seen[l] = {}

\* Proposals, votes and their dates once everything is written, and what a client
\* sees of them while it is not.
ModuleSettles ==
    /\ ProposalsSettle
    /\ DatesSettle
    /\ WalkFindsAll
=============================================================================
