----------------------------- MODULE NodeClient -----------------------------
(***************************************************************************)
(* What is asked of a node: the client that reconnects by itself           *)
(* (AutoCosmWasmClient), the times of blocks (BlockTimeFetcher) and the    *)
(* code ids of contracts (getCodeId of the wasm handler).  The node comes  *)
(* and goes, prunes blocks and limits the rate of requests; new-block      *)
(* events arrive on the WebSocket, late or never; updates of the client    *)
(* overlap.  The time of block h is h; 0 stands for an unknown time.       *)
(***************************************************************************)
EXTENDS Integers, FiniteSets, FiniteSetsExt, Sequences, SequencesExt

CONSTANTS
    Updates,    \* runs of update that may overlap
    TimeCache,  \* entries of the LRU cache of times (1000)
    NodeTries,  \* tries of a query (3)
    NodeBounds  \* what happens in a behaviour: its blocks, the lowest one the node has,
                \* failures of the node, block times fetched, code ids looked up

ASSUME NodeAssumption ==
    /\ TimeCache \in Nat \ {0} /\ NodeTries \in Nat \ {0}
    /\ NodeBounds \subseteq [blocks : Nat, lowest : Nat, downs : Nat, fetches : Nat,
                             lookups : Nat, updates : SUBSET Updates]

VARIABLES
    up,         \* the node answers
    socket,     \* webSocketListener.connected
    announced,  \* blocks whose event arrived; the next one is the next to come
    times,      \* the cache, least recently used first
    fetching,   \* the call of fetch
    client,     \* _cosmWasmClient is set
    chainId,    \* _chainId is set
    update,     \* update[u]: a run of update
    codeId,     \* the code id of the contract in the database; the chain's is 1
    codeCache,  \* codeIdCache, <<>> or <<code id>>
    lookup,     \* the call of getCodeId
    seen,       \* history: failed, heights whose fetch failed; kept, cached heights whose
                \* event came while no fetch of them was under way; threw, a chain id query that threw; missed,
                \* a code id query that failed or found nothing
    spent       \* how much of the bounds is left

nodeVars == <<up, socket, announced, times, fetching, client, chainId, update, codeId, codeCache,
              lookup, seen, spent>>

NoFetch == [phase |-> "idle", height |-> 0, tries |-> 0, time |-> 0]

NodeInit ==
    /\ spent \in NodeBounds
    /\ up = TRUE
    /\ socket \in BOOLEAN
    /\ announced = 0
    /\ times = <<>>
    /\ fetching = NoFetch
    /\ client = FALSE
    /\ chainId = FALSE
    /\ update = [u \in spent.updates |-> "idle"]
    /\ codeId = 0
    /\ codeCache = <<>>
    /\ lookup = [phase |-> "idle", tries |-> 0]
    /\ seen = [failed |-> {}, kept |-> {}, threw |-> FALSE, missed |-> FALSE]

-----------------------------------------------------------------------------
(* The cache.                                                              *)

HasTime(s, h) == \E i \in DOMAIN s : s[i].height = h
Cached(h) == HasTime(times, h)
EntryOf(s, h) == CHOOSE i \in DOMAIN s : s[i].height = h
Without(s, h) == IF HasTime(s, h) THEN RemoveAt(s, EntryOf(s, h)) ELSE s

\* cache.set: the entry becomes the most recently used one, the least is evicted.
SetTime(s, h, t) ==
    LET all == Append(Without(s, h), [height |-> h, time |-> t])
    IN  IF Len(all) > TimeCache THEN Tail(all) ELSE all

\* cache.get(h) ?? 0, which makes the entry the most recently used one.
GetTime(s, h) == IF HasTime(s, h) THEN s[EntryOf(s, h)].time ELSE 0

Answer(s, h) ==
    /\ fetching' = [NoFetch EXCEPT !.height = h, !.time = GetTime(s, h)]
    /\ times' = IF HasTime(s, h) THEN SetTime(s, h, GetTime(s, h)) ELSE s

-----------------------------------------------------------------------------
(* The node and the WebSocket.                                             *)

NodeDown ==
    /\ up
    /\ spent.downs > 0
    /\ up' = FALSE
    /\ spent' = [spent EXCEPT !.downs = @ - 1]
    /\ UNCHANGED <<socket, announced, times, fetching, client, chainId, update, codeId, codeCache,
                   lookup, seen>>

NodeUp ==
    /\ ~up
    /\ up' = TRUE
    /\ UNCHANGED <<socket, announced, times, fetching, client, chainId, update, codeId, codeCache,
                   lookup, seen, spent>>

SocketChange ==
    /\ spent.downs > 0
    /\ socket' = ~socket
    /\ spent' = [spent EXCEPT !.downs = @ - 1]
    /\ UNCHANGED <<up, announced, times, fetching, client, chainId, update, codeId, codeCache,
                   lookup, seen>>

\* Mutant: a height that is in the cache is not set again.
onNewBlock_Missing(s, h) == IF Cached(h) THEN s ELSE SetTime(s, h, h)

onNewBlock(s, h) == SetTime(s, h, h)

\* The event of the next block; without the WebSocket the block passes unannounced.
NewBlock ==
    /\ announced < spent.blocks
    /\ announced' = announced + 1
    /\ times' = IF socket THEN onNewBlock(times, announced') ELSE times
    /\ LET quiet == socket /\ (fetching.phase = "idle" \/ fetching.height # announced')
       IN  seen' = [seen EXCEPT !.kept = {h \in @ \cup {announced'} :
                                             Cached(h)' /\ (h = announced' => quiet)}]
    /\ UNCHANGED <<up, socket, fetching, client, chainId, update, codeId, codeCache, lookup, spent>>

-----------------------------------------------------------------------------
(* BlockTimeFetcher.fetch.                                                 *)

\* Its trace may be a moment ahead of the event of its block.
Fetch ==
    /\ fetching.phase = "idle"
    /\ spent.fetches > 0
    /\ spent' = [spent EXCEPT !.fetches = @ - 1]
    /\ \E h \in 1..Min({announced + 1, spent.blocks}) :
           IF Cached(h) THEN Answer(times, h)
           ELSE /\ fetching' = [NoFetch EXCEPT !.height = h, !.phase =
                       IF socket /\ \A i \in DOMAIN times : times[i].height < h
                       THEN "wait" ELSE "load"]
                /\ times' = times
    /\ UNCHANGED <<up, socket, announced, client, chainId, update, codeId, codeCache, lookup, seen>>

\* The interval finds the time.
WaitSees ==
    /\ fetching.phase = "wait"
    /\ Cached(fetching.height)
    /\ Answer(times, fetching.height)
    /\ UNCHANGED <<up, socket, announced, client, chainId, update, codeId, codeCache, lookup, seen,
                   spent>>

\* Mutant: the interval runs until the event comes.
WaitTimeout_Never == FALSE /\ UNCHANGED nodeVars

\* The timeout; the time may have arrived since the interval last looked.
WaitTimeout ==
    /\ fetching.phase = "wait"
    /\ IF Cached(fetching.height) THEN Answer(times, fetching.height)
       ELSE fetching' = [fetching EXCEPT !.phase = "load"] /\ times' = times
    /\ UNCHANGED <<up, socket, announced, client, chainId, update, codeId, codeCache, lookup, seen,
                   spent>>

\* Mutant: every error of the node is taken for a pruned block.
Pruned_Any(h) == client /\ (~up \/ h < spent.lowest)

\* "is not available, lowest height is": an answer, not an error.
Pruned(h) == client /\ up /\ h < spent.lowest

\* loadIntoCache succeeds, or returns because the block is pruned; the event may have
\* set the time meanwhile.
LoadTime ==
    /\ fetching.phase = "load"
    /\ LET h == fetching.height
       IN  \/ Pruned(h) /\ Answer(times, h)
           \/ client /\ up /\ h >= spent.lowest /\ Answer(SetTime(times, h, h), h)
    /\ seen' = [seen EXCEPT !.kept = {h \in @ : Cached(h)'}]
    /\ UNCHANGED <<up, socket, announced, client, chainId, update, codeId, codeCache, lookup, spent>>

\* It throws: the node is down or there is no client. A request over the rate limit
\* is repeated and does not count. After the last try the time is set to 0.
LoadThrows ==
    /\ fetching.phase = "load"
    /\ ~(client /\ up)
    /\ LET h == fetching.height
       IN  IF fetching.tries + 1 < NodeTries
           THEN /\ fetching' = [fetching EXCEPT !.tries = @ + 1]
                /\ UNCHANGED <<times, seen>>
           ELSE /\ Answer(SetTime(times, h, 0), h)
                /\ seen' = [seen EXCEPT !.failed = @ \cup {h}, !.kept = {b \in @ : Cached(b)'}]
    /\ UNCHANGED <<up, socket, announced, client, chainId, update, codeId, codeCache, lookup, spent>>

-----------------------------------------------------------------------------
(* AutoCosmWasmClient.update, every few minutes.                           *)

\* Mutant: a client that is lost is not created again.
StartUpdate_TestOnly(u) ==
    /\ update[u] = "idle" /\ client
    /\ update' = [update EXCEPT ![u] = "test"]
    /\ UNCHANGED <<up, socket, announced, times, fetching, client, chainId, codeId, codeCache,
                   lookup, seen, spent>>

StartUpdate(u) ==
    /\ update[u] = "idle"
    /\ update' = [update EXCEPT ![u] = IF client THEN "test" ELSE "connect"]
    /\ UNCHANGED <<up, socket, announced, times, fetching, client, chainId, codeId, codeCache,
                   lookup, seen, spent>>

\* Mutant: a client that failed its test is kept.
Disconnected_Kept == client

Disconnected == FALSE

\* The connection test; another update may have replaced the client meanwhile. It
\* calls this._cosmWasmClient?.getChainId(), which succeeds without a client.
TestClient(u) ==
    /\ update[u] = "test"
    /\ IF up \/ ~client
       THEN /\ update' = [update EXCEPT ![u] = IF client THEN "idle" ELSE "connect"]
            /\ UNCHANGED <<client, chainId>>
       ELSE /\ client' = Disconnected
            /\ chainId' = FALSE
            /\ update' = [update EXCEPT ![u] = IF client' THEN "idle" ELSE "connect"]
    /\ UNCHANGED <<up, socket, announced, times, fetching, codeId, codeCache, lookup, seen, spent>>

\* connectCosmWasmClient; a failure also overwrites a client set meanwhile.
ConnectClient(u) ==
    /\ update[u] = "connect"
    /\ client' = up
    /\ update' = [update EXCEPT ![u] = IF up THEN "chain id" ELSE "idle"]
    /\ UNCHANGED <<up, socket, announced, times, fetching, chainId, codeId, codeCache, lookup, seen,
                   spent>>

\* getChainId outside the try: when it throws, update ends without a chain id.
QueryChainId(u) ==
    /\ update[u] = "chain id"
    /\ chainId' = (up \/ chainId)
    /\ seen' = [seen EXCEPT !.threw = @ \/ ~up]
    /\ update' = [update EXCEPT ![u] = "idle"]
    /\ UNCHANGED <<up, socket, announced, times, fetching, client, codeId, codeCache, lookup, spent>>

-----------------------------------------------------------------------------
(* getCodeId, for a contract whose row has no code id.                     *)

\* Mutant: a code id of 0 is taken from the database as if it were known.
NeedsCodeId_Never == codeId < 0

NeedsCodeId == codeId <= 0

LookUp ==
    /\ lookup.phase = "idle"
    /\ spent.lookups > 0
    /\ spent' = [spent EXCEPT !.lookups = @ - 1]
    /\ IF NeedsCodeId
       THEN IF codeCache # <<>>
            THEN /\ codeId' = codeCache[1]
                 /\ lookup' = [phase |-> "idle", tries |-> NodeTries]
            ELSE lookup' = [phase |-> "query", tries |-> 0] /\ codeId' = codeId
       ELSE lookup' = [phase |-> "idle", tries |-> NodeTries] /\ codeId' = codeId
    /\ UNCHANGED <<up, socket, announced, times, fetching, client, chainId, update, codeCache, seen>>

\* getContractInfo: the code id, nothing from a node that lags behind, or an error.
\* Whatever is found is cached, 0 too.
QueryCodeId ==
    /\ lookup.phase = "query"
    /\ LET Found(c) == /\ codeCache' = <<c>>
                       /\ codeId' = c
                       /\ lookup' = [phase |-> "idle", tries |-> NodeTries]
       IN  \/ up /\ Found(1) /\ seen' = seen
           \/ up /\ Found(0) /\ seen' = [seen EXCEPT !.missed = TRUE]
           \/ /\ ~up
              /\ IF lookup.tries + 1 < NodeTries
                 THEN lookup' = [lookup EXCEPT !.tries = @ + 1] /\ UNCHANGED <<codeCache, codeId>>
                 ELSE Found(0)
              /\ seen' = [seen EXCEPT !.missed = @ \/ lookup.tries + 1 = NodeTries]
    /\ UNCHANGED <<up, socket, announced, times, fetching, client, chainId, update, spent>>

NodeNext ==
    \/ NodeDown
    \/ NodeUp
    \/ SocketChange
    \/ NewBlock
    \/ Fetch
    \/ WaitSees
    \/ WaitTimeout
    \/ LoadTime
    \/ LoadThrows
    \/ \E u \in DOMAIN update :
           StartUpdate(u) \/ TestClient(u) \/ ConnectClient(u) \/ QueryChainId(u)
    \/ LookUp
    \/ QueryCodeId

\* Timers fire, requests end and rate limits pass, the node comes back; failures are
\* bounded.
NodeFairness ==
    /\ WF_nodeVars(NodeUp)
    /\ WF_nodeVars(WaitSees \/ WaitTimeout)
    /\ WF_nodeVars(LoadTime \/ LoadThrows)
    /\ \A u \in Updates :
           WF_nodeVars(/\ u \in DOMAIN update
                       /\ StartUpdate(u) \/ TestClient(u) \/ ConnectClient(u) \/ QueryChainId(u))

NodeSpec == NodeInit /\ [][NodeNext]_nodeVars /\ NodeFairness

-----------------------------------------------------------------------------
\* A fetch answers 0 only for a block the node has pruned or whose fetch used up its
\* tries, and a 0 is only cached by one that did (fetch, loadIntoCache).
ZeroNeedsFailure ==
    /\ fetching.phase = "idle" /\ fetching.height > 0 /\ fetching.time = 0 =>
           fetching.height < spent.lowest \/ fetching.height \in seen.failed
    /\ \A i \in DOMAIN times : times[i].time = 0 => times[i].height \in seen.failed

\* The time a new-block event brought stays while it is cached, unless a fetch of that
\* block was under way: one that fails writes 0 over it (onNewBlock, fetch).
EventTimeKept ==
    \A i \in DOMAIN times :
        times[i].height \in seen.kept => times[i].time = times[i].height

\* A client without a chain id is being connected, or its chain id query threw: however
\* updates overlap, none drops the one and keeps the other (update).
ChainIdNeedsQuery ==
    client /\ ~chainId => seen.threw \/ \E u \in DOMAIN update : update[u] = "chain id"

\* A lookup leaves the code id of a contract unknown only if a query failed or found
\* nothing before (getCodeId).
UnknownNeedsMiss ==
    lookup.phase = "idle" /\ lookup.tries > 0 /\ codeId = 0 => seen.missed

\* A fetch ends, whatever the WebSocket and the node do (fetch).
FetchEnds == [](fetching.phase # "idle" => <>(fetching.phase = "idle"))

\* Once the node stays up, the client is connected from some time on (update).
ClientReturns == <>[]up => <>[](spent.updates = {} \/ client)

\* What is known of the node is right or has a failure for its reason, however often
\* the node is down.
NodeIsKnown ==
    /\ ZeroNeedsFailure
    /\ EventTimeKept
    /\ ChainIdNeedsQuery
    /\ UnknownNeedsMiss

\* Every fetch ends and the client comes back, however often the node was down.
NodeRecovers ==
    /\ FetchEnds
    /\ ClientReturns
=============================================================================
