--------------------------- MODULE DepositWebhooks ---------------------------
(***************************************************************************)
(* Deposit webhooks: the registrations and the routes that change them,    *)
(* the list of enabled registrations that an extract worker caches and     *)
(* that other processes invalidate through Redis                           *)
(* (AccountDepositWebhookRegistration), the extractor that turns bank and  *)
(* cw20 transfers into extractions (listener/extractors/xion/              *)
(* depositWebhook.ts), the extract jobs that run it, with their retries    *)
(* and timeouts, and the webhooks they queue.                              *)
(***************************************************************************)
EXTENDS Integers, Sequences, FiniteSets, SequencesExt

CONSTANTS
    Regs,           \* registrations
    Wallets, Denoms, Tokens,    \* wallets, native denoms and cw20 contracts
    FirstRegistrations, \* what there may be at the start
    Transfers,      \* the extract jobs: a sequence of matched transfers
    BodyColumns,    \* the columns a request to update may hold
    ExtractAttempts,\* attempts of a job
    DepositBounds   \* the registrations and jobs of a behaviour, with bounds on the
                    \* changes of the first and on failed attempts of the second

DepositColumns == {"enabled", "watchedWallets", "allowedNativeDenoms", "allowedCw20Contracts"}

ASSUME DepositsAssumption ==
    /\ ExtractAttempts \in Nat \ {0}
    /\ BodyColumns \subseteq SUBSET DepositColumns
    /\ DepositBounds \subseteq [regs : SUBSET Regs, jobs : SUBSET DOMAIN Transfers, edits : Nat, failures : Nat]

VARIABLES
    reg,        \* reg[r]: <<>> or <<registration>>
    regEdit,    \* updates read and validated, to be saved
    regEdits, regRaces, \* how many, and the registrations updated twice at once
    cache,      \* activeRegistrationsCache of the extract worker
    invalidations, \* published invalidations the worker has not received
    unsure,     \* whether a query overlapped an invalidation, or one was lost
    run,        \* run[j][a]: attempt a of job j
    extraction, \* the extractions saved
    moved,      \* registrations changed after a job had read them
    queued,     \* the idempotency keys of the webhooks queued
    failures,   \* failed or timed out attempts so far
    limit       \* the bounds of this behaviour

depositVars == <<reg, regEdit, regEdits, regRaces, cache, invalidations, unsure,
                 run, extraction, moved, queued, failures, limit>>

Attempts == 1 .. ExtractAttempts
NotStarted == [phase |-> "no", regs |-> {}, out |-> {}]
NoCache == [set |-> FALSE, regs |-> {}]

Registration == [enabled : BOOLEAN, watchedWallets : SUBSET Wallets,
                 allowedNativeDenoms : SUBSET Denoms, allowedCw20Contracts : SUBSET Tokens]

\* What the validations of create and update ask of a registration.
ValidRegistration(x) ==
    /\ x.watchedWallets # {}
    /\ x.allowedNativeDenoms # {} \/ x.allowedCw20Contracts # {}

\* A MsgSend has one output. The chain lets no coins pass of which two are of one
\* denomination.
TransferOK(t) ==
    /\ t.index \in Nat
    /\ t.type = "bank" =>
           /\ DOMAIN t.outputs \subseteq Nat /\ (t.multi \/ DOMAIN t.outputs = {1})
           /\ \A o \in DOMAIN t.outputs :
                  /\ IsFiniteSet(DOMAIN t.outputs[o].coins)
                  /\ \A i, k \in DOMAIN t.outputs[o].coins :
                         t.outputs[o].coins[i].denom = t.outputs[o].coins[k].denom => i = k

ASSUME DepositsBeginAssumption ==
    /\ \A x \in FirstRegistrations : x \in Registration /\ ValidRegistration(x)
    /\ \A j \in DOMAIN Transfers : TransferOK(Transfers[j])

DepositsInit ==
    /\ limit \in DepositBounds
    /\ reg \in [limit.regs -> {<<>>} \cup {<<x>> : x \in FirstRegistrations}]
    /\ regEdit = [r \in limit.regs |-> <<>>]
    /\ regEdits = 0 /\ regRaces = {}
    /\ cache = NoCache /\ invalidations = 0 /\ unsure = FALSE
    /\ run = [j \in limit.jobs |-> [a \in Attempts |-> NotStarted]]
    /\ extraction = {} /\ moved = {} /\ queued = {} /\ failures = 0

-----------------------------------------------------------------------------
(* Registrations.                                                          *)

\* getEnabledCached's query.
Enabled == {[id |-> r, filter |-> reg[r][1]] : r \in {x \in DOMAIN reg : reg[x] # <<>> /\ reg[x][1].enabled}}

\* Whether a job has read the registrations before.
Read == cache.set \/ \E j \in DOMAIN run, a \in Attempts : run[j][a].phase # "no"

\* afterSaveHook and afterDestroyHook run in the API process; the worker hears of
\* the change through Redis, unless publishing failed, which is logged.
Publish(r) ==
    /\ moved' = IF Read THEN moved \cup {r} ELSE moved
    /\ \/ invalidations' = invalidations + 1 /\ unsure' = unsure
       \/ invalidations' = invalidations /\ unsure' = TRUE

createDepositWebhookRegistration(r) ==
    /\ reg[r] = <<>> /\ regEdits < limit.edits
    /\ regEdits' = regEdits + 1
    /\ \E x \in Registration : ValidRegistration(x) /\ reg' = [reg EXCEPT ![r] = <<x>>]
    /\ Publish(r)
    /\ UNCHANGED <<regEdit, regRaces, cache, run, extraction, queued, failures, limit>>

\* Mutant: only the columns of the body are validated.
updateDepositWebhookRegistration_BodyOnly(r) ==
    /\ reg[r] # <<>> /\ regEdits < limit.edits
    /\ regEdits' = regEdits + 1
    /\ \E x \in Registration, cols \in BodyColumns :
           /\ cols # {} /\ ValidRegistration(x)
           /\ regEdit' = [regEdit EXCEPT ![r] = Append(@, [c \in cols |-> x[c]])]
    /\ regRaces' = IF regEdit[r] = <<>> THEN regRaces ELSE regRaces \cup {r}
    /\ UNCHANGED <<reg, cache, invalidations, unsure, run, extraction, moved, queued, failures, limit>>

\* The body may hold any of the columns; the registration it would become is
\* validated as read, and the columns are saved later.
updateDepositWebhookRegistration(r) ==
    /\ reg[r] # <<>> /\ regEdits < limit.edits
    /\ regEdits' = regEdits + 1
    /\ \E x \in Registration, cols \in BodyColumns :
           LET next == [c \in DOMAIN x |-> IF c \in cols THEN x[c] ELSE reg[r][1][c]]
           IN  /\ cols # {} /\ ValidRegistration(next)
               /\ "watchedWallets" \in cols => x.watchedWallets # {}
               /\ regEdit' = [regEdit EXCEPT ![r] = Append(@, [c \in cols |-> x[c]])]
    /\ regRaces' = IF regEdit[r] = <<>> THEN regRaces ELSE regRaces \cup {r}
    /\ UNCHANGED <<reg, cache, invalidations, unsure, run, extraction, moved, queued, failures, limit>>

SaveRegistration(r) ==
    /\ regEdit[r] # <<>>
    /\ LET cols == Head(regEdit[r])
       IN  reg' = [reg EXCEPT ![r] =
               <<[c \in DOMAIN @[1] |-> IF c \in DOMAIN cols THEN cols[c] ELSE @[1][c]]>>]
    /\ regEdit' = [regEdit EXCEPT ![r] = Tail(@)]
    /\ Publish(r)
    /\ UNCHANGED <<regEdits, regRaces, cache, run, extraction, queued, failures, limit>>

deleteDepositWebhookRegistration(r) ==
    /\ reg[r] # <<>> /\ regEdit[r] = <<>> /\ regEdits < limit.edits
    /\ regEdits' = regEdits + 1
    /\ reg' = [reg EXCEPT ![r] = <<>>]
    /\ Publish(r)
    /\ UNCHANGED <<regEdit, regRaces, cache, run, extraction, queued, failures, limit>>

-----------------------------------------------------------------------------
(* The worker's cache.                                                     *)

\* Mutant: the message is ignored.
Invalidate_Ignored ==
    /\ invalidations > 0
    /\ invalidations' = invalidations - 1
    /\ UNCHANGED <<reg, regEdit, regEdits, regRaces, cache, unsure, run, extraction, moved, queued, failures, limit>>

\* A query that is under way when the invalidation comes stores its result after.
Invalidate ==
    /\ invalidations > 0
    /\ invalidations' = invalidations - 1
    /\ cache' = NoCache
    /\ unsure' = (unsure \/ \E j \in DOMAIN run, a \in Attempts : run[j][a].phase = "query")
    /\ UNCHANGED <<reg, regEdit, regEdits, regRaces, run, extraction, moved, queued, failures, limit>>

\* Mutant: the list is kept until an invalidation comes.
CacheExpires_Never == FALSE /\ UNCHANGED depositVars

\* Five seconds have passed since the list was cached.
CacheExpires ==
    /\ cache.set
    /\ cache' = NoCache
    /\ UNCHANGED <<reg, regEdit, regEdits, regRaces, invalidations, unsure, run, extraction,
                   moved, queued, failures, limit>>

-----------------------------------------------------------------------------
(* Extract jobs.                                                           *)

Phase(j, a, from, to) == run[j][a].phase = from /\ run' = [run EXCEPT ![j][a].phase = to]

\* getEnabledCached answers from the cache, or by a query.
GetRegistrations(j, a) ==
    /\ run[j][a].phase = "no"
    /\ a > 1 => run[j][a - 1].phase \in {"failed", "timedout"}
    /\ run' = [run EXCEPT ![j][a] =
           IF cache.set THEN [@ EXCEPT !.phase = "extract", !.regs = cache.regs]
                        ELSE [@ EXCEPT !.phase = "query", !.regs = Enabled]]
    /\ UNCHANGED <<reg, regEdit, regEdits, regRaces, cache, invalidations, unsure, extraction,
                   moved, queued, failures, limit>>

QueryReturns(j, a) ==
    /\ Phase(j, a, "query", "extract")
    /\ cache' = [set |-> TRUE, regs |-> run[j][a].regs]
    /\ UNCHANGED <<reg, regEdit, regEdits, regRaces, invalidations, unsure, extraction,
                   moved, queued, failures, limit>>

matchesNativeDeposit(f, wallet, denom) ==
    f.enabled /\ wallet \in f.watchedWallets /\ denom \in f.allowedNativeDenoms

matchesCw20Deposit(f, wallet, token) ==
    f.enabled /\ wallet \in f.watchedWallets /\ token \in f.allowedCw20Contracts

\* The idempotency key, in its parts. The coin's index counts the coins that match
\* the registration.
IdempotencyKey(id, wallet, asset, amount, index) ==
    [reg |-> id, wallet |-> wallet, asset |-> asset, amount |-> amount, index |-> index]

\* Mutant: the key of a coin ends with the message alone.
CoinExtractions_NoIndex(x, wallet, coins, at) ==
    LET matching == {i \in DOMAIN coins : matchesNativeDeposit(x.filter, wallet, coins[i].denom)}
    IN  {[key |-> IdempotencyKey(x.id, wallet, coins[i].denom, coins[i].amount, <<at[1]>>),
          deposit |-> <<wallet, at, coins[i].denom>>] : i \in matching}

\* The extractions of the coins that one wallet receives; at is the place of the
\* output within the transaction.
CoinExtractions(x, wallet, coins, at) ==
    LET matching == {i \in DOMAIN coins : matchesNativeDeposit(x.filter, wallet, coins[i].denom)}
    IN  {[key |-> IdempotencyKey(x.id, wallet, coins[i].denom, coins[i].amount,
                                 Append(at, Cardinality({k \in matching : k < i}))),
          deposit |-> <<wallet, at, coins[i].denom>>] : i \in matching}

\* Mutant: the key also holds how many registrations the attempt found.
extractBankTransfers_Counted(t, regs) ==
    {[key |-> [e.key EXCEPT !.index = Append(@, Cardinality(regs))], deposit |-> e.deposit] :
         e \in UNION {UNION {CoinExtractions(x, t.outputs[o].address, t.outputs[o].coins,
                                             <<t.index, o - 1>>) :
                                 o \in DOMAIN t.outputs} : x \in regs}}

\* A MsgSend has one output, a MsgMultiSend several, whose index is in the key.
extractBankTransfers(t, regs) ==
    UNION {UNION {CoinExtractions(x, t.outputs[o].address, t.outputs[o].coins,
                                  IF t.multi THEN <<t.index, o - 1>> ELSE <<t.index>>) :
                      o \in DOMAIN t.outputs} : x \in regs}

extractCw20Transfers(t, regs) ==
    {[key |-> IdempotencyKey(x.id, t.wallet, t.token, t.amount, <<t.index>>),
      deposit |-> <<t.wallet, <<t.index>>, t.token>>] :
         x \in {y \in regs : matchesCw20Deposit(y.filter, t.wallet, t.token)}}

extract(t, regs) ==
    IF t.type = "bank" THEN extractBankTransfers(t, regs) ELSE extractCw20Transfers(t, regs)

\* The extractions are upserted, by name and block.
Extract(j, a) ==
    LET out == {[job |-> j, key |-> e.key, deposit |-> e.deposit] :
                    e \in extract(Transfers[j], run[j][a].regs)}
    IN  /\ run[j][a].phase \in {"extract", "timedout"}
        /\ run' = [run EXCEPT ![j][a].out = out,
                              ![j][a].phase = IF @ = "extract" THEN "notify" ELSE "late"]
        /\ extraction' = extraction \cup out
        /\ UNCHANGED <<reg, regEdit, regEdits, regRaces, cache, invalidations, unsure, moved,
                       queued, failures, limit>>

\* makeDepositDetectedWebhook: only a registration that is still enabled has an
\* endpoint. An error while queueing is logged and the job completes.
QueueWebhooks(j, a) ==
    /\ run[j][a].phase \in {"notify", "late"}
    /\ run' = [run EXCEPT ![j][a].phase = IF @ = "notify" THEN "done" ELSE "lateDone"]
    /\ \/ queued' = queued \cup {e.key :
                         e \in {x \in run[j][a].out :
                                    reg[x.key.reg] # <<>> /\ reg[x.key.reg][1].enabled}}
       \/ queued' = queued
    /\ UNCHANGED <<reg, regEdit, regEdits, regRaces, cache, invalidations, unsure, extraction,
                   moved, failures, limit>>

\* The attempt throws (its retries included), or takes longer than 30 seconds; it
\* then goes on while the job is attempted again.
AttemptFails(j, a) ==
    /\ failures < limit.failures
    /\ failures' = failures + 1
    /\ Phase(j, a, "extract", "failed") \/ Phase(j, a, "extract", "timedout")
           \/ Phase(j, a, "query", "failed")
    /\ UNCHANGED <<reg, regEdit, regEdits, regRaces, cache, invalidations, unsure, extraction,
                   moved, queued, limit>>

-----------------------------------------------------------------------------
DepositsNext ==
    \/ \E r \in DOMAIN reg :
           \/ createDepositWebhookRegistration(r) \/ updateDepositWebhookRegistration(r)
           \/ SaveRegistration(r) \/ deleteDepositWebhookRegistration(r)
    \/ Invalidate \/ CacheExpires
    \/ \E j \in DOMAIN run, a \in Attempts :
           \/ GetRegistrations(j, a) \/ QueryReturns(j, a) \/ Extract(j, a)
           \/ QueueWebhooks(j, a) \/ AttemptFails(j, a)

\* Time passes, and Redis delivers.
DepositsFairness == WF_depositVars(CacheExpires) /\ WF_depositVars(Invalidate)

DepositsSpec == DepositsInit /\ [][DepositsNext]_depositVars /\ DepositsFairness

-----------------------------------------------------------------------------
(* Properties.                                                             *)

\* A registration always watches a wallet and allows an asset, unless updates
\* that were each validated against what they read were saved together.
RegistrationsKeepFilters ==
    \A r \in DOMAIN reg \ regRaces : reg[r] # <<>> => ValidRegistration(reg[r][1])

\* One deposit has one idempotency key per registration, also over retries and
\* late attempts of its job, as long as the registration does not change in
\* between: the index of a coin counts the coins the registration lets through.
OneKeyPerDeposit ==
    \A e, f \in extraction :
        /\ e.job = f.job /\ e.deposit = f.deposit /\ e.key.reg = f.key.reg
        /\ e.key.reg \notin moved
        => e.key = f.key

\* Two deposits never share an idempotency key, or a consumer would drop one.
KeysTellDepositsApart ==
    \A e, f \in extraction : e.job = f.job /\ e.key = f.key => e.deposit = f.deposit

\* What the worker has cached is what is enabled, unless it is about to hear
\* otherwise; the exceptions (a query overlapping an invalidation, a publish that
\* failed) are corrected by the expiry alone.
CacheIsFresh ==
    cache.set => cache.regs = Enabled \/ invalidations > 0 \/ unsure

\* A stale list does not stay.
CacheCatchesUp == (cache.set /\ cache.regs # Enabled) ~> (~cache.set \/ cache.regs = Enabled)

\* Registrations keep a filter, deposits are told apart by keys that a retry does
\* not change, and the cache of registrations is fresh.
DepositsAreSound ==
    /\ RegistrationsKeepFilters
    /\ OneKeyPerDeposit
    /\ KeysTellDepositsApart
    /\ CacheIsFresh
=============================================================================
