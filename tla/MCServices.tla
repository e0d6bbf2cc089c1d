----------------------------- MODULE MCServices -----------------------------
\* The services beside the tracer and the listener. They share no state, so a
\* behaviour is one of a single service, its focus, and the others stay at rest:
\* the state spaces add up instead of multiplying.
EXTENDS AccountWebhooks, DepositWebhooks, WasmCodes, Transformations, NodeClient

CONSTANTS r1, r2, k1, k2, u1, u2

VARIABLE focus

-----------------------------------------------------------------------------
\* Account webhooks: an event, and edits, exports, firings and restarts.
HookEvents == {[contract |-> 1, code |-> 1, key |-> 1, first |-> FALSE]}
HookFilters == {{1}}
HookSizes ==
    LET Size(c, e, x, f, s) == [columns |-> c, edits |-> e, exports |-> x, fires |-> f, stops |-> s]
    IN  {Size({"contracts", "sets"}, 3, 0, 0, 0), Size({"contracts", "key", "sets"}, 1, 1, 1, 1),
         Size({"key", "sets", "first"}, 2, 1, 0, 0)}

\* Deposits: a send of two coins, a multi-send of two outputs to one wallet, a
\* token transfer.
Coin(d, n) == [denom |-> d, amount |-> n]
DepositTransfers ==
    <<[type |-> "bank", multi |-> FALSE, index |-> 0,
       outputs |-> <<[address |-> "w", coins |-> <<Coin("x", 1), Coin("y", 1)>>]>>],
      [type |-> "bank", multi |-> TRUE, index |-> 1,
       outputs |-> <<[address |-> "w", coins |-> <<Coin("x", 1)>>],
                     [address |-> "w", coins |-> <<Coin("x", 1), Coin("y", 1)>>]>>],
      [type |-> "cw20", wallet |-> "w", token |-> "t", amount |-> 1, index |-> 2]>>
DepositSizes ==
    LET Size(r, j, e, f) == [regs |-> r, jobs |-> j, edits |-> e, failures |-> f]
    IN  {Size({r1}, {}, 2, 0), Size({r1, r2}, {1}, 1, 1), Size({r1}, {2}, 1, 1), Size({r1}, {3}, 1, 1)}
EditedColumns ==
    {{"enabled"}, {"allowedNativeDenoms"}, {"allowedCw20Contracts"}, {"watchedWallets"},
     {"allowedNativeDenoms", "allowedCw20Contracts"}}
Registered ==
    LET For(d, t) == [enabled |-> TRUE, watchedWallets |-> {"w"}, allowedNativeDenoms |-> d,
                      allowedCw20Contracts |-> t]
    IN  {For({"x", "y"}, {"t"})}

\* Code ids: none configured, or one for a key, or two for another.
CodeConfigs ==
    {[k \in CodeKeys |-> {}],
     [k \in CodeKeys |-> IF k = k1 THEN {1} ELSE {}],
     [k \in CodeKeys |-> IF k = k2 THEN {1, 2} ELSE {}]}
CodeSizes ==
    LET Size(m, x, c, l) == [migrations |-> m, removals |-> x, configs |-> c, reloads |-> l]
    IN  {Size(1, 1, 1, 1), Size(1, 1, 0, 2), Size(2, 0, 0, 1)}

\* Transformations: the last size removes keys, the others write and repeat.
TransformSizes ==
    LET Size(b, w, r, j, x) ==
            [blocks |-> b, writes |-> w, repeats |-> r, jobs |-> j, removals |-> x]
    IN  {Size(2, 2, 0, 1, 0), Size(2, 2, 1, 0, 0), Size(2, 1, 1, 1, 0), Size(3, 1, 0, 1, 1)}

\* The node: block times, overlapping updates, code ids.
NodeSizes ==
    LET Size(b, w, d, f, l, u) ==
            [blocks |-> b, lowest |-> w, downs |-> d, fetches |-> f, lookups |-> l, updates |-> u]
    IN  {Size(3, 2, 2, 3, 0, {}), Size(2, 1, 2, 2, 0, {u1}), Size(0, 0, 2, 0, 0, {u1, u2}),
         Size(0, 0, 2, 0, 3, {})}

-----------------------------------------------------------------------------
\* A service at rest starts from one state, in which it has nothing to do: no fair
\* action of it is enabled.
AtRest ==
    /\ IF focus = "webhooks" THEN TRUE ELSE bound = CHOOSE b \in HookSizes : TRUE
    /\ IF focus = "deposits" THEN TRUE
       ELSE /\ limit = CHOOSE b \in DepositSizes : TRUE
            /\ reg = [r \in limit.regs |-> <<>>]
    /\ IF focus = "codes" THEN TRUE
       ELSE /\ configured = [k \in CodeKeys |-> {}]
            /\ codeBound = CHOOSE b \in CodeSizes : TRUE
    /\ IF focus = "transformations" THEN TRUE
       ELSE codeKnown = TRUE /\ tBound = CHOOSE b \in TransformSizes : TRUE
    /\ IF focus = "node" THEN TRUE
       ELSE socket = FALSE /\ spent = CHOOSE b \in NodeSizes : b.updates = {} /\ b.fetches = 0

ServicesInit ==
    /\ focus \in {"webhooks", "deposits", "codes", "transformations", "node"}
    /\ AtRest
    /\ WebhooksInit
    /\ DepositsInit
    /\ WasmCodesInit
    /\ TransformationsInit
    /\ NodeInit

ServicesNext ==
    \/ /\ focus = "webhooks" /\ WebhooksNext
       /\ UNCHANGED <<focus, depositVars, codeVars, transformVars, nodeVars>>
    \/ /\ focus = "deposits" /\ DepositsNext
       /\ UNCHANGED <<focus, webhookVars, codeVars, transformVars, nodeVars>>
    \/ /\ focus = "codes" /\ WasmCodesNext
       /\ UNCHANGED <<focus, webhookVars, depositVars, transformVars, nodeVars>>
    \/ /\ focus = "transformations" /\ TransformationsNext
       /\ UNCHANGED <<focus, webhookVars, depositVars, codeVars, nodeVars>>
    \/ /\ focus = "node" /\ NodeNext
       /\ UNCHANGED <<focus, webhookVars, depositVars, codeVars, transformVars>>

ServicesSpec ==
    /\ ServicesInit
    /\ [][ServicesNext]_<<focus, webhookVars, depositVars, codeVars, transformVars, nodeVars>>
    /\ WebhooksFairness
    /\ DepositsFairness
    /\ WasmCodesFairness
    /\ TransformationsFairness
    /\ NodeFairness

-----------------------------------------------------------------------------
\* What each service comes to once failures end: events of webhooks are settled for
\* good, a stale list of registrations goes, saved codes become known, fetches of
\* times end and the client of the node returns.
ServicesRecover ==
    /\ EventsSettleForGood
    /\ CacheCatchesUp
    /\ SavedBecomesKnown
    /\ NodeRecovers
=============================================================================
