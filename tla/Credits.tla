------------------------------ MODULE Credits ------------------------------
(***************************************************************************)
(* Paying for queries: the credits of one account key (AccountKey,         *)
(* AccountKeyCredit), the computer route that uses them and the payment    *)
(* webhook that adds to them.  A request finds a credit in one query and   *)
(* increments it in others, so requests overlap; a payment notification    *)
(* may be delivered more than once.                                        *)
(***************************************************************************)
EXTENDS Integers

CONSTANTS
    Queries,        \* requests to the computer route
    CreditRows,     \* the credits of the key
    CreditAmounts,  \* their initial amounts, one of which a behaviour starts from;
                    \* Infinite for a manual credit
    Intervals,      \* lengths of the block ranges asked for; 1 is a single block
    BlocksPerCredit,\* blocks of a range covered by one credit (10,000)
    ScaleNum,       \* payment.creditScaleFactor, as a fraction
    ScaleDen,
    CreditBounds    \* the requests of a behaviour, with bounds on what is paid and on
                    \* the deliveries of payment notifications

Infinite == -1

ASSUME CreditsAssumption ==
    /\ CreditAmounts \subseteq [CreditRows -> Nat \cup {Infinite}]
    /\ BlocksPerCredit \in Nat \ {0} /\ Intervals \subseteq Int
    /\ ScaleNum \in Nat /\ ScaleDen \in Nat \ {0}
    /\ CreditBounds \subseteq [queries : SUBSET Queries, paid : Nat, deliveries : Nat]

VARIABLES
    credit,     \* credit[c]: amount, used and hits of a row
    query,      \* query[q]: the state of a request
    receipt,    \* receipt[c]: total paid to the receipt of a credit
    notes,      \* notifications sent, each with the totals before and after
    delivered,  \* delivered[c]: the first amount, number and sum of payments registered
    overlap,    \* credits chosen while another increment of theirs was pending
    allowed     \* the bounds of this behaviour

creditsVars == <<credit, query, receipt, notes, delivered, overlap, allowed>>

Unsent == [phase |-> "unsent", cost |-> 0, row |-> {}, pending |-> {}]

CreditsInit ==
    /\ allowed \in CreditBounds
    /\ \E amounts \in CreditAmounts :
           /\ credit = [c \in CreditRows |-> [amount |-> amounts[c], used |-> 0, hits |-> 0]]
           /\ delivered = [c \in CreditRows |-> [first |-> amounts[c], count |-> 0, sum |-> 0]]
    /\ query = [q \in allowed.queries |-> Unsent]
    /\ receipt = [c \in CreditRows |-> 0]
    /\ notes = {}
    /\ overlap = {}

-----------------------------------------------------------------------------
\* Mutant: a range that ends before it starts is priced like any other.
creditsForBlockInterval_NoGuard(n) ==
    IF n = 1 THEN 1
    ELSE 1 + n \div BlocksPerCredit + (IF n % BlocksPerCredit = 0 THEN 0 ELSE 1)

\* One credit for the query and one for every started 10,000 blocks of a range.
creditsForBlockInterval(n) ==
    IF n <= 0 THEN 0
    ELSE IF n = 1 THEN 1
    ELSE 1 + n \div BlocksPerCredit + (IF n % BlocksPerCredit = 0 THEN 0 ELSE 1)

\* A request that passed validation. A range waits for its increments before it
\* computes; a single query does not.
Query(q, n) ==
    /\ query[q].phase = "unsent"
    /\ query' = [query EXCEPT ![q] = [@ EXCEPT !.phase = "asked",
                                               !.cost = creditsForBlockInterval(n)]]
    /\ UNCHANGED <<credit, receipt, notes, delivered, overlap, allowed>>

\* Mutant: a credit that is used up still covers the next request.
Covers_OffByOne(c, cost) ==
    credit[c].amount = Infinite \/ credit[c].amount >= credit[c].used + cost - 1

Covers(c, cost) ==
    credit[c].amount = Infinite \/ credit[c].amount >= credit[c].used + cost

PendingOn(c) == {q \in DOMAIN query : query[q].row = {c} /\ "used" \in query[q].pending}

\* useCredit: the lowest amount that covers the cost; an infinite one is -1 and
\* so comes first. The increments are started together.
FindCredit(q) ==
    /\ query[q].phase = "asked"
    /\ \E c \in CreditRows :
           /\ Covers(c, query[q].cost)
           /\ \A d \in CreditRows :
                  Covers(d, query[q].cost) => credit[c].amount <= credit[d].amount
           /\ query' = [query EXCEPT ![q] = [@ EXCEPT !.phase = "paying", !.row = {c},
                                                      !.pending = {"used", "hits"}]]
           /\ overlap' = IF PendingOn(c) = {} THEN overlap ELSE overlap \cup {c}
    /\ UNCHANGED <<credit, receipt, notes, delivered, allowed>>

NoCredit(q) ==
    /\ query[q].phase = "asked"
    /\ \A c \in CreditRows : ~Covers(c, query[q].cost)
    /\ query' = [query EXCEPT ![q].phase = "refused"]
    /\ UNCHANGED <<credit, receipt, notes, delivered, overlap, allowed>>

\* An increment, which adds to whatever the row holds, or its failure, which is
\* logged.
Increment(q, column) ==
    /\ column \in query[q].pending
    /\ query' = [query EXCEPT ![q].pending = @ \ {column}]
    /\ \E c \in query[q].row :
           credit' = IF column = "used" THEN [credit EXCEPT ![c].used = @ + query[q].cost]
                                        ELSE [credit EXCEPT ![c].hits = @ + 1]
    /\ UNCHANGED <<receipt, notes, delivered, overlap, allowed>>

IncrementFails(q, column) ==
    /\ column \in query[q].pending
    /\ query' = [query EXCEPT ![q].pending = @ \ {column}]
    /\ UNCHANGED <<credit, receipt, notes, delivered, overlap, allowed>>

\* A range is answered when the increments settled, a single query at any time.
Answered(q) ==
    /\ query[q].phase = "paying"
    /\ query[q].cost = 1 \/ query[q].pending = {}
    /\ query' = [query EXCEPT ![q].phase = "answered"]
    /\ UNCHANGED <<credit, receipt, notes, delivered, overlap, allowed>>

-----------------------------------------------------------------------------
\* The receipt contract takes a payment and sends the totals before and after.
Paid(c, n) ==
    /\ credit[c].amount # Infinite
    /\ receipt[c] + n <= allowed.paid
    /\ receipt' = [receipt EXCEPT ![c] = @ + n]
    /\ notes' = notes \cup {[row |-> c, amount |-> receipt[c] + n, previousAmount |-> receipt[c]]}
    /\ UNCHANGED <<credit, query, delivered, overlap, allowed>>

\* Math.round of the scaled payment: halves are rounded up.
Credited(paid) == (2 * paid * ScaleNum + ScaleDen) \div (2 * ScaleDen)

\* Mutant: credits the total of the receipt instead of the new payment.
paymentWebhook_Total(n) ==
    LET paid == n.amount - n.previousAmount
    IN  /\ n \in notes /\ paid > 0
        /\ delivered[n.row].count < allowed.deliveries
        /\ credit' = [credit EXCEPT ![n.row].amount = @ + Credited(n.amount)]
        /\ delivered' = [delivered EXCEPT ![n.row].count = @ + 1, ![n.row].sum = @ + paid]
        /\ UNCHANGED <<query, receipt, notes, overlap, allowed>>

\* paymentWebhook with addCredits. Nothing records which notifications were
\* applied, so one delivered again, or retried after an error, is added again.
paymentWebhook(n) ==
    LET paid == n.amount - n.previousAmount
    IN  /\ n \in notes /\ paid > 0
        /\ delivered[n.row].count < allowed.deliveries
        /\ credit' = [credit EXCEPT ![n.row].amount = @ + Credited(paid)]
        /\ delivered' = [delivered EXCEPT ![n.row].count = @ + 1, ![n.row].sum = @ + paid]
        /\ UNCHANGED <<query, receipt, notes, overlap, allowed>>

-----------------------------------------------------------------------------
CreditsNext ==
    \/ \E q \in DOMAIN query :
           \/ \E n \in Intervals : Query(q, n)
           \/ FindCredit(q) \/ NoCredit(q) \/ Answered(q)
           \/ \E column \in {"used", "hits"} : Increment(q, column) \/ IncrementFails(q, column)
    \/ \E c \in CreditRows : \E n \in 1 .. allowed.paid : Paid(c, n)
    \/ \E n \in notes : paymentWebhook(n)

CreditsSpec == CreditsInit /\ [][CreditsNext]_creditsVars

-----------------------------------------------------------------------------
(* Properties.                                                             *)

\* The rows, the requests and the ghosts keep their types; the amounts stay
\* naturals also under the sums and the rounding of payments.
CreditsTypeOK ==
    /\ credit \in [CreditRows -> [amount : Nat \cup {Infinite}, used : Nat, hits : Nat]]
    /\ query \in [allowed.queries -> [phase : {"unsent", "asked", "paying", "answered", "refused"},
                              cost : Nat, row : SUBSET CreditRows,
                              pending : SUBSET {"used", "hits"}]]
    /\ receipt \in [CreditRows -> Nat]
    /\ delivered \in [CreditRows -> [first : Nat \cup {Infinite}, count : Nat, sum : Nat]]
    /\ allowed \in CreditBounds
    /\ overlap \subseteq CreditRows

\* What useCredit let through never exceeds a finite credit, its increments that
\* are still to come included, unless two requests overlapped on it: the check
\* in the query and the increment are not one step (AccountKey.useCredit).
OverspendNeedsOverlap ==
    \A c \in CreditRows \ overlap :
        credit[c].amount # Infinite =>
            /\ credit[c].used <= credit[c].amount
            /\ \A q \in PendingOn(c) : credit[c].used + query[q].cost <= credit[c].amount

\* Registered payments are worth their scaled sum to half a credit each,
\* whatever their order and however often each is delivered: rounding never
\* accumulates beyond that (paymentWebhook, AccountKeyCredit.addCredits).
PaymentsCredited ==
    \A c \in CreditRows :
        credit[c].amount # Infinite =>
            LET exact == delivered[c].sum * ScaleNum
                given == (credit[c].amount - delivered[c].first) * ScaleDen
            IN  /\ 2 * (given - exact) <= delivered[c].count * ScaleDen
                /\ 2 * (exact - given) <= delivered[c].count * ScaleDen

\* A key's credits: every value is a number, only requests that overlapped can
\* spend more than there is, and what was paid is what was credited.
CreditsAreSound ==
    /\ CreditsTypeOK
    /\ OverspendNeedsOverlap
    /\ PaymentsCredited
=============================================================================
