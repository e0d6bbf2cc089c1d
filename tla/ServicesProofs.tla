---------------------------- MODULE ServicesProofs ----------------------------
(***************************************************************************)
(* Proofs about the services beside the pipeline: Credits, for every set   *)
(* of requests, rows and amounts, every price and scale; AccountWebhooks,  *)
(* for every set of webhooks, code id sets, events and filters; WasmCodes, *)
(* for every configuration and number of reloads; DepositWebhooks, for     *)
(* every sequence of transfers and any registrations; NodeClient, for      *)
(* every size of the cache and number of tries; Recovery, for every set of *)
(* keys, values and jobs, every page size and any number of blocks and     *)
(* lost blocks; StateImport, for every set of keys and history of a        *)
(* contract and every choice of snapshots; and every bound of each.        *)
(***************************************************************************)
EXTENDS Credits, AccountWebhooks, DepositWebhooks, WasmCodes, NodeClient, Recovery,
        StateImport, Induction, FiniteSetTheorems, SequenceTheorems, TLAPS

-----------------------------------------------------------------------------
(* Credits.                                                                *)

\* Payments are made to credits that are not infinite.
NotesInv ==
    \A n \in notes : /\ n.row \in CreditRows /\ n.amount \in Nat /\ n.previousAmount \in Nat
                     /\ credit[n.row].amount # Infinite

\* A request whose increments are pending has found its credit.
PendingInv ==
    \A q \in DOMAIN query :
        /\ query[q].phase \in {"unsent", "asked"} => query[q].pending = {}
        /\ query[q].pending # {} => \E c \in CreditRows : query[q].row = {c}

\* At most one request is about to use a credit on which none overlapped.
AloneInv ==
    \A c \in CreditRows \ overlap : \A q1, q2 \in PendingOn(c) : q1 = q2

\* The inductive invariant.
CreditsInv == CreditsAreSound /\ NotesInv /\ PendingInv /\ AloneInv

-----------------------------------------------------------------------------
(* Arithmetic.                                                             *)

\* A quotient is the largest number that does not pass the dividend.
LEMMA QuotientBounds ==
    ASSUME NEW a \in Nat, NEW b \in Nat \ {0}
    PROVE  a \div b \in Nat /\ b * (a \div b) <= a /\ a < b * (a \div b) + b
  <1>1. a \div b \in Nat
    OBVIOUS
  <1>2. b * (a \div b) <= a /\ a < b * (a \div b) + b
    OBVIOUS
  <1> QED
    BY <1>1, <1>2

\* Products of sums.
LEMMA ProductInt ==
    ASSUME NEW a \in Int, NEW b \in Int
    PROVE  a * b \in Int /\ 2 * a * b = 2 * (a * b)
  OBVIOUS

\* A product of naturals.
LEMMA ProductNat ==
    ASSUME NEW a \in Nat, NEW b \in Nat
    PROVE  a * b \in Nat
  OBVIOUS

\* Products distribute over sums.
LEMMA Distributes ==
    ASSUME NEW a \in Int, NEW b \in Int, NEW d \in Int
    PROVE  (a + b) * d = a * d + b * d
  OBVIOUS

\* Two amounts within half a unit of another two, each, add up to within one.
LEMMA ErrorsAdd ==
    ASSUME NEW given \in Int, NEW exact \in Int, NEW most \in Int,
           NEW g \in Int, NEW e \in Int, NEW b \in Int,
           2 * (given - exact) <= most, 2 * (exact - given) <= most,
           2 * (g - e) <= b, 2 * (e - g) <= b
    PROVE  /\ 2 * ((given + g) - (exact + e)) <= most + b
           /\ 2 * ((exact + e) - (given + g)) <= most + b
  OBVIOUS

\* What a rounded quotient is worth.
LEMMA RoundedHalf ==
    ASSUME NEW x \in Int, NEW d \in Int, NEW y \in Int,
           2 * y <= 2 * x + d, 2 * x + d < 2 * y + 2 * d
    PROVE  2 * (y - x) <= d /\ 2 * (x - y) <= d
  OBVIOUS

\* Credited is within half a credit of the exact amount (Math.round).
LEMMA CreditedIsRounded ==
    ASSUME NEW paid \in Nat
    PROVE  /\ Credited(paid) \in Nat
           /\ 2 * (Credited(paid) * ScaleDen - paid * ScaleNum) <= ScaleDen
           /\ 2 * (paid * ScaleNum - Credited(paid) * ScaleDen) <= ScaleDen
  <1> DEFINE x == paid * ScaleNum
             a == 2 * paid * ScaleNum + ScaleDen
             b == 2 * ScaleDen
             r == a \div b
             y == r * ScaleDen
  <1>1. ScaleNum \in Nat /\ ScaleDen \in Nat \ {0}
    BY CreditsAssumption
  <1>2. x \in Nat
    BY <1>1, ProductNat
  <1>3. a = 2 * x + ScaleDen
    <2>1. 2 * paid * ScaleNum = 2 * x
      BY <1>1, ProductInt
    <2> QED
      BY <2>1
  <1>4. Credited(paid) = r
    BY DEF Credited
  <1> HIDE DEF x
  <1>5. a \in Nat /\ b \in Nat \ {0}
    BY <1>1, <1>2, <1>3
  <1> HIDE DEF a
  <1>6. r \in Nat /\ b * r <= a /\ a < b * r + b
    BY <1>5, QuotientBounds
  <1>7. b * r = 2 * y /\ y \in Nat
    <2> HIDE DEF r
    <2>1. y \in Nat
      BY <1>1, <1>6, ProductNat
    <2>2. 2 * ScaleDen * r = 2 * (ScaleDen * r) /\ ScaleDen * r = r * ScaleDen
      BY <1>1, <1>6
    <2> QED
      BY <2>1, <2>2
  <1> HIDE DEF r
  <1> HIDE DEF y
  <1>8. 2 * y <= 2 * x + ScaleDen /\ 2 * x + ScaleDen < 2 * y + 2 * ScaleDen
    BY <1>3, <1>6, <1>7
  <1>9. 2 * (y - x) <= ScaleDen /\ 2 * (x - y) <= ScaleDen
    BY <1>1, <1>2, <1>7, <1>8, RoundedHalf
  <1> QED
    BY <1>4, <1>6, <1>9 DEF x, y

\* A price is a natural (creditsForBlockInterval).
LEMMA PriceNat ==
    ASSUME NEW n \in Intervals
    PROVE  creditsForBlockInterval(n) \in Nat
  <1>1. n \in Int /\ BlocksPerCredit \in Nat \ {0}
    BY CreditsAssumption
  <1>2. CASE n <= 0
    BY <1>1, <1>2 DEF creditsForBlockInterval
  <1>3. CASE n > 0
    <2>1. n \in Nat
      BY <1>1, <1>3
    <2>2. n \div BlocksPerCredit \in Nat
      BY <1>1, <2>1, QuotientBounds
    <2> QED
      BY <1>1, <2>1, <2>2 DEF creditsForBlockInterval
  <1> QED
    BY <1>1, <1>2, <1>3

\* A credit's amount is worth the payments registered, to half a credit each.
WorthPaid(amount, first, sum, count) ==
    /\ 2 * ((amount - first) * ScaleDen - sum * ScaleNum) <= count * ScaleDen
    /\ 2 * (sum * ScaleNum - (amount - first) * ScaleDen) <= count * ScaleDen

\* Payments registered so far and one more: the error grows by half a credit.
LEMMA PaymentError ==
    ASSUME NEW amount \in Int, NEW first \in Int, NEW sum \in Nat, NEW count \in Nat, NEW paid \in Nat,
           WorthPaid(amount, first, sum, count)
    PROVE  WorthPaid(amount + Credited(paid), first, sum + paid, count + 1)
  <1>1. ScaleNum \in Int /\ ScaleDen \in Int
    BY CreditsAssumption
  <1>2. /\ Credited(paid) \in Nat
        /\ 2 * (Credited(paid) * ScaleDen - paid * ScaleNum) <= ScaleDen
        /\ 2 * (paid * ScaleNum - Credited(paid) * ScaleDen) <= ScaleDen
    BY CreditedIsRounded
  <1>3. (sum + paid) * ScaleNum = sum * ScaleNum + paid * ScaleNum
    BY <1>1, Distributes
  <1>4. (count + 1) * ScaleDen = count * ScaleDen + ScaleDen
    <2>1. (count + 1) * ScaleDen = count * ScaleDen + 1 * ScaleDen
      BY <1>1, Distributes
    <2> QED
      BY <1>1, <2>1
  <1>5. ((amount + Credited(paid)) - first) * ScaleDen = (amount - first) * ScaleDen + Credited(paid) * ScaleDen
    <2>1. (amount + Credited(paid)) - first = (amount - first) + Credited(paid) /\ amount - first \in Int
      BY <1>2
    <2>2. ((amount - first) + Credited(paid)) * ScaleDen = (amount - first) * ScaleDen + Credited(paid) * ScaleDen
      BY <1>1, <1>2, <2>1, Distributes
    <2> QED
      BY <2>1, <2>2
  <1>6. /\ (amount - first) * ScaleDen \in Int /\ sum * ScaleNum \in Int /\ count * ScaleDen \in Int
        /\ Credited(paid) * ScaleDen \in Int /\ paid * ScaleNum \in Int
    <2>1. amount - first \in Int
      OBVIOUS
    <2> QED
      BY <1>1, <1>2, <2>1, ProductInt
  <1>7. /\ 2 * (((amount - first) * ScaleDen + Credited(paid) * ScaleDen) - (sum * ScaleNum + paid * ScaleNum))
             <= count * ScaleDen + ScaleDen
        /\ 2 * ((sum * ScaleNum + paid * ScaleNum) - ((amount - first) * ScaleDen + Credited(paid) * ScaleDen))
             <= count * ScaleDen + ScaleDen
    BY <1>1, <1>2, <1>6, ErrorsAdd DEF WorthPaid
  <1>8. /\ 2 * (((amount + Credited(paid)) - first) * ScaleDen - (sum + paid) * ScaleNum) <= (count + 1) * ScaleDen
        /\ 2 * ((sum + paid) * ScaleNum - ((amount + Credited(paid)) - first) * ScaleDen) <= (count + 1) * ScaleDen
    BY <1>3, <1>4, <1>5, <1>7
  <1> QED
    BY <1>8 DEF WorthPaid

-----------------------------------------------------------------------------
(* Steps.                                                                  *)

Phases == {"unsent", "asked", "paying", "answered", "refused"}
Columns == {"used", "hits"}
Request == [phase : Phases, cost : Nat, row : SUBSET CreditRows, pending : SUBSET Columns]
Row == [amount : Nat \cup {Infinite}, used : Nat, hits : Nat]

\* The types, with names for the records.
LEMMA CreditsTypes ==
    ASSUME CreditsInv
    PROVE  /\ credit \in [CreditRows -> Row] /\ query \in [allowed.queries -> Request]
           /\ DOMAIN query = allowed.queries
           /\ \A c \in CreditRows : /\ credit[c].amount \in Int /\ credit[c].used \in Nat /\ credit[c].hits \in Nat
                                    /\ credit[c].amount # Infinite => credit[c].amount \in Nat
           /\ \A q \in DOMAIN query : query[q] \in Request /\ query[q].cost \in Nat
  <1>1. credit \in [CreditRows -> Row] /\ query \in [allowed.queries -> Request]
    BY DEF CreditsInv, CreditsAreSound, CreditsTypeOK, Row, Request, Phases, Columns
  <1>2. \A c \in CreditRows : credit[c] \in Row
    BY <1>1
  <1>3. Infinite \in Int
    BY DEF Infinite
  <1> QED
    BY <1>1, <1>2, <1>3 DEF Row, Request

\* A step that leaves the rows alone and makes no use of a credit pending.
LEMMA RequestsKeep ==
    ASSUME CreditsInv, NEW q \in DOMAIN query, NEW new \in Request, query' = [query EXCEPT ![q] = new],
           new.row = query[q].row, new.pending \subseteq query[q].pending,
           new.cost = query[q].cost \/ new.pending = {},
           new.phase \in {"unsent", "asked"} => new.pending = {},
           UNCHANGED <<credit, receipt, notes, delivered, overlap, allowed>>
    PROVE  CreditsInv'
  <1>1. query \in [allowed.queries -> Request] /\ DOMAIN query = allowed.queries
    BY CreditsTypes
  <1>2. /\ query' \in [allowed.queries -> Request] /\ DOMAIN query' = DOMAIN query /\ query'[q] = new
        /\ \A p \in DOMAIN query : p # q => query'[p] = query[p]
    BY <1>1
  <1>3. CreditsTypeOK'
    BY <1>2 DEF CreditsInv, CreditsAreSound, CreditsTypeOK, Request, Phases, Columns
  <1>4. ASSUME NEW c \in CreditRows
        PROVE  /\ PendingOn(c)' \subseteq PendingOn(c)
               /\ \A p \in PendingOn(c)' : query'[p].cost = query[p].cost
    BY <1>2 DEF PendingOn
  <1>5. OverspendNeedsOverlap'
    BY <1>4 DEF CreditsInv, CreditsAreSound, OverspendNeedsOverlap
  <1>6. AloneInv'
    BY <1>4 DEF CreditsInv, AloneInv
  <1>7. PendingInv'
    <2>1. ASSUME NEW p \in DOMAIN query
          PROVE  /\ query'[p].phase \in {"unsent", "asked"} => query'[p].pending = {}
                 /\ query'[p].pending # {} => \E c \in CreditRows : query'[p].row = {c}
      <3>1. CASE p = q
        BY <1>2, <3>1 DEF CreditsInv, PendingInv
      <3>2. CASE p # q
        BY <1>2, <3>2 DEF CreditsInv, PendingInv
      <3> QED
        BY <3>1, <3>2
    <2> QED
      BY <1>2, <2>1 DEF PendingInv
  <1>8. NotesInv' /\ PaymentsCredited'
    BY DEF CreditsInv, CreditsAreSound, NotesInv, PaymentsCredited
  <1> QED
    BY <1>3, <1>5, <1>6, <1>7, <1>8 DEF CreditsInv, CreditsAreSound

\* A request passes validation and is priced.
LEMMA QueryKeeps ==
    ASSUME CreditsInv, NEW q \in DOMAIN query, NEW n \in Intervals, Query(q, n)
    PROVE  CreditsInv'
  <1> DEFINE new == [query[q] EXCEPT !.phase = "asked", !.cost = creditsForBlockInterval(n)]
  <1>1. query[q] \in Request /\ query[q].pending = {}
    BY CreditsTypes DEF Query, CreditsInv, PendingInv
  <1>2. creditsForBlockInterval(n) \in Nat
    BY PriceNat
  <1>3. /\ new \in Request /\ new.row = query[q].row /\ new.pending = query[q].pending
    BY <1>1, <1>2 DEF Request, Phases
  <1>4. query' = [query EXCEPT ![q] = new] /\ UNCHANGED <<credit, receipt, notes, delivered, overlap, allowed>>
    BY DEF Query
  <1> HIDE DEF new
  <1> QED
    BY <1>1, <1>3, <1>4, RequestsKeep

\* A request's phase after it has found no credit, or has been answered.
LEMMA PhaseKeeps ==
    ASSUME CreditsInv, NEW q \in DOMAIN query, NEW phase \in Phases \ {"unsent", "asked"},
           query' = [query EXCEPT ![q].phase = phase],
           UNCHANGED <<credit, receipt, notes, delivered, overlap, allowed>>
    PROVE  CreditsInv'
  <1> DEFINE new == [query[q] EXCEPT !.phase = phase]
  <1>1. query[q] \in Request
    BY CreditsTypes
  <1>2. /\ new \in Request /\ new.row = query[q].row /\ new.pending = query[q].pending
        /\ new.cost = query[q].cost /\ new.phase = phase
    BY <1>1 DEF Request
  <1>3. query' = [query EXCEPT ![q] = new]
    OBVIOUS
  <1> HIDE DEF new
  <1> QED
    BY <1>2, <1>3, RequestsKeep

\* A request after one of its increments has been settled.
LEMMA SettledRequest ==
    ASSUME CreditsInv, NEW q \in DOMAIN query, NEW column
    PROVE  LET new == [query[q] EXCEPT !.pending = query[q].pending \ {column}]
           IN  /\ new \in Request /\ new.row = query[q].row /\ new.cost = query[q].cost
               /\ new.phase = query[q].phase /\ new.pending = query[q].pending \ {column}
               /\ [query EXCEPT ![q].pending = @ \ {column}] = [query EXCEPT ![q] = new]
  <1>1. query[q] \in Request
    BY CreditsTypes
  <1> QED
    BY <1>1 DEF Request

\* An increment fails and is logged.
LEMMA IncrementFailsKeeps ==
    ASSUME CreditsInv, NEW q \in DOMAIN query, NEW column, IncrementFails(q, column)
    PROVE  CreditsInv'
  <1> DEFINE new == [query[q] EXCEPT !.pending = query[q].pending \ {column}]
  <1>1. /\ new \in Request /\ new.row = query[q].row /\ new.cost = query[q].cost
        /\ new.phase = query[q].phase /\ new.pending = query[q].pending \ {column}
        /\ [query EXCEPT ![q].pending = @ \ {column}] = [query EXCEPT ![q] = new]
    BY SettledRequest
  <1>2. query' = [query EXCEPT ![q] = new] /\ UNCHANGED <<credit, receipt, notes, delivered, overlap, allowed>>
    BY <1>1 DEF IncrementFails
  <1>3. query[q].phase \in {"unsent", "asked"} => query[q].pending = {}
    BY DEF CreditsInv, PendingInv
  <1> HIDE DEF new
  <1> QED
    BY <1>1, <1>2, <1>3, RequestsKeep

\* An increment adds to its row: what it adds was covered when no other request
\* overlapped.
LEMMA IncrementKeeps ==
    ASSUME CreditsInv, NEW q \in DOMAIN query, NEW column \in Columns, Increment(q, column)
    PROVE  CreditsInv'
  <1> DEFINE new == [query[q] EXCEPT !.pending = query[q].pending \ {column}]
             cost == query[q].cost
  <1>1. /\ new \in Request /\ new.row = query[q].row /\ new.cost = query[q].cost
        /\ new.phase = query[q].phase /\ new.pending = query[q].pending \ {column}
        /\ [query EXCEPT ![q].pending = @ \ {column}] = [query EXCEPT ![q] = new]
    BY SettledRequest
  <1>2. /\ column \in query[q].pending /\ query' = [query EXCEPT ![q] = new]
        /\ UNCHANGED <<receipt, notes, delivered, overlap, allowed>>
    BY <1>1 DEF Increment
  <1>3. PICK c \in query[q].row :
               credit' = IF column = "used" THEN [credit EXCEPT ![c].used = @ + cost]
                                            ELSE [credit EXCEPT ![c].hits = @ + 1]
    BY DEF Increment
  <1>4. c \in CreditRows /\ query[q].row = {c}
    BY <1>2, <1>3 DEF CreditsInv, PendingInv
  <1>5. /\ credit \in [CreditRows -> Row] /\ query \in [allowed.queries -> Request] /\ cost \in Nat
        /\ DOMAIN query = allowed.queries /\ credit[c] \in Row
    BY <1>4, CreditsTypes
  <1> HIDE DEF new, cost
  <1>6. /\ query' \in [allowed.queries -> Request] /\ DOMAIN query' = DOMAIN query /\ query'[q] = new
        /\ \A p \in DOMAIN query : p # q => query'[p] = query[p]
    BY <1>1, <1>2, <1>5
  <1>7. /\ credit' \in [CreditRows -> Row]
        /\ \A d \in CreditRows : credit'[d].amount = credit[d].amount
        /\ \A d \in CreditRows : d # c => credit'[d] = credit[d]
        /\ column = "used" => credit'[c].used = credit[c].used + cost
        /\ column # "used" => credit'[c].used = credit[c].used
    <2>1. CASE column = "used"
      <3> DEFINE row == [credit[c] EXCEPT !.used = credit[c].used + cost]
      <3>1. row \in Row /\ row.amount = credit[c].amount /\ row.used = credit[c].used + cost
        BY <1>5 DEF Row
      <3>2. credit' = [credit EXCEPT ![c] = row]
        BY <1>3, <2>1
      <3> HIDE DEF row
      <3> QED
        BY <1>4, <1>5, <2>1, <3>1, <3>2
    <2>2. CASE column # "used"
      <3> DEFINE row == [credit[c] EXCEPT !.hits = credit[c].hits + 1]
      <3>1. row \in Row /\ row.amount = credit[c].amount /\ row.used = credit[c].used
        BY <1>5 DEF Row
      <3>2. credit' = [credit EXCEPT ![c] = row]
        BY <1>3, <2>2
      <3> HIDE DEF row
      <3> QED
        BY <1>4, <1>5, <2>2, <3>1, <3>2
    <2> QED
      BY <2>1, <2>2
  <1>8. CreditsTypeOK'
    BY <1>2, <1>6, <1>7 DEF CreditsInv, CreditsAreSound, CreditsTypeOK, Request, Phases, Columns, Row
  <1>9. ASSUME NEW d \in CreditRows
        PROVE  /\ PendingOn(d)' \subseteq PendingOn(d)
               /\ \A p \in PendingOn(d)' : query'[p].cost = query[p].cost
               /\ column = "used" => q \notin PendingOn(d)'
    BY <1>1, <1>6 DEF PendingOn
  <1>10. AloneInv'
    BY <1>2, <1>9 DEF CreditsInv, AloneInv
  <1>11. OverspendNeedsOverlap'
    <2>1. SUFFICES ASSUME NEW d \in CreditRows \ overlap, credit[d].amount # Infinite
                   PROVE  /\ credit'[d].used <= credit[d].amount
                          /\ \A p \in PendingOn(d)' : credit'[d].used + query'[p].cost <= credit[d].amount
      BY <1>2, <1>7 DEF OverspendNeedsOverlap
    <2>2. /\ credit[d].used <= credit[d].amount
          /\ \A p \in PendingOn(d) : credit[d].used + query[p].cost <= credit[d].amount
      BY <2>1 DEF CreditsInv, CreditsAreSound, OverspendNeedsOverlap
    <2>3. CASE d # c \/ column # "used"
      <3>1. credit'[d].used = credit[d].used
        BY <1>7, <2>3
      <3> QED
        BY <1>9, <2>2, <3>1
    <2>4. CASE d = c /\ column = "used"
      <3>1. q \in PendingOn(d)
        BY <1>2, <1>4, <2>4 DEF PendingOn
      <3>2. PendingOn(d)' = {}
        BY <1>9, <2>1, <2>4, <3>1 DEF CreditsInv, AloneInv
      <3>3. credit[d].used + cost <= credit[d].amount
        BY <2>2, <3>1 DEF cost
      <3> QED
        BY <1>7, <2>4, <3>2, <3>3
    <2> QED
      BY <2>3, <2>4
  <1>12. PendingInv'
    <2>1. ASSUME NEW p \in DOMAIN query
          PROVE  /\ query'[p].phase \in {"unsent", "asked"} => query'[p].pending = {}
                 /\ query'[p].pending # {} => \E d \in CreditRows : query'[p].row = {d}
      <3>1. CASE p = q
        BY <1>1, <1>4, <1>6, <3>1 DEF CreditsInv, PendingInv
      <3>2. CASE p # q
        BY <1>6, <3>2 DEF CreditsInv, PendingInv
      <3> QED
        BY <3>1, <3>2
    <2> QED
      BY <1>6, <2>1 DEF PendingInv
  <1>13. NotesInv'
    BY <1>2, <1>7 DEF CreditsInv, NotesInv
  <1>14. PaymentsCredited'
    BY <1>2, <1>7 DEF CreditsInv, CreditsAreSound, PaymentsCredited
  <1> QED
    BY <1>8, <1>10, <1>11, <1>12, <1>13, <1>14 DEF CreditsInv, CreditsAreSound

\* useCredit finds a credit that covers the request; when another request is
\* about to use it, they overlap.
LEMMA FindCreditKeeps ==
    ASSUME CreditsInv, NEW q \in DOMAIN query, FindCredit(q)
    PROVE  CreditsInv'
  <1>1. /\ query[q].phase = "asked" /\ UNCHANGED <<credit, receipt, notes, delivered, allowed>>
        /\ query[q].pending = {} /\ query[q] \in Request
    BY CreditsTypes DEF FindCredit, CreditsInv, PendingInv
  <1>2. PICK c \in CreditRows :
           /\ Covers(c, query[q].cost)
           /\ query' = [query EXCEPT ![q] = [query[q] EXCEPT !.phase = "paying", !.row = {c},
                                                             !.pending = {"used", "hits"}]]
           /\ overlap' = IF PendingOn(c) = {} THEN overlap ELSE overlap \cup {c}
    BY DEF FindCredit
  <1> DEFINE new == [query[q] EXCEPT !.phase = "paying", !.row = {c}, !.pending = {"used", "hits"}]
  <1>3. /\ new \in Request /\ new.row = {c} /\ new.phase = "paying" /\ new.cost = query[q].cost
    BY <1>1 DEF Request, Phases, Columns
  <1>4. query' = [query EXCEPT ![q] = new] /\ query \in [allowed.queries -> Request] /\ DOMAIN query = allowed.queries
    BY <1>2, CreditsTypes
  <1> HIDE DEF new
  <1>5. /\ query' \in [allowed.queries -> Request] /\ DOMAIN query' = DOMAIN query /\ query'[q] = new
        /\ \A p \in DOMAIN query : p # q => query'[p] = query[p]
    BY <1>3, <1>4
  <1>6. overlap \subseteq overlap' /\ overlap' \subseteq CreditRows
    BY <1>2 DEF CreditsInv, CreditsAreSound, CreditsTypeOK
  <1>7. CreditsTypeOK'
    BY <1>1, <1>5, <1>6 DEF CreditsInv, CreditsAreSound, CreditsTypeOK, Request, Phases, Columns
  <1>8. ASSUME NEW d \in CreditRows, d # c
        PROVE  PendingOn(d)' = PendingOn(d) /\ \A p \in PendingOn(d) : query'[p] = query[p]
    <2>1. q \notin PendingOn(d)
      BY <1>1 DEF PendingOn
    <2>2. q \notin PendingOn(d)'
      BY <1>3, <1>5, <1>8 DEF PendingOn
    <2> QED
      BY <1>5, <2>1, <2>2 DEF PendingOn
  <1>9. ASSUME c \notin overlap'
        PROVE  PendingOn(c)' \subseteq {q}
    <2>1. PendingOn(c) = {}
      BY <1>2, <1>9
    <2> QED
      BY <1>5, <2>1 DEF PendingOn
  <1>10. AloneInv'
    <2>1. ASSUME NEW d \in CreditRows \ overlap'
          PROVE  \A p1, p2 \in PendingOn(d)' : p1 = p2
      <3>1. CASE d = c
        BY <1>9, <2>1, <3>1
      <3>2. CASE d # c
        BY <1>6, <1>8, <2>1, <3>2 DEF CreditsInv, AloneInv
      <3> QED
        BY <3>1, <3>2
    <2> QED
      BY <2>1 DEF AloneInv
  <1>11. OverspendNeedsOverlap'
    <2>1. SUFFICES ASSUME NEW d \in CreditRows \ overlap', credit[d].amount # Infinite
                   PROVE  /\ credit[d].used <= credit[d].amount
                          /\ \A p \in PendingOn(d)' : credit[d].used + query'[p].cost <= credit[d].amount
      BY <1>1 DEF OverspendNeedsOverlap
    <2>2. /\ credit[d].used <= credit[d].amount
          /\ \A p \in PendingOn(d) : credit[d].used + query[p].cost <= credit[d].amount
      BY <1>6, <2>1 DEF CreditsInv, CreditsAreSound, OverspendNeedsOverlap
    <2>3. CASE d = c
      <3>1. credit[c].used + query[q].cost <= credit[c].amount
        <4>1. credit[c].amount >= credit[c].used + query[q].cost
          BY <1>2, <2>1, <2>3 DEF Covers
        <4>2. credit[c].amount \in Int /\ credit[c].used \in Nat /\ query[q].cost \in Nat
          BY CreditsTypes
        <4> QED
          BY <4>1, <4>2
      <3> QED
        BY <1>3, <1>5, <1>9, <2>1, <2>2, <2>3, <3>1
    <2>4. CASE d # c
      BY <1>8, <2>2, <2>4
    <2> QED
      BY <2>3, <2>4
  <1>12. PendingInv'
    <2>1. ASSUME NEW p \in DOMAIN query
          PROVE  /\ query'[p].phase \in {"unsent", "asked"} => query'[p].pending = {}
                 /\ query'[p].pending # {} => \E d \in CreditRows : query'[p].row = {d}
      <3>1. CASE p = q
        BY <1>3, <1>5, <3>1
      <3>2. CASE p # q
        BY <1>5, <3>2 DEF CreditsInv, PendingInv
      <3> QED
        BY <3>1, <3>2
    <2> QED
      BY <1>5, <2>1 DEF PendingInv
  <1>13. NotesInv' /\ PaymentsCredited'
    BY <1>1 DEF CreditsInv, CreditsAreSound, NotesInv, PaymentsCredited
  <1> QED
    BY <1>7, <1>10, <1>11, <1>12, <1>13 DEF CreditsInv, CreditsAreSound

\* A payment is made: the notification carries naturals.
LEMMA PaidKeeps ==
    ASSUME CreditsInv, NEW c \in CreditRows, NEW n \in 1 .. allowed.paid, Paid(c, n)
    PROVE  CreditsInv'
  <1>1. receipt \in [CreditRows -> Nat] /\ allowed \in CreditBounds
    BY DEF CreditsInv, CreditsAreSound, CreditsTypeOK
  <1>2. allowed.paid \in Nat
    BY <1>1, CreditsAssumption
  <1>3. n \in Nat /\ receipt[c] \in Nat /\ receipt[c] + n \in Nat
    BY <1>1, <1>2
  <1>4. receipt' \in [CreditRows -> Nat]
    BY <1>1, <1>3 DEF Paid
  <1>5. UNCHANGED <<credit, query, delivered, overlap, allowed>>
    BY DEF Paid
  <1>6. NotesInv'
    BY <1>3, <1>5 DEF Paid, CreditsInv, NotesInv
  <1>7. CreditsTypeOK'
    BY <1>4, <1>5 DEF CreditsInv, CreditsAreSound, CreditsTypeOK
  <1>8. OverspendNeedsOverlap' /\ PaymentsCredited' /\ PendingInv' /\ AloneInv'
    BY <1>5 DEF CreditsInv, CreditsAreSound, OverspendNeedsOverlap, PaymentsCredited, PendingInv,
       AloneInv,
                PendingOn
  <1> QED
    BY <1>6, <1>7, <1>8 DEF CreditsInv, CreditsAreSound

\* A notification is registered, again perhaps: the row grows by the rounded
\* payment.
LEMMA paymentWebhookKeeps ==
    ASSUME CreditsInv, NEW n \in notes, paymentWebhook(n)
    PROVE  CreditsInv'
  <1> DEFINE c == n.row
             paid == n.amount - n.previousAmount
             row == [credit[c] EXCEPT !.amount = credit[c].amount + Credited(paid)]
             tells == [delivered[c] EXCEPT !.count = delivered[c].count + 1, !.sum = delivered[c].sum + paid]
  <1>1. /\ paid > 0
        /\ credit' = [credit EXCEPT ![c].amount = @ + Credited(paid)]
        /\ delivered' = [delivered EXCEPT ![c].count = @ + 1, ![c].sum = @ + paid]
        /\ UNCHANGED <<query, receipt, notes, overlap, allowed>>
    BY DEF paymentWebhook
  <1>2. c \in CreditRows /\ n.amount \in Nat /\ n.previousAmount \in Nat /\ credit[c].amount # Infinite
    BY DEF CreditsInv, NotesInv
  <1>3. paid \in Nat
    BY <1>1, <1>2
  <1>4. Credited(paid) \in Nat
    BY <1>3, CreditedIsRounded
  <1>5. /\ credit \in [CreditRows -> Row] /\ credit[c] \in Row /\ credit[c].amount \in Nat
    BY <1>2, CreditsTypes
  <1>6. delivered \in [CreditRows -> [first : Nat \cup {Infinite}, count : Nat, sum : Nat]]
    BY DEF CreditsInv, CreditsAreSound, CreditsTypeOK
  <1>7. credit' = [credit EXCEPT ![c] = row] /\ delivered' = [delivered EXCEPT ![c] = tells]
    BY <1>1, <1>2, <1>6
  <1> HIDE DEF paid
  <1>8. /\ row \in Row /\ row.amount = credit[c].amount + Credited(paid) /\ row.used = credit[c].used
        /\ row.amount \in Nat
    BY <1>4, <1>5 DEF Row
  <1>9. /\ tells \in [first : Nat \cup {Infinite}, count : Nat, sum : Nat]
        /\ tells.first = delivered[c].first /\ tells.count = delivered[c].count + 1
        /\ tells.sum = delivered[c].sum + paid
        /\ delivered[c].first \in Int /\ delivered[c].count \in Nat /\ delivered[c].sum \in Nat
    <2>1. delivered[c] \in [first : Nat \cup {Infinite}, count : Nat, sum : Nat]
      BY <1>2, <1>6
    <2>2. /\ delivered[c].first \in Nat \cup {Infinite} /\ delivered[c].count \in Nat
          /\ delivered[c].sum \in Nat
      BY <2>1
    <2>3. delivered[c].count + 1 \in Nat /\ delivered[c].sum + paid \in Nat
      BY <1>3, <2>2
    <2>4. delivered[c].first \in Int
      BY <2>2 DEF Infinite
    <2>5. /\ tells \in [first : Nat \cup {Infinite}, count : Nat, sum : Nat]
          /\ tells.first = delivered[c].first /\ tells.count = delivered[c].count + 1
          /\ tells.sum = delivered[c].sum + paid
      BY <2>1, <2>3
    <2> QED
      BY <2>2, <2>4, <2>5
  <1> HIDE DEF row, tells
  <1>10. /\ credit' \in [CreditRows -> Row] /\ credit'[c] = row
         /\ \A d \in CreditRows : d # c => credit'[d] = credit[d] /\ delivered'[d] = delivered[d]
         /\ delivered' \in [CreditRows -> [first : Nat \cup {Infinite}, count : Nat, sum : Nat]]
         /\ delivered'[c] = tells
    <2>1. /\ credit' \in [CreditRows -> Row] /\ credit'[c] = row
          /\ \A d \in CreditRows : d # c => credit'[d] = credit[d]
      BY <1>2, <1>5, <1>7, <1>8
    <2>2. /\ delivered' \in [CreditRows -> [first : Nat \cup {Infinite}, count : Nat, sum : Nat]]
          /\ delivered'[c] = tells
          /\ \A d \in CreditRows : d # c => delivered'[d] = delivered[d]
      <3> HIDE DEF c
      <3> QED
        BY <1>2, <1>6, <1>7, <1>9
    <2> QED
      BY <2>1, <2>2
  <1>11. row.amount # Infinite
    BY <1>8 DEF Infinite
  <1>12. CreditsTypeOK'
    BY <1>1, <1>10 DEF CreditsInv, CreditsAreSound, CreditsTypeOK, Row
  <1>13. NotesInv'
    <2>1. ASSUME NEW m \in notes
          PROVE  /\ m.row \in CreditRows /\ m.amount \in Nat /\ m.previousAmount \in Nat
                 /\ credit'[m.row].amount # Infinite
      BY <1>10, <1>11 DEF CreditsInv, NotesInv
    <2> QED
      BY <1>1, <2>1 DEF NotesInv
  <1>14. \A d \in CreditRows : PendingOn(d)' = PendingOn(d)
    BY <1>1 DEF PendingOn
  <1>15. PendingInv' /\ AloneInv'
    BY <1>1, <1>14 DEF CreditsInv, PendingInv, AloneInv
  <1>16. OverspendNeedsOverlap'
    <2>1. SUFFICES ASSUME NEW d \in CreditRows \ overlap, credit'[d].amount # Infinite
                   PROVE  /\ credit'[d].used <= credit'[d].amount
                          /\ \A p \in PendingOn(d) : credit'[d].used + query[p].cost <= credit'[d].amount
      BY <1>1, <1>14 DEF OverspendNeedsOverlap
    <2>2. CASE d # c
      BY <1>10, <2>1, <2>2 DEF CreditsInv, CreditsAreSound, OverspendNeedsOverlap
    <2>3. CASE d = c
      <3>1. /\ credit[c].used <= credit[c].amount
            /\ \A p \in PendingOn(c) : credit[c].used + query[p].cost <= credit[c].amount
        BY <1>2, <2>1, <2>3 DEF CreditsInv, CreditsAreSound, OverspendNeedsOverlap
      <3>2. credit[c].used \in Nat /\ \A p \in PendingOn(c) : query[p].cost \in Nat
        BY <1>2, CreditsTypes DEF PendingOn
      <3>3. /\ credit[c].used <= credit[c].amount + Credited(paid)
            /\ \A p \in PendingOn(c) : credit[c].used + query[p].cost <= credit[c].amount + Credited(paid)
        BY <1>4, <1>5, <3>1, <3>2
      <3> QED
        BY <1>8, <1>10, <2>3, <3>3
    <2> QED
      BY <2>2, <2>3
  <1>17. PaymentsCredited'
    <2>1. ASSUME NEW d \in CreditRows, credit'[d].amount # Infinite
          PROVE  WorthPaid(credit'[d].amount, delivered'[d].first, delivered'[d].sum, delivered'[d].count)
      <3>1. CASE d # c
        <4>1. credit'[d] = credit[d] /\ delivered'[d] = delivered[d]
          BY <1>10, <3>1
        <4>2. WorthPaid(credit[d].amount, delivered[d].first, delivered[d].sum, delivered[d].count)
          BY <2>1, <4>1 DEF CreditsInv, CreditsAreSound, PaymentsCredited, WorthPaid
        <4> QED
          BY <4>1, <4>2
      <3>2. CASE d = c
        <4>1. WorthPaid(credit[c].amount, delivered[c].first, delivered[c].sum, delivered[c].count)
          BY <1>2 DEF CreditsInv, CreditsAreSound, PaymentsCredited, WorthPaid
        <4>2. WorthPaid(credit[c].amount + Credited(paid), delivered[c].first,
                        delivered[c].sum + paid, delivered[c].count + 1)
          <5>1. credit[c].amount \in Int
            BY <1>5
          <5> QED
            BY <1>3, <1>9, <4>1, <5>1, PaymentError
        <4>3. /\ credit'[d].amount = credit[c].amount + Credited(paid)
              /\ delivered'[d].sum = delivered[c].sum + paid
              /\ delivered'[d].count = delivered[c].count + 1
              /\ delivered'[d].first = delivered[c].first
          BY <1>8, <1>9, <1>10, <3>2
        <4> QED
          BY <4>2, <4>3
      <3> QED
        BY <3>1, <3>2
    <2> QED
      BY <2>1 DEF PaymentsCredited, WorthPaid
  <1> QED
    BY <1>12, <1>13, <1>15, <1>16, <1>17 DEF CreditsInv, CreditsAreSound

-----------------------------------------------------------------------------
(* The theorem.                                                            *)

\* A key's first credits.
LEMMA CreditsFirst == CreditsInit => CreditsInv
  <1> SUFFICES ASSUME CreditsInit PROVE CreditsInv
    OBVIOUS
  <1>1. PICK amounts \in CreditAmounts :
           /\ credit = [c \in CreditRows |-> [amount |-> amounts[c], used |-> 0, hits |-> 0]]
           /\ delivered = [c \in CreditRows |-> [first |-> amounts[c], count |-> 0, sum |-> 0]]
    BY DEF CreditsInit
  <1>2. /\ allowed \in CreditBounds /\ query = [q \in allowed.queries |-> Unsent]
        /\ receipt = [c \in CreditRows |-> 0] /\ notes = {} /\ overlap = {}
    BY DEF CreditsInit
  <1>3. \A c \in CreditRows : amounts[c] \in Nat \cup {Infinite} /\ amounts[c] \in Int
    BY <1>1, CreditsAssumption DEF Infinite
  <1>4. CreditsTypeOK
    BY <1>1, <1>2, <1>3 DEF CreditsTypeOK, Unsent
  <1>5. \A c \in CreditRows : PendingOn(c) = {}
    BY <1>2 DEF PendingOn, Unsent
  <1>6. OverspendNeedsOverlap
    <2>1. ASSUME NEW c \in CreditRows, credit[c].amount # Infinite
          PROVE  credit[c].used <= credit[c].amount
      BY <1>1, <1>3, <2>1
    <2> QED
      BY <1>5, <2>1 DEF OverspendNeedsOverlap
  <1>7. PaymentsCredited
    <2>1. ScaleNum \in Nat /\ ScaleDen \in Nat
      BY CreditsAssumption
    <2>2. \A c \in CreditRows : /\ credit[c].amount - delivered[c].first = 0
                                /\ delivered[c].sum = 0 /\ delivered[c].count = 0
      BY <1>1, <1>3
    <2>3. 0 * ScaleNum = 0 /\ 0 * ScaleDen = 0
      BY <2>1
    <2> QED
      BY <2>2, <2>3 DEF PaymentsCredited
  <1>8. NotesInv /\ PendingInv /\ AloneInv
    BY <1>2, <1>5 DEF NotesInv, PendingInv, AloneInv, Unsent
  <1> QED
    BY <1>4, <1>6, <1>7, <1>8 DEF CreditsInv, CreditsAreSound

\* Every step.
LEMMA CreditsStep == CreditsInv /\ [CreditsNext]_creditsVars => CreditsInv'
  <1> SUFFICES ASSUME CreditsInv, [CreditsNext]_creditsVars PROVE CreditsInv'
    OBVIOUS
  <1>1. ASSUME NEW q \in DOMAIN query, NEW n \in Intervals, Query(q, n)
        PROVE  CreditsInv'
    BY <1>1, QueryKeeps
  <1>2. ASSUME NEW q \in DOMAIN query, FindCredit(q)
        PROVE  CreditsInv'
    BY <1>2, FindCreditKeeps
  <1>3. ASSUME NEW q \in DOMAIN query, NoCredit(q) \/ Answered(q)
        PROVE  CreditsInv'
    BY <1>3, PhaseKeeps DEF NoCredit, Answered, Phases
  <1>4. ASSUME NEW q \in DOMAIN query, NEW column \in {"used", "hits"}, Increment(q, column)
        PROVE  CreditsInv'
    BY <1>4, IncrementKeeps DEF Columns
  <1>5. ASSUME NEW q \in DOMAIN query, NEW column \in {"used", "hits"}, IncrementFails(q, column)
        PROVE  CreditsInv'
    BY <1>5, IncrementFailsKeeps
  <1>6. ASSUME NEW c \in CreditRows, NEW n \in 1 .. allowed.paid, Paid(c, n)
        PROVE  CreditsInv'
    BY <1>6, PaidKeeps
  <1>7. ASSUME NEW n \in notes, paymentWebhook(n)
        PROVE  CreditsInv'
    BY <1>7, paymentWebhookKeeps
  <1>8. CASE UNCHANGED creditsVars
    BY <1>8 DEF creditsVars, CreditsInv, CreditsAreSound, CreditsTypeOK, OverspendNeedsOverlap,
       PaymentsCredited,
       NotesInv, PendingInv, AloneInv, PendingOn
  <1> QED
    BY <1>1, <1>2, <1>3, <1>4, <1>5, <1>6, <1>7, <1>8 DEF CreditsNext

(***************************************************************************)
(* AccountKey.useCredit and paymentWebhook: the numbers keep their types,  *)
(* a finite credit is overspent only when requests overlapped on it, and   *)
(* what was paid is what was credited, to half a credit for each           *)
(* registered payment, for every scale and however often a notification is *)
(* delivered.                                                              *)
(***************************************************************************)
THEOREM CreditsHold == CreditsSpec => []CreditsAreSound
  <1>1. CreditsInv => CreditsAreSound
    BY DEF CreditsInv
  <1> QED
    BY <1>1, CreditsFirst, CreditsStep, PTL DEF CreditsSpec

-----------------------------------------------------------------------------
(* Webhooks: the filters.                                                  *)

HookColumns == {"contracts", "key", "sets", "first"}

\* What is in a column, and the code id sets, when the writes left to u are made.
ColumnAfter(h, u, c) ==
    IF "save" \in u.left /\ c \in DOMAIN u.columns THEN u.columns[c] ELSE h[c]

SetsAfter(h, u) ==
    (IF "remove" \in u.left THEN h.sets \cap u.sets ELSE h.sets)
        \cup (IF "add" \in u.left THEN u.sets ELSE {})

WillFilter(h, u) ==
    \/ ColumnAfter(h, u, "contracts") # NoFilter
    \/ ColumnAfter(h, u, "key") # NoFilter
    \/ SetsAfter(h, u) # {}

\* A call that is alone leaves a filter, of sets that exist, and has one before it
\* saves.
Promise(h, u, existing) ==
    /\ WillFilter(h, u)
    /\ u.left # {} /\ u.left \subseteq {"save", "remove", "add"}
    /\ "sets" \notin DOMAIN u.columns
    /\ "save" \in u.left => Filtered(h)
    /\ "add" \in u.left => u.sets \subseteq existing

\* A row, and the calls at it.
RowOK(hk, ed) ==
    /\ hk # <<>> => hk = <<hk[1]>> /\ DOMAIN hk[1] = HookColumns
    /\ hk = <<>> => ed = {}
    /\ \A u \in ed : DOMAIN u = {"columns", "sets", "left"}

\* A row that nothing unsettled.
Settling(hk, ed, existing) ==
    hk # <<>> => \/ ed = {} /\ Filtered(hk[1])
                 \/ \E u \in ed : ed = {u} /\ Promise(hk[1], u, existing)

FilterInv ==
    /\ DOMAIN sets = CodeIdSets /\ DOMAIN hook = Hooks /\ DOMAIN edit = Hooks
    /\ \A w \in Hooks : RowOK(hook[w], edit[w])
    /\ \A w \in Hooks \ unsettled : Settling(hook[w], edit[w], Existing)

\* More sets do not disturb a call.
LEMMA MoreSets ==
  ASSUME NEW a, NEW b, a \subseteq b, NEW hk, NEW ed, Settling(hk, ed, a)
  PROVE  Settling(hk, ed, b)
BY DEF Settling, Promise

\* At first there are no webhooks.
LEMMA FilterInit == WebhooksInit => FilterInv
BY DEF WebhooksInit, FilterInv, RowOK, Settling

\* A webhook has the four columns.
LEMMA FilterColumns ==
  ASSUME NEW f \in Filters
  PROVE  DOMAIN f = HookColumns /\ f.sets \subseteq CodeIdSets
BY DEF Filters, HookColumns

\* A call that starts on its own.
LEMMA CallFields ==
  ASSUME NEW columns, NEW codeIdSets, NEW left
  PROVE  LET u == Writes(columns, codeIdSets, left)
         IN  /\ DOMAIN u = {"columns", "sets", "left"}
             /\ u.columns = columns /\ u.sets = codeIdSets /\ u.left = left
BY DEF Writes

\* createWebhook needs a filter, which its row has at once or with its sets.
LEMMA CreateFilter ==
  ASSUME FilterInv, NEW w \in Hooks, createWebhook(w)
  PROVE  FilterInv'
<1>1. UNCHANGED <<sets, unsettled>> /\ hook[w] = <<>>
  BY DEF createWebhook
<1>2. PICK f \in Filters :
          /\ f.sets \subseteq Existing /\ Filtered(f)
          /\ hook' = [hook EXCEPT ![w] = <<[f EXCEPT !.sets = {}]>>]
          /\ edit' = [edit EXCEPT ![w] = IF f.sets = {} THEN {} ELSE {Writes(<<>>, f.sets, {"add"})}]
  BY DEF createWebhook, Bodies
<1> DEFINE h == [f EXCEPT !.sets = {}]
           u == Writes(<<>>, f.sets, {"add"})
           calls == IF f.sets = {} THEN {} ELSE {u}
<1>3. DOMAIN h = HookColumns /\ h.contracts = f.contracts /\ h.key = f.key /\ h.sets = {}
  BY FilterColumns DEF HookColumns
<1>4. DOMAIN u = {"columns", "sets", "left"} /\ u.columns = <<>> /\ u.sets = f.sets /\ u.left = {"add"}
  BY CallFields
<1> HIDE DEF h, u
<1>5. /\ hook'[w] = <<h>> /\ hook'[w][1] = h /\ hook'[w] # <<>> /\ edit'[w] = calls
      /\ DOMAIN hook' = Hooks /\ DOMAIN edit' = Hooks
      /\ \A v \in Hooks : v # w => hook'[v] = hook[v] /\ edit'[v] = edit[v]
  <2>1. hook' = [hook EXCEPT ![w] = <<h>>] /\ edit' = [edit EXCEPT ![w] = calls]
    BY <1>2 DEF h, u
  <2> QED
    BY <2>1 DEF FilterInv
<1>6. RowOK(hook'[w], edit'[w])
  BY <1>3, <1>4, <1>5 DEF RowOK
<1>7. Settling(hook'[w], edit'[w], Existing)
  <2>1. CASE f.sets = {}
    BY <1>2, <1>3, <1>5, <2>1 DEF Settling, Filtered
  <2>2. CASE f.sets # {}
    <3>1. SetsAfter(h, u) = f.sets
      BY <1>3, <1>4 DEF SetsAfter
    <3>2. "sets" \notin DOMAIN u.columns
      BY <1>4
    <3>3. Promise(h, u, Existing)
      BY <1>2, <1>4, <2>2, <3>1, <3>2 DEF Promise, WillFilter
    <3> QED
      BY <1>5, <2>2, <3>3 DEF Settling
  <2> QED
    BY <2>1, <2>2
<1> QED
  BY <1>1, <1>5, <1>6, <1>7 DEF FilterInv, Existing

\* The first call under way leaves a filter if it is saved to the row it was
\* checked against; a second one unsettles the webhook.
LEMMA UpdateFilter ==
  ASSUME FilterInv, NEW w \in Hooks, updateWebhook(w)
  PROVE  FilterInv'
<1>1. UNCHANGED <<sets, hook>> /\ hook[w] # <<>>
      /\ unsettled' = IF edit[w] = {} THEN unsettled ELSE unsettled \cup {w}
  BY DEF updateWebhook
<1> DEFINE h == hook[w][1]
<1>2. PICK f \in Filters, cols \in SUBSET bound.columns :
          LET changed == {c \in cols \ {"sets"} : f[c] # h[c]}
              given == IF "sets" \in cols THEN f.sets ELSE {}
              left == {"save"} \cup (IF "sets" \in cols THEN {"remove", "add"} ELSE {})
          IN  /\ "sets" \in cols => f.sets \subseteq Existing
              /\ Filtered([c \in DOMAIN f |-> IF c \in cols THEN f[c] ELSE h[c]])
              /\ edit' = [edit EXCEPT ![w] = @ \cup {Writes([c \in changed |-> f[c]], given, left)}]
  BY DEF updateWebhook, Bodies
<1> DEFINE changed == {c \in cols \ {"sets"} : f[c] # h[c]}
           given == IF "sets" \in cols THEN f.sets ELSE {}
           left == {"save"} \cup (IF "sets" \in cols THEN {"remove", "add"} ELSE {})
           columns == [c \in changed |-> f[c]]
           u == Writes(columns, given, left)
           whole == [c \in DOMAIN f |-> IF c \in cols THEN f[c] ELSE h[c]]
<1>3. DOMAIN f = HookColumns
  BY FilterColumns
<1>4. DOMAIN u = {"columns", "sets", "left"} /\ u.columns = columns /\ u.sets = given /\ u.left = left
  BY CallFields
<1> HIDE DEF u
<1>5. /\ DOMAIN edit' = Hooks /\ \A v \in Hooks : v # w => edit'[v] = edit[v]
      /\ edit'[w] = edit[w] \cup {u}
  BY <1>2 DEF FilterInv, u
<1>6. RowOK(hook[w], edit'[w])
  BY <1>1, <1>4, <1>5 DEF FilterInv, RowOK
<1>7. ASSUME w \notin unsettled' PROVE Settling(hook[w], edit'[w], Existing)
  <2>1. edit[w] = {} /\ w \notin unsettled /\ edit'[w] = {u}
    BY <1>1, <1>5, <1>7
  <2>2. Filtered(h)
    BY <1>1, <2>1 DEF FilterInv, Settling
  <2>3. /\ ColumnAfter(h, u, "contracts") = whole.contracts
        /\ ColumnAfter(h, u, "key") = whole.key
    BY <1>3, <1>4 DEF ColumnAfter, HookColumns
  <2>4. SetsAfter(h, u) = whole.sets
    BY <1>3, <1>4 DEF SetsAfter, HookColumns
  <2>5. WillFilter(h, u)
    BY <1>2, <2>3, <2>4 DEF WillFilter, Filtered
  <2>6. "sets" \notin DOMAIN u.columns /\ u.left # {} /\ u.left \subseteq {"save", "remove", "add"}
    BY <1>4
  <2>7. "add" \in u.left => u.sets \subseteq Existing
    BY <1>2, <1>4
  <2> QED
    BY <2>1, <2>2, <2>5, <2>6, <2>7 DEF Settling, Promise
<1> QED
  BY <1>1, <1>5, <1>6, <1>7 DEF FilterInv, Existing

\* A write of u that keeps what the row will be keeps the promise.
Written(w, u, write, h) ==
    /\ u \in edit[w] /\ write \in u.left
    /\ hook' = [hook EXCEPT ![w] = <<h>>]
    /\ edit' = [edit EXCEPT ![w] = After(@, u, write)]
    /\ UNCHANGED <<sets, unsettled>>

LEMMA WrittenFilter ==
  ASSUME FilterInv, NEW w \in Hooks, NEW u, NEW write, NEW h, Written(w, u, write, h),
         DOMAIN h = HookColumns, write = "save" \/ "save" \notin u.left,
         w \notin unsettled /\ Promise(hook[w][1], u, Existing) =>
             WillFilter(h, [u EXCEPT !.left = @ \ {write}])
  PROVE  FilterInv'
<1> DEFINE rest == [u EXCEPT !.left = @ \ {write}]
<1>1. /\ u \in edit[w] /\ write \in u.left /\ hook[w] # <<>>
      /\ DOMAIN u = {"columns", "sets", "left"} /\ UNCHANGED <<sets, unsettled>>
  BY DEF FilterInv, RowOK, Written
<1>2. /\ rest.left = u.left \ {write} /\ rest.sets = u.sets /\ rest.columns = u.columns
      /\ DOMAIN rest = {"columns", "sets", "left"}
  BY <1>1
<1> HIDE DEF rest
<1>3. After(edit[w], u, write) = (edit[w] \ {u}) \cup (IF u.left = {write} THEN {} ELSE {rest})
  BY DEF After, rest
<1>4. /\ DOMAIN hook' = Hooks /\ DOMAIN edit' = Hooks
      /\ hook'[w] = <<h>> /\ hook'[w][1] = h /\ hook'[w] # <<>>
      /\ edit'[w] = After(edit[w], u, write)
      /\ \A v \in Hooks : v # w => hook'[v] = hook[v] /\ edit'[v] = edit[v]
  BY DEF FilterInv, Written
<1>5. RowOK(hook'[w], edit'[w])
  <2>1. \A v \in edit[w] : DOMAIN v = {"columns", "sets", "left"}
    BY DEF FilterInv, RowOK
  <2> QED
    BY <1>2, <1>3, <1>4, <2>1 DEF RowOK
<1>6. ASSUME w \notin unsettled PROVE Settling(hook'[w], edit'[w], Existing)
  <2>1. edit[w] = {u} /\ Promise(hook[w][1], u, Existing)
    BY <1>1, <1>6 DEF FilterInv, Settling
  <2>2. WillFilter(h, rest)
    BY <1>6, <2>1 DEF rest
  <2>3. "save" \notin rest.left
    BY <1>2
  <2>4. CASE u.left = {write}
    <3>1. rest.left = {} /\ edit'[w] = {}
      BY <1>2, <1>3, <1>4, <2>1, <2>4
    <3>2. Filtered(h)
      BY <2>2, <3>1 DEF WillFilter, ColumnAfter, SetsAfter, Filtered
    <3> QED
      BY <1>4, <3>1, <3>2 DEF Settling
  <2>5. CASE u.left # {write}
    <3>1. edit'[w] = {rest}
      BY <1>3, <1>4, <2>1, <2>5
    <3>2. rest.left # {} /\ rest.left \subseteq {"save", "remove", "add"}
      BY <1>1, <1>2, <2>1, <2>5 DEF Promise
    <3>3. Promise(h, rest, Existing)
      BY <1>2, <2>1, <2>2, <2>3, <3>2 DEF Promise
    <3> QED
      BY <1>4, <3>1, <3>3 DEF Settling
  <2> QED
    BY <2>4, <2>5
<1> QED
  BY <1>1, <1>4, <1>5, <1>6 DEF FilterInv, Existing

\* The columns.
LEMMA SaveFilter ==
  ASSUME FilterInv, NEW w \in Hooks, SaveColumns(w)
  PROVE  FilterInv'
<1>1. PICK u \in edit[w] :
          /\ "save" \in u.left
          /\ hook' = [hook EXCEPT ![w] = <<WithColumns(hook[w][1], u.columns)>>]
          /\ edit' = [edit EXCEPT ![w] = After(@, u, "save")]
  BY DEF SaveColumns
<1> DEFINE h == hook[w][1]
           new == WithColumns(h, u.columns)
           rest == [u EXCEPT !.left = @ \ {"save"}]
<1>2. DOMAIN h = HookColumns /\ DOMAIN u = {"columns", "sets", "left"}
  BY <1>1 DEF FilterInv, RowOK
<1>3. rest.left = u.left \ {"save"} /\ rest.sets = u.sets
  BY <1>2
<1>4. DOMAIN new = HookColumns
  BY <1>2 DEF WithColumns
<1>5. ASSUME Promise(h, u, Existing) PROVE WillFilter(new, rest)
  <2>1. /\ new.contracts = ColumnAfter(h, u, "contracts") /\ new.key = ColumnAfter(h, u, "key")
        /\ new.sets = h.sets
    BY <1>1, <1>2, <1>5 DEF WithColumns, ColumnAfter, HookColumns, Promise
  <2> HIDE DEF new, rest
  <2>2. /\ ColumnAfter(new, rest, "contracts") = new.contracts
        /\ ColumnAfter(new, rest, "key") = new.key
    BY <1>3 DEF ColumnAfter
  <2>3. SetsAfter(new, rest) = SetsAfter(h, u)
    BY <1>3, <2>1 DEF SetsAfter
  <2> QED
    BY <1>5, <2>1, <2>2, <2>3 DEF WillFilter, Promise
<1> HIDE DEF new
<1>6. Written(w, u, "save", new)
  BY <1>1 DEF Written, SaveColumns, new
<1> QED
  BY <1>4, <1>5, <1>6, WrittenFilter

\* The sets to take out, or to add when they exist.
LEMMA SetsFilter ==
  ASSUME FilterInv, NEW w \in Hooks, NEW u \in edit[w], NEW write \in {"remove", "add"},
         NEW now, "save" \notin u.left,
         Written(w, u, write, [hook[w][1] EXCEPT !.sets = now]),
         write = "remove" => now = hook[w][1].sets \cap u.sets,
         write = "add" /\ u.sets \subseteq Existing => now = hook[w][1].sets \cup u.sets
  PROVE  FilterInv'
<1> DEFINE h == hook[w][1]
           new == [h EXCEPT !.sets = now]
           rest == [u EXCEPT !.left = @ \ {write}]
<1>1. DOMAIN h = HookColumns /\ DOMAIN u = {"columns", "sets", "left"} /\ write \in u.left
  BY DEF FilterInv, RowOK, Written
<1>2. rest.left = u.left \ {write} /\ rest.sets = u.sets
  BY <1>1
<1>3. DOMAIN new = HookColumns /\ new.contracts = h.contracts /\ new.key = h.key /\ new.sets = now
  BY <1>1 DEF HookColumns
<1> HIDE DEF new, rest
<1>4. ASSUME Promise(h, u, Existing) PROVE WillFilter(new, rest)
  <2>1. /\ ColumnAfter(new, rest, "contracts") = ColumnAfter(h, u, "contracts")
        /\ ColumnAfter(new, rest, "key") = ColumnAfter(h, u, "key")
    BY <1>2, <1>3 DEF ColumnAfter
  <2>2. write = "add" => now = h.sets \cup u.sets
    BY <1>1, <1>4 DEF Promise
  <2>3. SetsAfter(h, u) \subseteq SetsAfter(new, rest)
    BY <1>1, <1>2, <1>3, <2>2 DEF SetsAfter
  <2> QED
    BY <1>4, <2>1, <2>3 DEF WillFilter, Promise
<1>5. Written(w, u, write, new)
  BY DEF new
<1> QED
  BY <1>3, <1>4, <1>5, WrittenFilter DEF rest

LEMMA RemoveFilter ==
  ASSUME FilterInv, NEW w \in Hooks, RemoveSets(w)
  PROVE  FilterInv'
<1>1. PICK u \in edit[w] :
          /\ "save" \notin u.left /\ "remove" \in u.left
          /\ hook' = [hook EXCEPT ![w] = <<[hook[w][1] EXCEPT !.sets = @ \cap u.sets]>>]
          /\ edit' = [edit EXCEPT ![w] = After(@, u, "remove")]
  BY DEF RemoveSets
<1>2. Written(w, u, "remove", [hook[w][1] EXCEPT !.sets = hook[w][1].sets \cap u.sets])
  BY <1>1 DEF Written, RemoveSets
<1> QED
  BY <1>1, <1>2, SetsFilter

LEMMA AddFilter ==
  ASSUME FilterInv, NEW w \in Hooks, AddSets(w)
  PROVE  FilterInv'
<1>1. PICK u \in edit[w] :
          /\ "save" \notin u.left /\ "add" \in u.left
          /\ LET new == IF u.sets \subseteq Existing THEN u.sets ELSE {}
             IN  hook' = [hook EXCEPT ![w] = <<[hook[w][1] EXCEPT !.sets = @ \cup new]>>]
          /\ edit' = [edit EXCEPT ![w] = After(@, u, "add")]
  BY DEF AddSets
<1> DEFINE now == hook[w][1].sets \cup (IF u.sets \subseteq Existing THEN u.sets ELSE {})
<1>2. Written(w, u, "add", [hook[w][1] EXCEPT !.sets = now])
  BY <1>1 DEF Written, AddSets
<1>3. u.sets \subseteq Existing => now = hook[w][1].sets \cup u.sets
  OBVIOUS
<1> HIDE DEF now
<1> QED
  BY <1>1, <1>2, <1>3, SetsFilter

\* A call that stops before it saves leaves the row it found.
LEMMA CutFilter ==
  ASSUME FilterInv, NEW w \in Hooks, CutShort(w)
  PROVE  FilterInv'
<1>1. UNCHANGED <<sets, hook>>
  BY DEF CutShort
<1>2. PICK u \in edit[w] :
          /\ edit' = [edit EXCEPT ![w] = @ \ {u}]
          /\ unsettled' = IF "save" \in u.left THEN unsettled ELSE unsettled \cup {w}
  BY DEF CutShort
<1>3. /\ DOMAIN edit' = Hooks /\ edit'[w] = edit[w] \ {u}
      /\ \A v \in Hooks : v # w => edit'[v] = edit[v]
  BY <1>2 DEF FilterInv
<1>4. RowOK(hook[w], edit'[w])
  BY <1>3 DEF FilterInv, RowOK
<1>5. ASSUME w \notin unsettled' PROVE Settling(hook[w], edit'[w], Existing)
  <2>1. w \notin unsettled /\ "save" \in u.left
    BY <1>2, <1>5
  <2>2. hook[w] # <<>> => edit[w] = {u} /\ Promise(hook[w][1], u, Existing)
    BY <2>1 DEF FilterInv, Settling
  <2> QED
    BY <1>3, <2>1, <2>2 DEF Settling, Promise
<1>6. unsettled \subseteq unsettled'
  BY <1>2
<1> QED
  BY <1>1, <1>3, <1>4, <1>5, <1>6 DEF FilterInv, Existing

\* A deleted webhook has no row and no calls.
LEMMA DeleteFilter ==
  ASSUME FilterInv, NEW w \in Hooks, deleteWebhook(w)
  PROVE  FilterInv'
<1>1. /\ UNCHANGED sets /\ unsettled' = unsettled \ {w}
      /\ hook' = [hook EXCEPT ![w] = <<>>]
      /\ edit' = [edit EXCEPT ![w] = {}]
  BY DEF deleteWebhook
<1>2. /\ DOMAIN hook' = Hooks /\ \A v \in Hooks : v # w => hook'[v] = hook[v]
      /\ DOMAIN edit' = Hooks /\ \A v \in Hooks : v # w => edit'[v] = edit[v]
      /\ hook'[w] = <<>> /\ edit'[w] = {}
  BY <1>1 DEF FilterInv
<1>3. RowOK(hook'[w], edit'[w]) /\ Settling(hook'[w], edit'[w], Existing)
  BY <1>2 DEF RowOK, Settling
<1> QED
  BY <1>1, <1>2, <1>3 DEF FilterInv, Existing

\* A new or changed set stays usable.
LEMMA CodeSetFilter ==
  ASSUME FilterInv, NEW s \in CodeIdSets, createCodeIdSet(s) \/ updateCodeIdSet(s)
  PROVE  FilterInv'
<1>1. UNCHANGED <<hook, edit, unsettled>>
  BY DEF createCodeIdSet, updateCodeIdSet
<1>2. PICK ids : ids # {} /\ sets' = [sets EXCEPT ![s] = ids]
  BY DEF createCodeIdSet, updateCodeIdSet
<1>3. DOMAIN sets' = CodeIdSets /\ Existing \subseteq Existing'
  BY <1>2 DEF FilterInv, Existing
<1>4. \A w \in Hooks \ unsettled : Settling(hook[w], edit[w], Existing')
  BY <1>3, MoreSets DEF FilterInv
<1> QED
  BY <1>1, <1>3, <1>4 DEF FilterInv

\* Deleting a set leaves alone the webhooks that did not use it.
LEMMA DeleteSetFilter ==
  ASSUME FilterInv, NEW s \in CodeIdSets, deleteCodeIdSet(s)
  PROVE  FilterInv'
<1> DEFINE RowAfter(w) == IF hook[w] = <<>> THEN <<>> ELSE <<[hook[w][1] EXCEPT !.sets = @ \ {s}]>>
<1>1. /\ UNCHANGED edit /\ sets' = [sets EXCEPT ![s] = {}]
      /\ hook' = [w \in Hooks |-> RowAfter(w)]
      /\ unsettled' = unsettled \cup
            {w \in Hooks : (hook[w] # <<>> /\ s \in hook[w][1].sets) \/ edit[w] # {}}
  BY DEF deleteCodeIdSet
<1>2. DOMAIN sets' = CodeIdSets
  BY <1>1 DEF FilterInv
<1>3. ASSUME NEW w \in Hooks
      PROVE  /\ RowOK(RowAfter(w), edit[w])
             /\ w \notin unsettled' => Settling(RowAfter(w), edit[w], Existing')
  <2>1. RowOK(hook[w], edit[w])
    BY DEF FilterInv
  <2>2. CASE hook[w] = <<>>
    BY <2>1, <2>2 DEF RowOK, Settling
  <2>3. CASE hook[w] # <<>>
    <3> DEFINE h == hook[w][1]
               row == [h EXCEPT !.sets = @ \ {s}]
    <3>1. DOMAIN h = HookColumns /\ DOMAIN row = HookColumns
      BY <2>1, <2>3 DEF RowOK
    <3>2. row.contracts = h.contracts /\ row.key = h.key /\ row.sets = h.sets \ {s}
      BY <3>1 DEF HookColumns
    <3> HIDE DEF row
    <3>3. RowAfter(w) = <<row>>
      BY <2>3 DEF row
    <3>4. RowAfter(w)[1] = row /\ RowAfter(w) # <<>>
      BY <3>3
    <3>5. RowOK(RowAfter(w), edit[w])
      BY <2>1, <3>1, <3>3, <3>4 DEF RowOK
    <3>6. ASSUME w \notin unsettled' PROVE Settling(RowAfter(w), edit[w], Existing')
      <4>1. w \notin unsettled /\ s \notin h.sets /\ edit[w] = {}
        BY <1>1, <2>3, <3>6
      <4>2. Filtered(h)
        BY <2>3, <4>1 DEF FilterInv, Settling
      <4>3. Filtered(row)
        BY <3>2, <4>1, <4>2 DEF Filtered
      <4> QED
        BY <3>4, <4>1, <4>3 DEF Settling
    <3> QED
      BY <3>5, <3>6
  <2> QED
    BY <2>2, <2>3
<1> HIDE DEF RowAfter
<1> QED
  BY <1>1, <1>2, <1>3 DEF FilterInv

\* Every step keeps the filters.
LEMMA FilterStep == FilterInv /\ [WebhooksNext]_webhookVars => FilterInv'
<1> SUFFICES ASSUME FilterInv, [WebhooksNext]_webhookVars PROVE FilterInv'
  OBVIOUS
<1>1. ASSUME NEW w \in Hooks, createWebhook(w) PROVE FilterInv'
  BY <1>1, CreateFilter
<1>2. ASSUME NEW w \in Hooks, updateWebhook(w) PROVE FilterInv'
  BY <1>2, UpdateFilter
<1>3. ASSUME NEW w \in Hooks, SaveColumns(w) \/ RemoveSets(w) \/ AddSets(w) \/ CutShort(w)
      PROVE  FilterInv'
  BY <1>3, SaveFilter, RemoveFilter, AddFilter, CutFilter
<1>4. ASSUME NEW w \in Hooks, deleteWebhook(w) PROVE FilterInv'
  BY <1>4, DeleteFilter
<1>5. ASSUME NEW s \in CodeIdSets, createCodeIdSet(s) \/ updateCodeIdSet(s) PROVE FilterInv'
  BY <1>5, CodeSetFilter
<1>6. ASSUME NEW s \in CodeIdSets, deleteCodeIdSet(s) PROVE FilterInv'
  BY <1>6, DeleteSetFilter
<1>7. CASE UNCHANGED <<sets, hook, edit, unsettled>>
  BY <1>7 DEF FilterInv, Existing
<1>8. queueWebhooks \/ ScriptStops \/ Fire \/ (\E e \in DOMAIN event : fireWebhookEvent(e))
        \/ UNCHANGED webhookVars
      => UNCHANGED <<sets, hook, edit, unsettled>>
  BY DEF queueWebhooks, ScriptStops, Fire, FireBatch, StoreAttempt, StoreStatus, fireWebhookEvent,
         webhookVars
<1> QED
  BY <1>1, <1>2, <1>3, <1>4, <1>5, <1>6, <1>7, <1>8 DEF WebhooksNext

-----------------------------------------------------------------------------
(* Webhooks: the attempts at an event.                                     *)

Statuses == {"pending", "retrying", "success", "failure", "gone"}
Open == {"pending", "retrying"}

EventRecord == [hook : Hooks, status : Statuses, attempts : Seq(BOOLEAN)]
FiringRecord == [event : Nat, by : {"script", "hand"}, status : Statuses, seen : Nat,
                 phase : {"request", "store"}, ok : BOOLEAN]

FireTypeOK ==
    /\ event \in Seq(EventRecord)
    /\ autos \in Seq(Nat) /\ Len(autos) = Len(event)
    /\ counts \in [edits : Nat, exports : Nat, fires : Nat, stops : Nat]
    /\ \A f \in firing : f \in FiringRecord /\ f.event \in 1..Len(event)

\* By hand and by the script an event is fired once at a time.
OneFiring(fi) == \A f, g \in fi : f.event = g.event /\ f.by = g.by => f = g

InHand(fi, e) == \E f \in fi : f.by = "hand" /\ f.event = e
InScript(fi, e, p) == \E f \in fi : f.by = "script" /\ f.event = e /\ f.phase = p

\* The attempts the script may have made at an event that is open: one more for each
\* stop, and for each firing by hand that is over.
Spare(fi, e, fires, stops) ==
    MAX_ATTEMPTS + stops + (IF InHand(fi, e) THEN fires - 1 ELSE fires)

\* What is known of an event that the script tried n times.
EventKnown(x, n, fi, e, fires, stops) ==
    /\ n <= Len(x.attempts)
    /\ n <= Spare(fi, e, fires, stops) + 1
    /\ InScript(fi, e, "request") \/ (x.status \in Open /\ ~InScript(fi, e, "store")) =>
           n <= Spare(fi, e, fires, stops)
    /\ x.status = "failure" => Len(x.attempts) > MAX_ATTEMPTS

\* What is known of a firing of an event that the script tried n times.
FiringKnown(f, x, n, fires) ==
    /\ IF f.phase = "request" THEN f.seen <= Len(x.attempts) ELSE f.seen < Len(x.attempts)
    /\ f.by = "hand" => fires >= 1
    /\ f.by = "script" => f.status \in Open /\ n <= IF f.phase = "request" THEN f.seen ELSE f.seen + 1

FireInv ==
    /\ FireTypeOK
    /\ OneFiring(firing)
    /\ \A e \in 1..Len(event) :
           EventKnown(event[e], autos[e], firing, e, counts.fires, counts.stops)
    /\ \A f \in firing : FiringKnown(f, event[f.event], autos[f.event], counts.fires)

\* The types of the parts.
LEMMA FireTypes ==
  ASSUME FireTypeOK
  PROVE  /\ Len(event) \in Nat /\ DOMAIN event = 1..Len(event) /\ DOMAIN autos = 1..Len(event)
         /\ \A e \in 1..Len(event) : /\ event[e] \in EventRecord /\ event[e].attempts \in Seq(BOOLEAN)
                                     /\ Len(event[e].attempts) \in Nat /\ autos[e] \in Nat
         /\ counts.fires \in Nat /\ counts.stops \in Nat
<1>1. /\ Len(event) \in Nat /\ DOMAIN event = 1..Len(event) /\ DOMAIN autos = 1..Len(event)
  BY LenProperties DEF FireTypeOK
<1>2. \A e \in 1..Len(event) : event[e] \in EventRecord /\ autos[e] \in Nat
  BY ElementOfSeq DEF FireTypeOK
<1>3. \A e \in 1..Len(event) : event[e].attempts \in Seq(BOOLEAN)
  BY <1>2 DEF EventRecord
<1>4. \A e \in 1..Len(event) : Len(event[e].attempts) \in Nat
  BY <1>3, LenProperties
<1> QED
  BY <1>1, <1>2, <1>3, <1>4 DEF FireTypeOK

\* The bound is a number, and not below what the firings by hand leave.
LEMMA SpareIs ==
  ASSUME NEW fi, NEW e, NEW fires \in Nat, NEW stops \in Nat, \A f \in fi : f.by = "hand" => fires >= 1
  PROVE  /\ Spare(fi, e, fires, stops) \in Nat
         /\ Spare(fi, e, fires, stops) >= MAX_ATTEMPTS
         /\ Spare(fi, e, fires, stops) <= MAX_ATTEMPTS + stops + fires
         /\ Spare(fi, e, fires, stops) = MAX_ATTEMPTS + stops + (IF InHand(fi, e) THEN fires - 1 ELSE fires)
<1>1. InHand(fi, e) => fires >= 1
  BY DEF InHand
<1>2. MAX_ATTEMPTS \in Nat
  BY WebhooksAssumption
<1> QED
  BY <1>1, <1>2 DEF Spare

\* Firings that end leave as many spare attempts or more, one more when a firing by
\* hand was the last one.
LEMMA SpareGrows ==
  ASSUME NEW fi, NEW fi2 \in SUBSET fi, NEW e, NEW fires \in Nat, NEW stops \in Nat,
         \A f \in fi : f.by = "hand" => fires >= 1
  PROVE  /\ Spare(fi, e, fires, stops) \in Nat /\ Spare(fi2, e, fires, stops) \in Nat
         /\ Spare(fi, e, fires, stops) <= Spare(fi2, e, fires, stops)
         /\ InHand(fi, e) /\ ~InHand(fi2, e) =>
                Spare(fi2, e, fires, stops) = Spare(fi, e, fires, stops) + 1
<1>1. InHand(fi2, e) => InHand(fi, e)
  BY DEF InHand
<1>2. MAX_ATTEMPTS \in Nat
  BY WebhooksAssumption
<1>3. Spare(fi, e, fires, stops) \in Nat
  BY SpareIs
<1>4. Spare(fi2, e, fires, stops) \in Nat
  BY SpareIs
<1> QED
  BY <1>1, <1>2, <1>3, <1>4 DEF Spare

\* An event whose firings stay the same, with more firings by hand or stops elsewhere.
LEMMA OtherEvent ==
  ASSUME NEW x, NEW n \in Nat, NEW fi, NEW fi2, NEW e,
         NEW fires \in Nat, NEW stops \in Nat, NEW fires2 \in Nat, NEW stops2 \in Nat,
         \A f \in fi : f.by = "hand" => fires >= 1,
         fires <= fires2, stops <= stops2,
         \A f \in fi : f.event = e => f \in fi2,
         \A f \in fi2 : f.event = e => f \in fi,
         EventKnown(x, n, fi, e, fires, stops)
  PROVE  EventKnown(x, n, fi2, e, fires2, stops2)
<1>1. /\ InHand(fi, e) <=> InHand(fi2, e)
      /\ \A p : InScript(fi, e, p) <=> InScript(fi2, e, p)
  BY DEF InHand, InScript
<1>2. Spare(fi, e, fires, stops) <= Spare(fi2, e, fires2, stops2)
      /\ Spare(fi, e, fires, stops) \in Nat /\ Spare(fi2, e, fires2, stops2) \in Int
  <2>1. MAX_ATTEMPTS \in Nat
    BY WebhooksAssumption
  <2>2. Spare(fi, e, fires, stops) \in Nat
    BY SpareIs
  <2> QED
    BY <1>1, <2>1, <2>2 DEF Spare
<1>3. n <= Spare(fi, e, fires, stops) + 1 => n <= Spare(fi2, e, fires2, stops2) + 1
  BY <1>2
<1>4. n <= Spare(fi, e, fires, stops) => n <= Spare(fi2, e, fires2, stops2)
  BY <1>2
<1> QED
  BY <1>1, <1>3, <1>4 DEF EventKnown

\* A counter goes up.
LEMMA CountedIs ==
  ASSUME FireTypeOK, NEW what \in {"edits", "exports", "fires", "stops"}, Counted(what)
  PROVE  /\ counts' \in [edits : Nat, exports : Nat, fires : Nat, stops : Nat]
         /\ counts'.fires = IF what = "fires" THEN counts.fires + 1 ELSE counts.fires
         /\ counts'.stops = IF what = "stops" THEN counts.stops + 1 ELSE counts.stops
<1>1. counts \in [edits : Nat, exports : Nat, fires : Nat, stops : Nat]
  BY DEF FireTypeOK
<1>2. counts' = [counts EXCEPT ![what] = counts[what] + 1]
  BY DEF Counted
<1>3. CASE what = "edits"
  BY <1>1, <1>2, <1>3
<1>4. CASE what = "exports"
  BY <1>1, <1>2, <1>4
<1>5. CASE what = "fires"
  BY <1>1, <1>2, <1>5
<1>6. CASE what = "stops"
  BY <1>1, <1>2, <1>6
<1> QED
  BY <1>3, <1>4, <1>5, <1>6

\* At first there are no events.
LEMMA FireInit == WebhooksInit => FireInv
<1> SUFFICES ASSUME WebhooksInit PROVE FireInv
  OBVIOUS
<1>1. event = <<>> /\ autos = <<>> /\ firing = {}
      /\ counts = [edits |-> 0, exports |-> 0, fires |-> 0, stops |-> 0]
  BY DEF WebhooksInit
<1>2. event \in Seq(EventRecord) /\ autos \in Seq(Nat) /\ Len(event) = 0 /\ Len(autos) = 0
  BY <1>1, EmptySeq
<1>3. counts \in [edits : Nat, exports : Nat, fires : Nat, stops : Nat]
  BY <1>1
<1> QED
  BY <1>1, <1>2, <1>3 DEF FireInv, FireTypeOK, OneFiring

\* Steps of the routes that only count.
LEMMA FireCount ==
  ASSUME FireInv, Counted("edits"), UNCHANGED <<event, firing, autos>>
  PROVE  FireInv'
<1>1. /\ counts' \in [edits : Nat, exports : Nat, fires : Nat, stops : Nat]
      /\ counts'.fires = counts.fires /\ counts'.stops = counts.stops
  BY CountedIs DEF FireInv
<1> QED
  BY <1>1 DEF FireInv, FireTypeOK

\* An event that goes with its webhook is no longer open.
LEMMA FireDelete ==
  ASSUME FireInv, NEW w \in Hooks, deleteWebhook(w)
  PROVE  FireInv'
<1> DEFINE X(e) == IF event[e].hook = w THEN [event[e] EXCEPT !.status = "gone"] ELSE event[e]
<1>1. UNCHANGED <<firing, autos>> /\ event' = [e \in DOMAIN event |-> X(e)] /\ Counted("edits")
  BY DEF deleteWebhook
<1>2. /\ counts' \in [edits : Nat, exports : Nat, fires : Nat, stops : Nat]
      /\ counts'.fires = counts.fires /\ counts'.stops = counts.stops
  BY <1>1, CountedIs DEF FireInv
<1>3. FireTypeOK
  BY DEF FireInv
<1>4. \A e \in 1..Len(event) : /\ X(e) \in EventRecord /\ X(e).attempts = event[e].attempts
                               /\ X(e).status \in {event[e].status, "gone"}
  BY <1>3, FireTypes DEF EventRecord, Statuses
<1> HIDE DEF X
<1>5. event' \in Seq(EventRecord) /\ Len(event') = Len(event) /\ DOMAIN event' = 1..Len(event)
  <2>1. event' \in [1..Len(event) -> EventRecord] /\ Len(event) \in Nat
    BY <1>1, <1>3, <1>4, FireTypes
  <2>2. event' \in Seq(EventRecord)
    BY <2>1, SeqDef
  <2>3. DOMAIN event' = 1..Len(event') /\ Len(event') \in Nat
    BY <2>2, LenProperties
  <2> QED
    BY <2>1, <2>2, <2>3
<1>6. \A e \in 1..Len(event) : event'[e] = X(e)
  BY <1>1, <1>3, FireTypes
<1>7. FireTypeOK'
  BY <1>1, <1>2, <1>3, <1>5 DEF FireTypeOK
<1>8. ASSUME NEW e \in 1..Len(event)
      PROVE  EventKnown(event'[e], autos[e], firing, e, counts.fires, counts.stops)
  BY <1>4, <1>6 DEF FireInv, EventKnown, Open
<1>9. ASSUME NEW f \in firing
      PROVE  FiringKnown(f, event'[f.event], autos[f.event], counts.fires)
  BY <1>3, <1>4, <1>6 DEF FireInv, FiringKnown, FireTypeOK
<1> QED
  BY <1>1, <1>2, <1>5, <1>7, <1>8, <1>9 DEF FireInv

\* A finite set is listed by a sequence of its elements.
LEMMA Listed ==
  ASSUME NEW S, IsFiniteSet(S)
  PROVE  SetToSeq(S) \in Seq(S)
<1>1. Cardinality(S) \in Nat /\ ExistsBijection(1..Cardinality(S), S)
  BY FS_CardinalityType
<1>2. \E f \in [1..Cardinality(S) -> S] : IsInjective(f)
  BY <1>1 DEF ExistsBijection, Bijection, Injection, IsInjective
<1>3. SetToSeq(S) \in [1..Cardinality(S) -> S]
  BY <1>2 DEF SetToSeq
<1> QED
  BY <1>1, <1>3, SeqDef

\* New events have not been tried.
LEMMA FireQueue ==
  ASSUME FireInv, queueWebhooks
  PROVE  FireInv'
<1>1. UNCHANGED firing /\ Counted("exports")
      /\ autos' = autos \o [i \in 1 .. Len(event') - Len(event) |-> 0]
  BY DEF queueWebhooks
<1> DEFINE Fresh == [hook : Hooks, status : {"pending"}, attempts : {<<>>}]
<1>2. PICK new \in Seq(Fresh) : event' = event \o new
  <2>1. PICK paid \in SUBSET Hooks :
            event' = event \o SetToSeq({[hook |-> w, status |-> "pending", attempts |-> <<>>] : w \in paid})
    BY DEF queueWebhooks
  <2> DEFINE S == {[hook |-> w, status |-> "pending", attempts |-> <<>>] : w \in paid}
  <2>2. IsFiniteSet(S)
    <3>1. IsFiniteSet(paid)
      BY WebhooksAssumption, FS_Subset
    <3> DEFINE f == [w \in paid |-> [hook |-> w, status |-> "pending", attempts |-> <<>>]]
    <3>2. f \in Surjection(paid, S)
      BY DEF Surjection
    <3> HIDE DEF f, S
    <3> QED
      BY <3>1, <3>2, FS_Surjection
  <2>3. S \subseteq Fresh
    OBVIOUS
  <2>4. SetToSeq(S) \in Seq(Fresh)
    BY <2>2, <2>3, Listed, SeqMonotonic
  <2> QED
    BY <2>1, <2>4
<1>3. Fresh \subseteq EventRecord
  BY EmptySeq DEF EventRecord, Statuses
<1>4. /\ event' \in Seq(EventRecord) /\ Len(event') = Len(event) + Len(new)
      /\ Len(new) \in Nat /\ Len(event) \in Nat
      /\ \A e \in 1..Len(event) + Len(new) :
             event'[e] = IF e <= Len(event) THEN event[e] ELSE new[e - Len(event)]
  <2>1. new \in Seq(EventRecord) /\ event \in Seq(EventRecord)
    BY <1>3, SeqMonotonic DEF FireInv, FireTypeOK
  <2> QED
    BY <1>2, <2>1, ConcatProperties, LenProperties
<1> DEFINE zeros == [i \in 1 .. Len(new) |-> 0]
<1>5. autos' = autos \o zeros
  <2>1. Len(event') - Len(event) = Len(new)
    BY <1>4
  <2> QED
    BY <1>1, <2>1
<1>6. zeros \in Seq(Nat) /\ Len(zeros) = Len(new) /\ \A i \in 1..Len(new) : zeros[i] = 0
  <2>1. zeros \in [1..Len(new) -> Nat]
    OBVIOUS
  <2>2. zeros \in Seq(Nat)
    BY <1>4, <2>1, SeqDef
  <2>3. DOMAIN zeros = 1..Len(zeros) /\ Len(zeros) \in Nat
    BY <2>2, LenProperties
  <2> QED
    BY <1>4, <2>1, <2>2, <2>3
<1> HIDE DEF zeros
<1>7. /\ autos' \in Seq(Nat) /\ Len(autos') = Len(event) + Len(new)
      /\ \A e \in 1..Len(event) + Len(new) :
             autos'[e] = IF e <= Len(event) THEN autos[e] ELSE zeros[e - Len(event)]
  <2>1. autos \in Seq(Nat) /\ Len(autos) = Len(event)
    BY DEF FireInv, FireTypeOK
  <2>2. /\ autos \o zeros \in Seq(Nat) /\ Len(autos \o zeros) = Len(autos) + Len(zeros)
        /\ \A e \in 1..Len(autos) + Len(zeros) :
               (autos \o zeros)[e] = IF e <= Len(autos) THEN autos[e] ELSE zeros[e - Len(autos)]
    BY <1>6, <2>1, ConcatProperties
  <2> QED
    BY <1>5, <1>6, <2>1, <2>2
<1>8. /\ counts' \in [edits : Nat, exports : Nat, fires : Nat, stops : Nat]
      /\ counts'.fires = counts.fires /\ counts'.stops = counts.stops
  BY <1>1, CountedIs DEF FireInv
<1>9. FireTypeOK'
  <2>1. \A f \in firing : f \in FiringRecord /\ f.event \in 1..Len(event')
    BY <1>4 DEF FireInv, FireTypeOK
  <2> QED
    BY <1>1, <1>4, <1>7, <1>8, <2>1 DEF FireTypeOK
<1>10. \A e \in 1..Len(event) : event'[e] = event[e] /\ autos'[e] = autos[e]
  BY <1>4, <1>7
<1>11. ASSUME NEW e \in 1..Len(event')
       PROVE  EventKnown(event'[e], autos'[e], firing, e, counts.fires, counts.stops)
  <2>1. CASE e \in 1..Len(event)
    BY <1>10, <2>1 DEF FireInv
  <2>2. CASE e \notin 1..Len(event)
    <3>1. e - Len(event) \in 1..Len(new) /\ ~(e <= Len(event)) /\ e \in 1..Len(event) + Len(new)
      BY <1>4, <2>2
    <3>2. event'[e] \in Fresh /\ autos'[e] = 0
      <4>1. event'[e] = new[e - Len(event)] /\ autos'[e] = zeros[e - Len(event)]
        BY <1>4, <1>7, <3>1
      <4>2. new[e - Len(event)] \in Fresh
        BY <3>1, ElementOfSeq
      <4> QED
        BY <1>6, <3>1, <4>1, <4>2
    <3>3. event'[e].attempts = <<>> /\ event'[e].status = "pending" /\ Len(event'[e].attempts) = 0
      BY <3>2
    <3>4. Spare(firing, e, counts.fires, counts.stops) \in Nat
      BY FireTypes, SpareIs DEF FireInv, FiringKnown
    <3>5. 0 <= Spare(firing, e, counts.fires, counts.stops)
          /\ 0 <= Spare(firing, e, counts.fires, counts.stops) + 1
      BY <3>4
    <3> QED
      BY <3>2, <3>3, <3>5 DEF EventKnown
  <2> QED
    BY <2>1, <2>2
<1>12. ASSUME NEW f \in firing
       PROVE  FiringKnown(f, event'[f.event], autos'[f.event], counts.fires)
  BY <1>10 DEF FireInv, FireTypeOK
<1> QED
  BY <1>1, <1>8, <1>9, <1>11, <1>12 DEF FireInv

\* The firing of an event that begins.
LEMMA FiringIs ==
  ASSUME FireTypeOK, NEW e \in 1..Len(event), NEW by \in {"script", "hand"}
  PROVE  /\ Firing(e, by) \in FiringRecord /\ Firing(e, by).event = e /\ Firing(e, by).by = by
         /\ Firing(e, by).phase = "request" /\ Firing(e, by).seen = Len(event[e].attempts)
         /\ Firing(e, by).status = event[e].status
<1>1. event[e].status \in Statuses /\ Len(event[e].attempts) \in Nat /\ e \in Nat
  BY FireTypes DEF EventRecord
<1> QED
  BY <1>1 DEF Firing, FiringRecord

\* The script fetches open events, none of which it is firing.
LEMMA FireFetch ==
  ASSUME FireInv, FireBatch
  PROVE  FireInv'
<1>1. UNCHANGED <<event, counts, autos>> /\ ByScript = {}
  BY DEF FireBatch
<1>2. PICK batch \in SUBSET {e \in DOMAIN event : event[e].status \in Open} :
          firing' = firing \cup {Firing(e, "script") : e \in batch}
  BY DEF FireBatch, Open
<1>3. FireTypeOK /\ \A f \in firing : f.by = "hand"
  BY <1>1 DEF FireInv, FireTypeOK, FiringRecord, ByScript
<1>4. \A e \in batch : e \in 1..Len(event) /\ event[e].status \in Open
  BY <1>3, FireTypes
<1>5. \A e \in batch :
         /\ Firing(e, "script") \in FiringRecord /\ Firing(e, "script").event = e
         /\ Firing(e, "script").by = "script" /\ Firing(e, "script").phase = "request"
         /\ Firing(e, "script").seen = Len(event[e].attempts)
         /\ Firing(e, "script").status = event[e].status
  BY <1>3, <1>4, FiringIs
<1>6. \A f \in firing' : f \in firing \/ \E e \in batch : f = Firing(e, "script")
  BY <1>2
<1>7. FireTypeOK'
  <2>1. \A f \in firing' : f \in FiringRecord /\ f.event \in 1..Len(event)
    BY <1>3, <1>4, <1>5, <1>6 DEF FireTypeOK
  <2> QED
    BY <1>1, <1>3, <2>1 DEF FireTypeOK
<1>8. OneFiring(firing')
  <2> SUFFICES ASSUME NEW f \in firing', NEW g \in firing', f.event = g.event, f.by = g.by
               PROVE  f = g
    BY DEF OneFiring
  <2>1. CASE f \in firing /\ g \in firing
    BY <2>1 DEF FireInv, OneFiring
  <2>2. CASE f \in firing /\ g \notin firing
    BY <1>3, <1>5, <1>6, <2>2
  <2>3. CASE f \notin firing /\ g \in firing
    BY <1>3, <1>5, <1>6, <2>3
  <2>4. CASE f \notin firing /\ g \notin firing
    <3>1. PICK d \in batch : f = Firing(d, "script")
      BY <1>6, <2>4
    <3>2. PICK e \in batch : g = Firing(e, "script")
      BY <1>6, <2>4
    <3>3. d = e
      BY <1>5, <3>1, <3>2
    <3> QED
      BY <3>1, <3>2, <3>3
  <2> QED
    BY <2>1, <2>2, <2>3, <2>4
<1>9. ASSUME NEW e \in 1..Len(event)
      PROVE  EventKnown(event[e], autos[e], firing', e, counts.fires, counts.stops)
  <2>1. EventKnown(event[e], autos[e], firing, e, counts.fires, counts.stops)
    BY DEF FireInv
  <2>2. InHand(firing', e) <=> InHand(firing, e)
    BY <1>2, <1>5, <1>6 DEF InHand
  <2>3. Spare(firing', e, counts.fires, counts.stops) = Spare(firing, e, counts.fires, counts.stops)
    BY <2>2 DEF Spare
  <2>4. ~InScript(firing, e, "store")
    BY <1>3 DEF InScript
  <2>5. InScript(firing', e, "request") => event[e].status \in Open
    BY <1>3, <1>4, <1>5, <1>6 DEF InScript
  <2> QED
    BY <2>1, <2>3, <2>4, <2>5 DEF EventKnown
<1>10. ASSUME NEW f \in firing'
       PROVE  FiringKnown(f, event[f.event], autos[f.event], counts.fires)
  <2>1. CASE f \in firing
    BY <2>1 DEF FireInv
  <2>2. CASE f \notin firing
    <3>1. PICK e \in batch : f = Firing(e, "script")
      BY <1>6, <2>2
    <3>2. /\ f.event = e /\ f.by = "script" /\ f.phase = "request"
          /\ f.seen = Len(event[e].attempts) /\ f.status \in Open
      BY <1>4, <1>5, <3>1
    <3>3. autos[e] <= Len(event[e].attempts) /\ Len(event[e].attempts) \in Nat
      BY <1>3, <1>4, FireTypes DEF FireInv, EventKnown
    <3> QED
      BY <3>2, <3>3 DEF FiringKnown
  <2> QED
    BY <2>1, <2>2
<1> QED
  BY <1>1, <1>7, <1>8, <1>9, <1>10 DEF FireInv

\* A firing by hand is counted when it begins and makes room when it ends.
LEMMA FireByHand ==
  ASSUME FireInv, NEW e \in DOMAIN event, fireWebhookEvent(e)
  PROVE  FireInv'
<1> DEFINE new == Firing(e, "hand")
<1>1. /\ UNCHANGED <<event, autos>> /\ Counted("fires") /\ firing' = firing \cup {new}
      /\ \A f \in firing : ~(f.by = "hand" /\ f.event = e)
  BY DEF fireWebhookEvent
<1>2. FireTypeOK /\ e \in 1..Len(event)
  BY FireTypes DEF FireInv
<1>3. /\ new \in FiringRecord /\ new.event = e /\ new.by = "hand"
      /\ new.phase = "request" /\ new.seen = Len(event[e].attempts)
  BY <1>2, FiringIs
<1> HIDE DEF new
<1>4. /\ counts' \in [edits : Nat, exports : Nat, fires : Nat, stops : Nat]
      /\ counts'.fires = counts.fires + 1 /\ counts'.stops = counts.stops
  BY <1>1, <1>2, CountedIs
<1>5. counts.fires \in Nat /\ counts.stops \in Nat /\ \A f \in firing : f.by = "hand" => counts.fires >= 1
  BY <1>2, FireTypes DEF FireInv, FiringKnown
<1>6. FireTypeOK'
  BY <1>1, <1>2, <1>3, <1>4 DEF FireTypeOK
<1>7. OneFiring(firing')
  BY <1>1, <1>3 DEF FireInv, OneFiring
<1>8. ASSUME NEW d \in 1..Len(event)
      PROVE  EventKnown(event[d], autos[d], firing', d, counts.fires + 1, counts.stops)
  <2>1. EventKnown(event[d], autos[d], firing, d, counts.fires, counts.stops)
    BY DEF FireInv
  <2>2. CASE d # e
    <3>1. \A f \in firing' : f.event = d => f \in firing
      BY <1>1, <1>3, <2>2
    <3>2. autos[d] \in Nat /\ counts.fires + 1 \in Nat /\ counts.fires <= counts.fires + 1
      BY <1>2, <1>5, FireTypes
    <3> QED
      BY <1>1, <1>5, <2>1, <3>1, <3>2, OtherEvent
  <2>3. CASE d = e
    <3>1. InHand(firing', d) /\ ~InHand(firing, d)
      BY <1>1, <1>3, <2>3 DEF InHand
    <3>2. Spare(firing', d, counts.fires + 1, counts.stops) = Spare(firing, d, counts.fires, counts.stops)
      BY <1>5, <3>1, WebhooksAssumption DEF Spare
    <3>3. \A p : InScript(firing', d, p) <=> InScript(firing, d, p)
      BY <1>1, <1>3 DEF InScript
    <3> QED
      BY <2>1, <3>2, <3>3 DEF EventKnown
  <2> QED
    BY <2>2, <2>3
<1>9. ASSUME NEW f \in firing'
      PROVE  FiringKnown(f, event[f.event], autos[f.event], counts.fires + 1)
  <2>1. CASE f \in firing
    BY <1>5, <2>1 DEF FireInv, FiringKnown
  <2>2. CASE f = new
    <3>1. Len(event[e].attempts) \in Nat
      BY <1>2, FireTypes
    <3> QED
      BY <1>3, <1>5, <2>2, <3>1 DEF FiringKnown
  <2> QED
    BY <1>1, <2>1, <2>2
<1> QED
  BY <1>1, <1>4, <1>6, <1>7, <1>8, <1>9 DEF FireInv

\* An attempt is stored: a request of the script is one of the spare ones.
LEMMA FireAttempt ==
  ASSUME FireInv, NEW f \in firing, StoreAttempt(f)
  PROVE  FireInv'
<1> DEFINE e == f.event
<1>1. UNCHANGED counts /\ f.phase = "request" /\ FireTypeOK
  BY DEF StoreAttempt, FireInv
<1>2. f \in FiringRecord /\ e \in 1..Len(event) /\ f.seen \in Nat /\ f.by \in {"script", "hand"}
  BY <1>1 DEF FireTypeOK, FiringRecord
<1>3. /\ counts.fires \in Nat /\ counts.stops \in Nat
      /\ \A g \in firing : g.by = "hand" => counts.fires >= 1
  BY <1>1, FireTypes DEF FireInv, FiringKnown
<1>4. CASE event[e].status = "gone"
  <2>1. firing' = firing \ {f} /\ UNCHANGED <<event, autos>>
    BY <1>4 DEF StoreAttempt
  <2>2. FireTypeOK' /\ OneFiring(firing')
    BY <1>1, <2>1 DEF FireTypeOK, FireInv, OneFiring
  <2>3. ASSUME NEW d \in 1..Len(event)
        PROVE  EventKnown(event[d], autos[d], firing', d, counts.fires, counts.stops)
    <3>1. EventKnown(event[d], autos[d], firing, d, counts.fires, counts.stops)
      BY DEF FireInv
    <3>2. autos[d] \in Nat
      BY <1>1, FireTypes
    <3>3. CASE d # e
      BY <1>3, <2>1, <3>1, <3>2, <3>3, OtherEvent
    <3>4. CASE d = e
      <4>1. Spare(firing, d, counts.fires, counts.stops) <= Spare(firing', d, counts.fires, counts.stops)
            /\ Spare(firing, d, counts.fires, counts.stops) \in Nat
            /\ Spare(firing', d, counts.fires, counts.stops) \in Nat
        BY <1>3, <2>1, SpareGrows
      <4>2. InScript(firing', d, "request") => InScript(firing, d, "request")
        BY <2>1 DEF InScript
      <4> QED
        BY <1>4, <3>1, <3>2, <3>4, <4>1, <4>2 DEF EventKnown, Open
    <3> QED
      BY <3>3, <3>4
  <2> QED
    BY <1>1, <2>1, <2>2, <2>3 DEF FireInv
<1>5. CASE event[e].status # "gone"
  <2>1. PICK ok \in BOOLEAN :
            /\ event' = [event EXCEPT ![f.event].attempts = Append(@, ok)]
            /\ autos' = IF f.by = "script" THEN [autos EXCEPT ![f.event] = @ + 1] ELSE autos
            /\ firing' = (firing \ {f}) \cup {[f EXCEPT !.phase = "store", !.ok = ok]}
    BY <1>5 DEF StoreAttempt
  <2> DEFINE x == [event[e] EXCEPT !.attempts = Append(event[e].attempts, ok)]
             f2 == [f EXCEPT !.phase = "store", !.ok = ok]
             n == IF f.by = "script" THEN autos[e] + 1 ELSE autos[e]
  <2>2. /\ event[e] \in EventRecord /\ event[e].attempts \in Seq(BOOLEAN)
        /\ Len(event[e].attempts) \in Nat /\ autos[e] \in Nat
    BY <1>1, <1>2, FireTypes
  <2>3. /\ x \in EventRecord /\ x.status = event[e].status
        /\ Len(x.attempts) = Len(event[e].attempts) + 1
    <3>1. Append(event[e].attempts, ok) \in Seq(BOOLEAN)
          /\ Len(Append(event[e].attempts, ok)) = Len(event[e].attempts) + 1
      BY <2>2, AppendProperties
    <3> QED
      BY <2>2, <3>1 DEF EventRecord
  <2>4. /\ f2 \in FiringRecord /\ f2.event = e /\ f2.by = f.by /\ f2.phase = "store"
        /\ f2.seen = f.seen /\ f2.status = f.status
    BY <1>2 DEF FiringRecord
  <2>5. /\ event' \in Seq(EventRecord) /\ Len(event') = Len(event)
        /\ \A d \in 1..Len(event) : event'[d] = IF d = e THEN x ELSE event[d]
    <3>1. event' = [event EXCEPT ![e] = x]
      BY <2>1
    <3>2. event \in Seq(EventRecord)
      BY <1>1 DEF FireTypeOK
    <3> HIDE DEF x
    <3> QED
      BY <1>2, <2>3, <3>1, <3>2, ExceptSeq
  <2>6. /\ autos' \in Seq(Nat) /\ Len(autos') = Len(event)
        /\ \A d \in 1..Len(event) : autos'[d] = IF d = e THEN n ELSE autos[d]
    <3>1. autos \in Seq(Nat) /\ Len(autos) = Len(event)
      BY <1>1 DEF FireTypeOK
    <3>2. CASE f.by = "script"
      <4>1. autos' = [autos EXCEPT ![e] = autos[e] + 1] /\ n = autos[e] + 1 /\ n \in Nat
        BY <2>1, <2>2, <3>2
      <4> HIDE DEF n
      <4> QED
        BY <1>2, <3>1, <4>1, ExceptSeq
    <3>3. CASE f.by # "script"
      BY <2>1, <3>1, <3>3
    <3> QED
      BY <3>2, <3>3
  <2>7. firing' = (firing \ {f}) \cup {f2}
    BY <2>1
  <2> HIDE DEF x, f2
  <2>8. FireTypeOK'
    <3>1. \A g \in firing' : g \in FiringRecord /\ g.event \in 1..Len(event)
      BY <1>1, <1>2, <2>4, <2>7 DEF FireTypeOK
    <3> QED
      BY <1>1, <2>5, <2>6, <3>1 DEF FireTypeOK
  <2>9. OneFiring(firing')
    BY <2>4, <2>7 DEF FireInv, OneFiring
  <2>10. n \in Nat /\ autos[e] <= n /\ (f.by = "script" => n = autos[e] + 1) /\ (f.by = "hand" => n = autos[e])
    BY <2>2
  <2> HIDE DEF n
  <2>11. ASSUME NEW d \in 1..Len(event)
         PROVE  EventKnown(event'[d], autos'[d], firing', d, counts.fires, counts.stops)
    <3>1. EventKnown(event[d], autos[d], firing, d, counts.fires, counts.stops)
      BY DEF FireInv
    <3>2. CASE d # e
      <4>1. \A g \in firing : g.event = d => g \in firing'
        BY <2>7, <3>2
      <4>2. \A g \in firing' : g.event = d => g \in firing
        BY <2>4, <2>7, <3>2
      <4>3. autos[d] \in Nat
        BY <1>1, FireTypes
      <4>4. EventKnown(event[d], autos[d], firing', d, counts.fires, counts.stops)
        BY <1>3, <3>1, <4>1, <4>2, <4>3, OtherEvent
      <4> QED
        BY <2>5, <2>6, <3>2, <4>4
    <3>3. CASE d = e
      <4>1. event'[d] = x /\ autos'[d] = n
        BY <2>5, <2>6, <3>3
      <4>2. InHand(firing', d) <=> InHand(firing, d)
        BY <2>4, <2>7, <3>3 DEF InHand
      <4>3. Spare(firing', d, counts.fires, counts.stops) = Spare(firing, d, counts.fires, counts.stops)
            /\ Spare(firing, d, counts.fires, counts.stops) \in Nat
        BY <1>3, <4>2, SpareIs DEF Spare
      <4>4. x.status = "failure" => Len(x.attempts) > MAX_ATTEMPTS
        BY <2>2, <2>3, <3>1, <3>3, WebhooksAssumption DEF EventKnown
      <4>5. CASE f.by = "script"
        <5>1. InScript(firing, d, "request")
          BY <1>1, <3>3, <4>5 DEF InScript
        <5>2. autos[d] <= Spare(firing, d, counts.fires, counts.stops)
          BY <3>1, <5>1 DEF EventKnown
        <5>3. InScript(firing', d, "store")
          BY <2>4, <2>7, <3>3, <4>5 DEF InScript
        <5>4. ~InScript(firing', d, "request")
          <6> SUFFICES ASSUME NEW g \in firing', g.by = "script", g.event = d, g.phase = "request"
                       PROVE  FALSE
            BY DEF InScript
          <6>1. g \in firing /\ g # f
            BY <2>4, <2>7
          <6> QED
            BY <3>3, <4>5, <6>1 DEF FireInv, OneFiring
        <5>5. n = autos[d] + 1 /\ autos[d] <= Len(event[d].attempts)
          BY <2>10, <3>1, <3>3, <4>5 DEF EventKnown
        <5>6. n <= Len(x.attempts)
          BY <2>2, <2>3, <3>3, <5>5
        <5>7. n <= Spare(firing, d, counts.fires, counts.stops) + 1
          BY <2>2, <3>3, <4>3, <5>2, <5>5
        <5> QED
          BY <4>1, <4>3, <4>4, <5>3, <5>4, <5>6, <5>7 DEF EventKnown
      <4>6. CASE f.by = "hand"
        <5>1. n = autos[d] /\ autos[d] <= Len(event[d].attempts)
          BY <2>10, <3>1, <3>3, <4>6 DEF EventKnown
        <5>2. n <= Len(x.attempts)
          BY <2>2, <2>3, <3>3, <5>1
        <5>3. \A p : InScript(firing', d, p) <=> InScript(firing, d, p)
          BY <2>4, <2>7, <4>6 DEF InScript
        <5> QED
          BY <2>3, <3>1, <3>3, <4>1, <4>3, <4>4, <5>1, <5>2, <5>3 DEF EventKnown
      <4> QED
        BY <1>2, <4>5, <4>6
    <3> QED
      BY <3>2, <3>3
  <2>12. ASSUME NEW g \in firing'
         PROVE  FiringKnown(g, event'[g.event], autos'[g.event], counts.fires)
    <3>1. FiringKnown(f, event[e], autos[e], counts.fires)
      BY DEF FireInv
    <3>2. CASE g = f2
      <4>1. event'[g.event] = x /\ autos'[g.event] = n
        BY <1>2, <2>4, <2>5, <2>6, <3>2
      <4>2. g.seen < Len(x.attempts)
        BY <1>1, <1>2, <2>2, <2>3, <2>4, <3>1, <3>2 DEF FiringKnown
      <4>3. f.by = "script" => n <= g.seen + 1
        BY <1>1, <1>2, <2>2, <2>4, <2>10, <3>1, <3>2 DEF FiringKnown
      <4> QED
        BY <2>4, <3>1, <3>2, <4>1, <4>2, <4>3 DEF FiringKnown
    <3>3. CASE g \in firing /\ g # f
      <4>1. FiringKnown(g, event[g.event], autos[g.event], counts.fires) /\ g.event \in 1..Len(event)
            /\ g.seen \in Nat
        BY <1>1, <3>3 DEF FireInv, FireTypeOK, FiringRecord
      <4>2. CASE g.event # e
        BY <2>5, <2>6, <4>1, <4>2
      <4>3. CASE g.event = e
        <5>1. event'[g.event] = x /\ autos'[g.event] = n
          BY <1>2, <2>5, <2>6, <4>3
        <5>2. IF g.phase = "request" THEN g.seen <= Len(x.attempts) ELSE g.seen < Len(x.attempts)
          BY <2>2, <2>3, <4>1, <4>3 DEF FiringKnown
        <5>3. g.by = "script" => f.by = "hand"
          BY <1>2, <3>3, <4>3 DEF FireInv, OneFiring
        <5> QED
          BY <2>10, <4>1, <4>3, <5>1, <5>2, <5>3 DEF FiringKnown
      <4> QED
        BY <4>2, <4>3
    <3> QED
      BY <2>7, <3>2, <3>3
  <2> QED
    BY <1>1, <2>5, <2>8, <2>9, <2>11, <2>12 DEF FireInv
<1> QED
  BY <1>4, <1>5

\* The status is stored: the script leaves the event open only when it had seen fewer
\* than MAX_ATTEMPTS attempts, and a firing by hand that may put it back to retrying
\* makes room for one more.
LEMMA FireStatus ==
  ASSUME FireInv, NEW f \in firing, StoreStatus(f)
  PROVE  FireInv'
<1> DEFINE e == f.event
           kept == f.status = "success" \/ event[e].status = "gone"
           x == IF kept THEN event[e] ELSE [event[e] EXCEPT !.status = StatusAfter(f)]
<1>1. /\ UNCHANGED <<counts, autos>> /\ f.phase = "store" /\ FireTypeOK /\ firing' = firing \ {f}
      /\ event' = IF kept THEN event ELSE [event EXCEPT ![e].status = StatusAfter(f)]
  BY DEF StoreStatus, FireInv
<1>2. f \in FiringRecord /\ e \in 1..Len(event) /\ f.seen \in Nat /\ f.by \in {"script", "hand"}
  BY <1>1 DEF FireTypeOK, FiringRecord
<1>3. /\ counts.fires \in Nat /\ counts.stops \in Nat
      /\ \A g \in firing : g.by = "hand" => counts.fires >= 1
  BY <1>1, FireTypes DEF FireInv, FiringKnown
<1>4. /\ event[e] \in EventRecord /\ Len(event[e].attempts) \in Nat
      /\ \A d \in 1..Len(event) : autos[d] \in Nat
  BY <1>1, <1>2, FireTypes
<1>5. StatusAfter(f) \in Statuses /\ (StatusAfter(f) \in Open => f.seen < MAX_ATTEMPTS)
      /\ (StatusAfter(f) = "failure" => f.seen >= MAX_ATTEMPTS)
  <2>1. f.seen < MAX_ATTEMPTS \/ f.seen >= MAX_ATTEMPTS
    BY <1>2, WebhooksAssumption
  <2> QED
    BY <2>1 DEF StatusAfter, Statuses, Open
<1>6. /\ x \in EventRecord /\ x.attempts = event[e].attempts
      /\ x.status = IF kept THEN event[e].status ELSE StatusAfter(f)
  BY <1>4, <1>5 DEF EventRecord
<1>7. /\ event' \in Seq(EventRecord) /\ Len(event') = Len(event)
      /\ \A d \in 1..Len(event) : event'[d] = IF d = e THEN x ELSE event[d]
  <2>1. event \in Seq(EventRecord)
    BY <1>1 DEF FireTypeOK
  <2>2. CASE kept
    BY <1>1, <2>1, <2>2
  <2>3. CASE ~kept
    <3>1. event' = [event EXCEPT ![e] = x]
      BY <1>1, <2>3
    <3> HIDE DEF x
    <3> QED
      BY <1>2, <1>6, <2>1, <3>1, ExceptSeq
  <2> QED
    BY <2>2, <2>3
<1> HIDE DEF x
<1>8. FireTypeOK' /\ OneFiring(firing')
  <2>1. \A g \in firing' : g \in FiringRecord /\ g.event \in 1..Len(event)
    BY <1>1 DEF FireTypeOK
  <2> QED
    BY <1>1, <1>7, <2>1 DEF FireTypeOK, FireInv, OneFiring
<1>9. FiringKnown(f, event[e], autos[e], counts.fires)
  BY DEF FireInv
<1>10. ASSUME NEW d \in 1..Len(event)
       PROVE  EventKnown(event'[d], autos[d], firing', d, counts.fires, counts.stops)
  <2>1. EventKnown(event[d], autos[d], firing, d, counts.fires, counts.stops)
    BY DEF FireInv
  <2>2. CASE d # e
    <3>1. \A g \in firing : g.event = d => g \in firing'
      BY <1>1, <2>2
    <3>2. EventKnown(event[d], autos[d], firing', d, counts.fires, counts.stops)
      BY <1>1, <1>3, <1>4, <2>1, <3>1, OtherEvent
    <3> QED
      BY <1>7, <2>2, <3>2
  <2>3. CASE d = e
    <3> DEFINE old == Spare(firing, d, counts.fires, counts.stops)
               new == Spare(firing', d, counts.fires, counts.stops)
    <3>1. event'[d] = x /\ autos[d] \in Nat
      BY <1>4, <1>7, <2>3
    <3>2. /\ old \in Nat /\ new \in Nat /\ old <= new
          /\ InHand(firing, d) /\ ~InHand(firing', d) => new = old + 1
      <4>1. firing' \in SUBSET firing
        BY <1>1
      <4> QED
        BY <1>3, <4>1, SpareGrows
    <3>3. old >= MAX_ATTEMPTS
      BY <1>3, SpareIs
    <3>4. autos[d] <= old + 1 /\ autos[d] <= Len(x.attempts)
      BY <1>6, <2>1, <2>3 DEF EventKnown
    <3> HIDE DEF old
    <3>5. x.status = "failure" => Len(x.attempts) > MAX_ATTEMPTS
      <4>1. CASE kept
        BY <1>6, <2>1, <2>3, <4>1 DEF EventKnown
      <4>2. CASE ~kept
        <5>1. f.seen < Len(x.attempts)
          BY <1>1, <1>6, <1>9 DEF FiringKnown
        <5> QED
          BY <1>2, <1>4, <1>5, <1>6, <4>2, <5>1, WebhooksAssumption
      <4> QED
        BY <4>1, <4>2
    <3>6. ASSUME InScript(firing', d, "request") \/ (x.status \in Open /\ ~InScript(firing', d, "store"))
          PROVE  autos[d] <= new
      <4>1. CASE f.by = "hand"
        <5>1. InHand(firing, d) /\ ~InHand(firing', d)
          BY <1>1, <2>3, <4>1 DEF FireInv, OneFiring, InHand
        <5> QED
          BY <3>1, <3>2, <3>4, <5>1
      <4>2. CASE f.by = "script"
        <5>1. ~InScript(firing', d, "request")
          BY <1>1, <2>3, <4>2 DEF FireInv, OneFiring, InScript
        <5>2. x.status \in Open
          BY <3>6, <5>1
        <5>3. f.status \in Open /\ autos[d] <= f.seen + 1
          BY <1>1, <1>9, <2>3, <4>2 DEF FiringKnown
        <5>4. ~kept
          BY <1>6, <5>2, <5>3 DEF Open
        <5>5. f.seen < MAX_ATTEMPTS
          BY <1>5, <1>6, <5>2, <5>4
        <5> HIDE DEF new
        <5> QED
          BY <1>2, <3>1, <3>2, <3>3, <5>3, <5>5, WebhooksAssumption
      <4> QED
        BY <1>2, <4>1, <4>2
    <3>7. autos[d] <= new + 1
      <4> HIDE DEF new
      <4> QED
        BY <3>1, <3>2, <3>4
    <3> QED
      BY <3>1, <3>4, <3>5, <3>6, <3>7 DEF EventKnown
  <2> QED
    BY <2>2, <2>3
<1>11. ASSUME NEW g \in firing'
       PROVE  FiringKnown(g, event'[g.event], autos[g.event], counts.fires)
  <2>1. FiringKnown(g, event[g.event], autos[g.event], counts.fires) /\ g.event \in 1..Len(event)
    BY <1>1 DEF FireInv, FireTypeOK
  <2>2. event'[g.event].attempts = event[g.event].attempts
    BY <1>6, <1>7, <2>1
  <2> QED
    BY <2>1, <2>2 DEF FiringKnown
<1> QED
  BY <1>1, <1>7, <1>8, <1>10, <1>11 DEF FireInv

\* Each stop of the script makes room for the attempt whose status it did not save.
LEMMA FireStops ==
  ASSUME FireInv, ScriptStops
  PROVE  FireInv'
<1>1. UNCHANGED <<event, autos>> /\ Counted("stops") /\ firing' = firing \ ByScript /\ FireTypeOK
  BY DEF ScriptStops, FireInv
<1>2. /\ counts' \in [edits : Nat, exports : Nat, fires : Nat, stops : Nat]
      /\ counts'.fires = counts.fires /\ counts'.stops = counts.stops + 1
  BY <1>1, CountedIs
<1>3. /\ counts.fires \in Nat /\ counts.stops \in Nat
      /\ \A g \in firing : g.by = "hand" => counts.fires >= 1
  BY <1>1, FireTypes DEF FireInv, FiringKnown
<1>4. FireTypeOK' /\ OneFiring(firing')
  <2>1. \A g \in firing' : g \in FiringRecord /\ g.event \in 1..Len(event)
    BY <1>1 DEF FireTypeOK
  <2> QED
    BY <1>1, <1>2, <2>1 DEF FireTypeOK, FireInv, OneFiring
<1>5. ASSUME NEW d \in 1..Len(event)
      PROVE  EventKnown(event[d], autos[d], firing', d, counts.fires, counts.stops + 1)
  <2> DEFINE old == Spare(firing, d, counts.fires, counts.stops)
             new == Spare(firing', d, counts.fires, counts.stops + 1)
  <2>1. EventKnown(event[d], autos[d], firing, d, counts.fires, counts.stops)
    BY DEF FireInv
  <2>2. InHand(firing', d) <=> InHand(firing, d)
    BY <1>1 DEF InHand, ByScript
  <2>3. new = old + 1 /\ old \in Nat
    <3>1. old \in Nat
      BY <1>3, SpareIs
    <3> QED
      BY <1>3, <2>2, <3>1, WebhooksAssumption DEF Spare
  <2>4. autos[d] <= old + 1 /\ autos[d] \in Nat
    BY <1>1, <2>1, FireTypes DEF EventKnown
  <2> HIDE DEF old, new
  <2>5. autos[d] <= new /\ autos[d] <= new + 1
    BY <2>3, <2>4
  <2> USE DEF new
  <2> QED
    BY <2>1, <2>5 DEF EventKnown
<1>6. \A g \in firing' : FiringKnown(g, event[g.event], autos[g.event], counts.fires)
  BY <1>1 DEF FireInv
<1> QED
  BY <1>1, <1>2, <1>4, <1>5, <1>6 DEF FireInv

\* Every step keeps what is known of events and firings.
LEMMA FireStep == FireInv /\ [WebhooksNext]_webhookVars => FireInv'
<1> SUFFICES ASSUME FireInv, [WebhooksNext]_webhookVars PROVE FireInv'
  OBVIOUS
<1>1. ASSUME NEW w \in Hooks, createWebhook(w) \/ updateWebhook(w) PROVE FireInv'
  BY <1>1, FireCount DEF createWebhook, updateWebhook
<1>2. ASSUME NEW w \in Hooks, SaveColumns(w) \/ RemoveSets(w) \/ AddSets(w) \/ CutShort(w)
      PROVE  FireInv'
  BY <1>2 DEF SaveColumns, RemoveSets, AddSets, CutShort, FireInv, FireTypeOK
<1>3. ASSUME NEW w \in Hooks, deleteWebhook(w) PROVE FireInv'
  BY <1>3, FireDelete
<1>4. ASSUME NEW s \in CodeIdSets, createCodeIdSet(s) \/ updateCodeIdSet(s) \/ deleteCodeIdSet(s)
      PROVE  FireInv'
  BY <1>4, FireCount DEF createCodeIdSet, updateCodeIdSet, deleteCodeIdSet
<1>5. CASE queueWebhooks
  BY <1>5, FireQueue
<1>6. ASSUME NEW e \in DOMAIN event, fireWebhookEvent(e) PROVE FireInv'
  BY <1>6, FireByHand
<1>7. CASE FireBatch
  BY <1>7, FireFetch
<1>8. ASSUME NEW f \in firing, StoreAttempt(f) PROVE FireInv'
  BY <1>8, FireAttempt
<1>9. ASSUME NEW f \in firing, StoreStatus(f) PROVE FireInv'
  BY <1>9, FireStatus
<1>10. CASE ScriptStops
  BY <1>10, FireStops
<1>11. CASE UNCHANGED webhookVars
  BY <1>11 DEF webhookVars, FireInv, FireTypeOK
<1> QED
  BY <1>1, <1>2, <1>3, <1>4, <1>5, <1>6, <1>7, <1>8, <1>9, <1>10, <1>11 DEF WebhooksNext, Fire

\* What the invariants say of webhooks and their events.
LEMMA SoundFromInv == FilterInv /\ FireInv => WebhooksAreSound
<1> SUFFICES ASSUME FilterInv, FireInv PROVE WebhooksAreSound
  OBVIOUS
<1>1. UnfilteredNeedsRace
  <2> SUFFICES ASSUME NEW w \in Hooks \ unsettled, hook[w] # <<>>, ~Filtered(hook[w][1])
               PROVE  \E u \in edit[w] : u.left \cap {"save", "add"} = {"add"} /\ u.sets # {}
    BY DEF UnfilteredNeedsRace
  <2> DEFINE h == hook[w][1]
  <2>1. PICK u \in edit[w] : Promise(h, u, Existing)
    BY DEF FilterInv, Settling
  <2>2. "save" \notin u.left /\ WillFilter(h, u) /\ u.left \subseteq {"save", "remove", "add"}
    BY <2>1 DEF Promise
  <2>3. SetsAfter(h, u) # {} /\ h.sets = {}
    BY <2>2 DEF WillFilter, ColumnAfter, Filtered
  <2>4. "add" \in u.left /\ u.sets # {}
    BY <2>3 DEF SetsAfter
  <2> QED
    BY <2>2, <2>4
<1>2. FireTypeOK /\ DOMAIN event = 1..Len(event)
  BY FireTypes DEF FireInv
<1>3. FailureNeedsAttempts
  BY <1>2 DEF FireInv, EventKnown, FailureNeedsAttempts
<1>4. AttemptsBounded
  <2> SUFFICES ASSUME NEW e \in 1..Len(event)
               PROVE  autos[e] <= MAX_ATTEMPTS + 1 + counts.fires + counts.stops
    BY <1>2 DEF AttemptsBounded
  <2>1. autos[e] <= Spare(firing, e, counts.fires, counts.stops) + 1
    BY DEF FireInv, EventKnown
  <2>2. counts.fires \in Nat /\ counts.stops \in Nat /\ autos[e] \in Nat
        /\ \A f \in firing : f.by = "hand" => counts.fires >= 1
    BY <1>2, FireTypes DEF FireInv, FiringKnown
  <2>3. /\ Spare(firing, e, counts.fires, counts.stops) \in Nat
        /\ Spare(firing, e, counts.fires, counts.stops) <= MAX_ATTEMPTS + counts.stops + counts.fires
    BY <2>2, SpareIs
  <2> QED
    BY <2>1, <2>2, <2>3, WebhooksAssumption
<1> QED
  BY <1>1, <1>3, <1>4 DEF WebhooksAreSound

\* However edits, exports, firings by hand and the script interleave, and whenever the
\* script dies: a webhook without a filter comes only from a deleted set, from two
\* updates at once, from a call that fails between its writes, or stands until the
\* call's code id sets are written; an event is given up only after more than MAX_ATTEMPTS attempts,
\* and the script makes at most MAX_ATTEMPTS + 1 attempts plus one for each firing by
\* hand and each stop (createWebhook, updateWebhook, AccountWebhookEvent.fire).
THEOREM WebhooksHold == WebhooksSpec => []WebhooksAreSound
<1>1. WebhooksInit => FilterInv /\ FireInv
  BY FilterInit, FireInit
<1>2. FilterInv /\ FireInv /\ [WebhooksNext]_webhookVars => (FilterInv /\ FireInv)'
  BY FilterStep, FireStep
<1>3. FilterInv /\ FireInv => WebhooksAreSound
  BY SoundFromInv
<1> QED
  BY <1>1, <1>2, <1>3, PTL DEF WebhooksSpec

\* A delivered event leaves that status only when its webhook is deleted, or when a
\* firing that had read another status before the delivery saves its own: no other
\* step of the routes or of the script takes a delivery back (AccountWebhookEvent.fire).
THEOREM DeliveryIsKept == WebhooksSpec => SuccessIsKept
<1> DEFINE Step == \A e \in DOMAIN event :
               event[e].status = "success" /\ event'[e].status \notin {"success", "gone"} =>
                   \E f \in firing : f.event = e /\ f.status # "success"
<1>1. FireInv /\ [WebhooksNext]_webhookVars => [Step]_webhookVars
  <2> SUFFICES ASSUME FireInv, WebhooksNext, NEW e \in DOMAIN event,
                      event[e].status = "success", event'[e].status \notin {"success", "gone"}
               PROVE  \E f \in firing : f.event = e /\ f.status # "success"
    OBVIOUS
  <2>1. FireTypeOK /\ DOMAIN event = 1..Len(event) /\ event[e] \in EventRecord
    BY FireTypes DEF FireInv
  <2>2. ASSUME UNCHANGED event PROVE FALSE
    BY <2>2
  <2>3. ASSUME NEW w \in Hooks, deleteWebhook(w) PROVE FALSE
    BY <2>1, <2>3 DEF deleteWebhook, EventRecord
  <2>4. ASSUME queueWebhooks PROVE FALSE
    <3>1. PICK new : event' = event \o new
      BY <2>4 DEF queueWebhooks
    <3> QED
      BY <2>1, <3>1 DEF FireTypeOK
  <2>5. ASSUME NEW f \in firing, StoreAttempt(f) PROVE FALSE
    <3>1. CASE event[f.event].status = "gone"
      BY <2>2, <2>5, <3>1 DEF StoreAttempt
    <3>2. CASE event[f.event].status # "gone"
      <4>1. PICK ok \in BOOLEAN :
                event' = [event EXCEPT ![f.event].attempts = Append(@, ok)]
        BY <2>5, <3>2 DEF StoreAttempt
      <4> DEFINE x == [event[f.event] EXCEPT !.attempts = Append(event[f.event].attempts, ok)]
      <4>2. f.event \in DOMAIN event /\ event[f.event] \in EventRecord
        BY <2>1, FireTypes DEF FireTypeOK
      <4>3. x.status = event[f.event].status
        BY <4>2 DEF EventRecord
      <4>4. event' = [event EXCEPT ![f.event] = x]
        BY <4>1
      <4> HIDE DEF x
      <4> QED
        BY <4>2, <4>3, <4>4
    <3> QED
      BY <3>1, <3>2
  <2>6. ASSUME NEW f \in firing, StoreStatus(f)
        PROVE  f.event = e /\ f.status # "success"
    BY <2>1, <2>6 DEF StoreStatus
  <2> QED
    BY <2>2, <2>3, <2>4, <2>5, <2>6
       DEF WebhooksNext, Fire, FireBatch, fireWebhookEvent, ScriptStops, createWebhook, updateWebhook,
           SaveColumns, RemoveSets, AddSets, CutShort, createCodeIdSet, updateCodeIdSet, deleteCodeIdSet
<1> QED
  BY <1>1, FireInit, FireStep, PTL DEF WebhooksSpec, SuccessIsKept

-----------------------------------------------------------------------------
(* The codes of the kinds of contracts.                                    *)

\* The defaults are those configured and what was merged into them, and they are known.
DefaultsInv ==
    \A k \in CodeKeys : /\ configured[k] \subseteq defaults[k] /\ defaults[k] \subseteq configured[k] \cup merged
                        /\ configured[k] \subseteq codes[k]
TrackedInv ==
    /\ DOMAIN states = Tracked
    /\ \A k \in CodeKeys : \A id \in codeDb[k] :
           \E c \in Tracked : (\E s \in states[c] : s.code = id) /\ (\E s \in states[c] : s.is = k)
CodesInv == DefaultsInv /\ TrackedInv

LEMMA ResetKnows ==
  ASSUME DefaultsInv, NEW rows, Reset(rows), UNCHANGED configured
  PROVE  DefaultsInv'
<1>1. \A k \in CodeKeys : /\ defaults'[k] = IF defaults[k] # {} THEN defaults[k] \cup rows[k] ELSE {}
                          /\ codes'[k] = IF defaults[k] # {} THEN defaults[k] \cup rows[k] ELSE rows[k]
                          /\ defaults[k] # {} => rows[k] \subseteq merged'
                          /\ merged \subseteq merged'
  BY DEF Reset
<1> QED
  BY <1>1 DEF DefaultsInv

LEMMA CodesFirst == WasmCodesInit => CodesInv
BY DEF WasmCodesInit, CodesInv, DefaultsInv, TrackedInv, None

LEMMA CodesStep == CodesInv /\ [WasmCodesNext]_codeVars => CodesInv'
<1> SUFFICES ASSUME CodesInv, [WasmCodesNext]_codeVars PROVE CodesInv'
  OBVIOUS
<1>1. CASE UNCHANGED codeVars
  BY <1>1 DEF codeVars, CodesInv, DefaultsInv, TrackedInv
<1>2. CASE ConfigChanges
  BY <1>2 DEF ConfigChanges, setDefaultWasmCodes, Merge, CodesInv, DefaultsInv, TrackedInv
<1>3. ASSUME NEW r \in Reloads, ReloadReads(r) PROVE CodesInv'
  BY <1>3 DEF ReloadReads, CodesInv, DefaultsInv, TrackedInv
<1>4. ASSUME NEW r \in Reloads, ReloadApplies(r) PROVE CodesInv'
  <2>1. DefaultsInv'
    BY <1>4, ResetKnows DEF ReloadApplies, CodesInv
  <2> QED
    BY <1>4, <2>1 DEF ReloadApplies, CodesInv, TrackedInv
<1>5. CASE Refresh
  <2>1. DefaultsInv'
    BY <1>5, ResetKnows DEF Refresh, CodesInv
  <2> QED
    BY <1>5, <2>1 DEF Refresh, CodesInv, TrackedInv
<1>6. ASSUME NEW c \in Tracked, NEW id \in CodeIds, NEW is \in CodeKeys, trackCodes(c, id, is) \/ trackCodesFails(c, id, is)
      PROVE  CodesInv'
  <2>1. Indexed(c, id, is)
    BY <1>6 DEF trackCodes, trackCodesFails
  <2>2. DefaultsInv'
    BY <2>1 DEF Indexed, CodesInv, DefaultsInv
  <2>3. /\ DOMAIN states' = Tracked /\ \A d \in Tracked : states[d] \subseteq states'[d]
        /\ \E s \in states'[c] : s.code = id
    <3>1. DOMAIN states = Tracked
      BY DEF CodesInv, TrackedInv
    <3>2. PICK s : s = [code |-> id, is |-> is]
      OBVIOUS
    <3>3. states' = [states EXCEPT ![c] = @ \cup {s}] /\ s.code = id
      BY <2>1, <3>2 DEF Indexed
    <3> QED
      BY <3>1, <3>3
  <2>4. ASSUME NEW k \in CodeKeys, NEW i \in codeDb'[k]
        PROVE  \E d \in Tracked : (\E s \in states'[d] : s.code = i) /\ (\E s \in states'[d] : s.is = k)
    <3>1. CASE i \in codeDb[k]
      BY <2>3, <3>1 DEF CodesInv, TrackedInv
    <3>2. CASE i \notin codeDb[k]
      <4>1. i = id /\ k \in {s.is : s \in states'[c]}
        BY <1>6, <2>4, <3>2 DEF trackCodes, trackCodesFails, getTrackedStateEvents
      <4> QED
        BY <2>3, <4>1
    <3> QED
      BY <3>1, <3>2
  <2> QED
    BY <2>2, <2>3, <2>4 DEF CodesInv, TrackedInv
<1>7. ASSUME NEW k \in CodeKeys, NEW id \in CodeIds, RemoveCode(k, id) PROVE CodesInv'
  <2>1. \A x \in CodeKeys : codeDb'[x] \subseteq codeDb[x]
    BY <1>7 DEF RemoveCode
  <2> QED
    BY <1>7, <2>1 DEF RemoveCode, CodesInv, DefaultsInv, TrackedInv
<1> QED
  BY <1>1, <1>2, <1>3, <1>4, <1>5, <1>6, <1>7 DEF WasmCodesNext

\* The codes of the configuration are always known, a code is saved under a key only for a
\* contract that had the one and was the other, and a reload forgets what is neither
\* configured nor saved.
THEOREM CodesHold == WasmCodesSpec => CodesAreKnown
<1>1. CodesInv => ConfiguredIsKnown /\ TrackedIsMatched
  BY DEF CodesInv, DefaultsInv, TrackedInv, ConfiguredIsKnown, TrackedIsMatched, matchesWasmCodeKeys,
         findWasmCodeIdsByKeys, findWasmCodeKeysById
<1> DEFINE Forgets == \A k \in CodeKeys, id \in CodeIds :
                          (/\ DOMAIN loading = {} /\ Refresh
                           /\ id \notin codeDb[k] /\ id \notin configured[k] /\ id \notin merged)
                          => id \notin codes'[k]
<1>2. CodesInv /\ [WasmCodesNext]_codeVars => Forgets
  <2> SUFFICES ASSUME CodesInv, NEW k \in CodeKeys, NEW id \in CodeIds, Refresh,
                      id \notin codeDb[k], id \notin configured[k], id \notin merged
               PROVE  id \notin codes'[k]
    OBVIOUS
  <2>1. codes'[k] = IF defaults[k] # {} THEN defaults[k] \cup codeDb[k] ELSE codeDb[k]
    BY DEF Refresh, Reset
  <2> QED
    BY <2>1 DEF CodesInv, DefaultsInv
<1>3. CodesInv /\ [WasmCodesNext]_codeVars => [Forgets]_codeVars
  BY <1>2
<1> HIDE DEF Forgets
<1>4. WasmCodesSpec => []CodesInv
  BY CodesFirst, CodesStep, PTL DEF WasmCodesSpec
<1>5. WasmCodesSpec => [][Forgets]_codeVars
  BY <1>3, <1>4, PTL DEF WasmCodesSpec
<1>6. [][Forgets]_codeVars => RemovedIsForgotten
  BY DEF RemovedIsForgotten, Forgets
<1> QED
  BY <1>1, <1>4, <1>5, <1>6, PTL DEF CodesAreKnown

-----------------------------------------------------------------------------
(* Deposit webhooks.                                                       *)

\* A registration with the columns of an update.
Merged(x, cols) == [c \in DOMAIN x |-> IF c \in DOMAIN cols THEN cols[c] ELSE x[c]]

\* At most one validated update of a registration is pending, unless they raced.
PendingValid(r) == regEdit[r] # <<>> => \E y : regEdit[r] = <<y>> /\ ValidRegistration(Merged(reg[r][1], y))
RegInv ==
    /\ reg = [r \in DOMAIN reg |-> reg[r]]
    /\ regEdit = [r \in DOMAIN reg |-> regEdit[r]]
    /\ \A r \in DOMAIN reg :
           /\ reg[r] = <<>> => regEdit[r] = <<>>
           /\ reg[r] # <<>> => reg[r] = <<reg[r][1]>> /\ DOMAIN reg[r][1] = DepositColumns
           /\ r \notin regRaces => PendingValid(r)
    /\ RegistrationsKeepFilters

IsAttempt(x) == x = [phase |-> x.phase, regs |-> x.regs, out |-> x.out]
RunInv ==
    /\ run = [j \in DOMAIN run |-> [a \in Attempts |-> run[j][a]]]
    /\ \A j \in DOMAIN run, a \in Attempts : IsAttempt(run[j][a])

\* What a query read is fresh in the sense that the cache is.
Fresh(regs) == regs = Enabled \/ invalidations > 0 \/ unsure
CacheInv ==
    /\ invalidations \in Nat
    /\ cache.set => Fresh(cache.regs)
    /\ \A j \in DOMAIN run, a \in Attempts : run[j][a].phase = "query" => Fresh(run[j][a].regs)

\* Registrations that were read are as they were, unless they moved.
Known(regs) == \A x \in regs : x.id \notin moved => x \in Enabled
KnownInv ==
    /\ cache.set => Known(cache.regs)
    /\ \A j \in DOMAIN run, a \in Attempts : run[j][a].phase # "no" => Known(run[j][a].regs)

\* What an extraction was extracted from; the place of its deposit can be told from
\* its key.
Drawn(e, x) == x.id = e.key.reg /\ [key |-> e.key, deposit |-> e.deposit] \in extract(Transfers[e.job], {x})
Told(t, k, d) ==
    IF t.type = "bank" THEN \E at \in Seq(Int), n \in Int : d = <<k.wallet, at, k.asset>> /\ k.index = Append(at, n)
                       ELSE d = <<k.wallet, <<t.index>>, k.asset>>
ExtractionInv ==
    \A e \in extraction :
        /\ e.job \in DOMAIN run /\ (\E a \in Attempts : run[e.job][a].phase # "no")
        /\ e.key.reg \notin moved => \E x \in Enabled : Drawn(e, x)
        /\ Told(Transfers[e.job], e.key, e.deposit)

\* The jobs of a behaviour are among the transfers.
JobsInv == DOMAIN run \subseteq DOMAIN Transfers
DepositsInv == RegInv /\ RunInv /\ JobsInv /\ CacheInv /\ KnownInv /\ ExtractionInv

LEMMA RegistrationColumns ==
  ASSUME NEW x \in Registration
  PROVE  DOMAIN x = DepositColumns
BY DEF Registration, DepositColumns

LEMMA EnabledOnce ==
  ASSUME NEW x \in Enabled, NEW y \in Enabled, x.id = y.id
  PROVE  x = y
BY DEF Enabled

\* Coins are extracted for a registration one by one.
CoinIndex(x, w, coins, i) ==
    Cardinality({k \in {h \in DOMAIN coins : matchesNativeDeposit(x.filter, w, coins[h].denom)} : k < i})
CoinExtraction(x, w, coins, at, i) ==
    [key |-> IdempotencyKey(x.id, w, coins[i].denom, coins[i].amount, Append(at, CoinIndex(x, w, coins, i))),
     deposit |-> <<w, at, coins[i].denom>>]
Place(t, o) == IF t.multi THEN <<t.index, o - 1>> ELSE <<t.index>>
OutputExtractions(t, x, o) == CoinExtractions(x, t.outputs[o].address, t.outputs[o].coins, Place(t, o))
OutputExtraction(t, x, o, i) == CoinExtraction(x, t.outputs[o].address, t.outputs[o].coins, Place(t, o), i)

LEMMA CoinDrawn ==
  ASSUME NEW t, NEW x, NEW o, NEW e \in OutputExtractions(t, x, o)
  PROVE  \E i \in DOMAIN t.outputs[o].coins : e = OutputExtraction(t, x, o, i)
BY DEF OutputExtractions, OutputExtraction, CoinExtractions, CoinExtraction, CoinIndex

LEMMA CoinIndexIsInt ==
  ASSUME NEW x, NEW w, NEW coins, NEW i, IsFiniteSet(DOMAIN coins)
  PROVE  CoinIndex(x, w, coins, i) \in Int
<1> DEFINE before == {k \in {h \in DOMAIN coins : matchesNativeDeposit(x.filter, w, coins[h].denom)} : k < i}
<1>1. before \subseteq DOMAIN coins
  OBVIOUS
<1>2. IsFiniteSet(before)
  BY <1>1, FS_Subset
<1>3. Cardinality(before) \in Int
  BY <1>2, FS_CardinalityType
<1> QED
  BY <1>3 DEF CoinIndex

LEMMA BankDrawn ==
  ASSUME NEW t, t.type = "bank", NEW regs, NEW e \in extract(t, regs)
  PROVE  \E x \in regs, o \in DOMAIN t.outputs : e \in OutputExtractions(t, x, o)
BY DEF extract, extractBankTransfers, OutputExtractions, Place

LEMMA ExtractOne ==
  ASSUME NEW t, NEW regs, NEW e \in extract(t, regs)
  PROVE  \E x \in regs : e.key.reg = x.id /\ e = [key |-> e.key, deposit |-> e.deposit] /\ e \in extract(t, {x})
<1>1. CASE t.type = "bank"
  <2>1. PICK x \in regs, o \in DOMAIN t.outputs : e \in OutputExtractions(t, x, o)
    BY <1>1, BankDrawn
  <2>2. e \in extract(t, {x})
    BY <1>1, <2>1 DEF extract, extractBankTransfers, OutputExtractions, Place
  <2>3. PICK i : e = OutputExtraction(t, x, o, i)
    BY <2>1, CoinDrawn
  <2>4. e.key.reg = x.id /\ e = [key |-> e.key, deposit |-> e.deposit]
    BY <2>3 DEF OutputExtraction, CoinExtraction, IdempotencyKey
  <2> QED
    BY <2>2, <2>4
<1>2. CASE t.type # "bank"
  BY <1>2 DEF extract, extractCw20Transfers, IdempotencyKey
<1> QED
  BY <1>1, <1>2

LEMMA ExtractTold ==
  ASSUME NEW t, TransferOK(t), NEW regs, NEW e \in extract(t, regs)
  PROVE  Told(t, e.key, e.deposit)
<1>1. CASE t.type = "bank"
  <2>1. PICK x \in regs, o \in DOMAIN t.outputs : e \in OutputExtractions(t, x, o)
    BY <1>1, BankDrawn
  <2>2. /\ t.index \in Int /\ o \in Int
        /\ IsFiniteSet(DOMAIN t.outputs[o].coins)
    BY <1>1, <2>1 DEF TransferOK
  <2>3. Place(t, o) \in Seq(Int)
    BY <2>2 DEF Place
  <2>4. PICK i : e = OutputExtraction(t, x, o, i)
    BY <2>1, CoinDrawn
  <2>5. PICK n : n = CoinIndex(x, t.outputs[o].address, t.outputs[o].coins, i)
    OBVIOUS
  <2>6. n \in Int
    BY <2>2, <2>5, CoinIndexIsInt
  <2>7. e.deposit = <<e.key.wallet, Place(t, o), e.key.asset>> /\ e.key.index = Append(Place(t, o), n)
    BY <2>4, <2>5 DEF OutputExtraction, CoinExtraction, IdempotencyKey
  <2> QED
    BY <1>1, <2>3, <2>6, <2>7 DEF Told
<1>2. CASE t.type # "bank"
  BY <1>2 DEF extract, extractCw20Transfers, IdempotencyKey, Told
<1> QED
  BY <1>1, <1>2

\* Keys that are the same tell of the same deposit.
LEMMA ToldOnce ==
  ASSUME NEW t, NEW k, NEW d, NEW c, Told(t, k, d), Told(t, k, c)
  PROVE  d = c
<1>1. CASE t.type = "bank"
  <2>1. PICK a \in Seq(Int), m \in Int : d = <<k.wallet, a, k.asset>> /\ k.index = Append(a, m)
    BY <1>1 DEF Told
  <2>2. PICK b \in Seq(Int), n \in Int : c = <<k.wallet, b, k.asset>> /\ k.index = Append(b, n)
    BY <1>1 DEF Told
  <2>3. Append(a, m) = Append(b, n)
    BY <2>1, <2>2
  <2>4. a = b
    BY ONLY <2>3, AppendInjective, a \in Seq(Int), b \in Seq(Int), m \in Int, n \in Int
  <2> QED
    BY <2>1, <2>2, <2>4
<1>2. CASE t.type # "bank"
  BY <1>2 DEF Told
<1> QED
  BY <1>1, <1>2

\* One deposit has one key for a registration.
LEMMA DrawnOnce ==
  ASSUME NEW t, TransferOK(t), NEW x, NEW e \in extract(t, {x}), NEW f \in extract(t, {x}),
         e.deposit = f.deposit
  PROVE  e.key = f.key
<1>1. CASE t.type = "bank"
  <2>1. PICK o \in DOMAIN t.outputs : e \in OutputExtractions(t, x, o)
    BY <1>1, BankDrawn
  <2>2. PICK p \in DOMAIN t.outputs : f \in OutputExtractions(t, x, p)
    BY <1>1, BankDrawn
  <2>3. PICK i \in DOMAIN t.outputs[o].coins : e = OutputExtraction(t, x, o, i)
    BY <2>1, CoinDrawn
  <2>4. PICK l \in DOMAIN t.outputs[p].coins : f = OutputExtraction(t, x, p, l)
    BY <2>2, CoinDrawn
  <2>5. Place(t, o) = Place(t, p) /\ t.outputs[o].coins[i].denom = t.outputs[p].coins[l].denom
    BY <2>3, <2>4 DEF OutputExtraction, CoinExtraction
  <2>6. o = p
    <3>1. o \in Nat /\ p \in Nat /\ (t.multi \/ (o = 1 /\ p = 1))
      BY <1>1, <2>1, <2>2 DEF TransferOK
    <3>2. CASE t.multi
      BY <3>1, <3>2, <2>5 DEF Place
    <3> QED
      BY <3>1, <3>2
  <2>7. i = l
    BY <1>1, <2>5, <2>6 DEF TransferOK
  <2> QED
    BY <2>3, <2>4, <2>6, <2>7
<1>2. CASE t.type # "bank"
  BY <1>2 DEF extract, extractCw20Transfers, IdempotencyKey
<1> QED
  BY <1>1, <1>2

\* A change of a registration, of which the worker hears or not.
LEMMA PublishStays ==
  ASSUME DepositsInv, NEW r \in DOMAIN reg, Publish(r), NEW v, reg' = [reg EXCEPT ![r] = v],
         UNCHANGED <<cache, run, extraction>>
  PROVE  RunInv' /\ JobsInv' /\ CacheInv' /\ KnownInv' /\ ExtractionInv'
<1>1. RunInv' /\ JobsInv' /\ CacheInv'
  <2>1. RunInv' /\ JobsInv'
    BY DEF DepositsInv, RunInv, JobsInv
  <2>2. invalidations \in Nat
    BY DEF DepositsInv, CacheInv
  <2>3. invalidations' \in Nat /\ (invalidations' > 0 \/ unsure')
    BY <2>2 DEF Publish
  <2> QED
    BY <2>1, <2>3 DEF CacheInv, Fresh
<1>2. \A x \in Enabled : x.id # r => x \in Enabled'
  BY DEF Enabled
<1>3. CASE ~Read
  <2>1. extraction' = {}
    BY <1>3 DEF Read, DepositsInv, ExtractionInv
  <2>2. ~cache'.set /\ \A j \in DOMAIN run', a \in Attempts : run'[j][a].phase = "no"
    BY <1>3 DEF Read
  <2>3. KnownInv'
    BY <2>2 DEF KnownInv
  <2>4. ExtractionInv'
    BY <2>1 DEF ExtractionInv
  <2> QED
    BY <1>1, <2>3, <2>4
<1>4. CASE Read
  <2>1. moved' = moved \cup {r}
    BY <1>4 DEF Publish
  <2>2. ASSUME NEW regs, Known(regs) PROVE Known(regs)'
    BY <2>1, <2>2, <1>2 DEF Known
  <2>3. KnownInv'
    <3>1. cache.set => Known(cache.regs)'
      BY <2>2 DEF DepositsInv, KnownInv
    <3>2. \A j \in DOMAIN run, a \in Attempts : run[j][a].phase # "no" => Known(run[j][a].regs)'
      BY <2>2 DEF DepositsInv, KnownInv
    <3> QED
      BY <3>1, <3>2 DEF KnownInv, Known
  <2>4. ExtractionInv'
    <3> SUFFICES ASSUME NEW e \in extraction, e.key.reg \notin moved' PROVE \E x \in Enabled' : Drawn(e, x)
      BY DEF DepositsInv, ExtractionInv, Drawn
    <3>1. PICK x \in Enabled : Drawn(e, x)
      BY <2>1 DEF DepositsInv, ExtractionInv
    <3>2. x.id # r
      BY <2>1, <3>1 DEF Drawn
    <3> QED
      BY <3>1, <3>2, <1>2
  <2> QED
    BY <1>1, <2>3, <2>4
<1> QED
  BY <1>3, <1>4

\* A registration is saved, or removed.
LEMMA RegSaved ==
  ASSUME RegInv, NEW r \in DOMAIN reg, NEW v, NEW w,
         reg' = [reg EXCEPT ![r] = v], regEdit' = [regEdit EXCEPT ![r] = w], UNCHANGED regRaces,
         v = <<>> => w = <<>>,
         v # <<>> => v = <<v[1]>> /\ DOMAIN v[1] = DepositColumns,
         r \notin regRaces => w = <<>> /\ (v # <<>> => ValidRegistration(v[1]))
  PROVE  RegInv'
<1>1. DOMAIN reg' = DOMAIN reg /\ reg'[r] = v /\ (\A q \in DOMAIN reg \ {r} : reg'[q] = reg[q])
  BY DEF RegInv
<1>2. regEdit'[r] = w /\ (\A q \in DOMAIN reg \ {r} : regEdit'[q] = regEdit[q])
  BY DEF RegInv
<1>3. reg' = [q \in DOMAIN reg' |-> reg'[q]] /\ regEdit' = [q \in DOMAIN reg' |-> regEdit'[q]]
  BY DEF RegInv
<1>4. ASSUME NEW q \in DOMAIN reg
      PROVE  /\ reg'[q] = <<>> => regEdit'[q] = <<>>
             /\ reg'[q] # <<>> => reg'[q] = <<reg'[q][1]>> /\ DOMAIN reg'[q][1] = DepositColumns
             /\ q \notin regRaces => PendingValid(q)'
             /\ q \notin regRaces /\ reg'[q] # <<>> => ValidRegistration(reg'[q][1])
  <2>1. CASE q = r
    BY <1>1, <1>2, <2>1 DEF PendingValid
  <2>2. CASE q # r
    <3>1. reg'[q] = reg[q] /\ regEdit'[q] = regEdit[q]
      BY <1>1, <1>2, <2>2
    <3>2. PendingValid(q)' <=> PendingValid(q)
      BY <3>1 DEF PendingValid
    <3> QED
      BY <3>1, <3>2 DEF RegInv, RegistrationsKeepFilters
  <2> QED
    BY <2>1, <2>2
<1>5. RegistrationsKeepFilters'
  BY <1>1, <1>4 DEF RegistrationsKeepFilters
<1> QED
  BY <1>1, <1>3, <1>4, <1>5 DEF RegInv

LEMMA CreateKeeps ==
  ASSUME DepositsInv, NEW r \in DOMAIN reg, createDepositWebhookRegistration(r)
  PROVE  DepositsInv'
<1>1. PICK x \in Registration : ValidRegistration(x) /\ reg' = [reg EXCEPT ![r] = <<x>>]
  BY DEF createDepositWebhookRegistration
<1>2. Publish(r) /\ reg[r] = <<>> /\ UNCHANGED <<regEdit, regRaces, cache, run, extraction, queued, failures, limit>>
  BY DEF createDepositWebhookRegistration
<1>3. regEdit' = [regEdit EXCEPT ![r] = <<>>]
  BY <1>2 DEF DepositsInv, RegInv
<1>4. RegInv'
  <2>1. DOMAIN x = DepositColumns /\ <<x>> # <<>> /\ <<x>>[1] = x
    BY <1>1, RegistrationColumns
  <2>2. PICK v : v = <<x>>
    OBVIOUS
  <2>3. v # <<>> /\ v = <<v[1]>> /\ DOMAIN v[1] = DepositColumns /\ ValidRegistration(v[1]) /\ reg' = [reg EXCEPT ![r] = v]
    BY <1>1, <2>1, <2>2
  <2> QED
    BY <1>2, <1>3, <2>3, RegSaved DEF DepositsInv
<1>5. RunInv' /\ JobsInv' /\ CacheInv' /\ KnownInv' /\ ExtractionInv'
  BY <1>1, <1>2, PublishStays
<1> QED
  BY <1>4, <1>5 DEF DepositsInv

LEMMA DeleteKeeps ==
  ASSUME DepositsInv, NEW r \in DOMAIN reg, deleteDepositWebhookRegistration(r)
  PROVE  DepositsInv'
<1>1. /\ Publish(r) /\ reg' = [reg EXCEPT ![r] = <<>>] /\ regEdit[r] = <<>>
      /\ UNCHANGED <<regEdit, regRaces, cache, run, extraction, queued, failures, limit>>
  BY DEF deleteDepositWebhookRegistration
<1>2. regEdit' = [regEdit EXCEPT ![r] = <<>>]
  BY <1>1 DEF DepositsInv, RegInv
<1>3. RegInv'
  BY <1>1, <1>2, RegSaved DEF DepositsInv
<1>4. RunInv' /\ JobsInv' /\ CacheInv' /\ KnownInv' /\ ExtractionInv'
  BY <1>1, PublishStays
<1> QED
  BY <1>3, <1>4 DEF DepositsInv

LEMMA SaveKeeps ==
  ASSUME DepositsInv, NEW r \in DOMAIN reg, SaveRegistration(r)
  PROVE  DepositsInv'
<1>1. PICK cols : cols = Head(regEdit[r])
  OBVIOUS
<1>2. PICK next : next = Merged(reg[r][1], cols)
  OBVIOUS
<1>3. PICK w : w = Tail(regEdit[r])
  OBVIOUS
<1>4. /\ Publish(r) /\ regEdit[r] # <<>> /\ reg' = [reg EXCEPT ![r] = <<next>>] /\ regEdit' = [regEdit EXCEPT ![r] = w]
      /\ UNCHANGED <<regRaces, cache, run, extraction, queued, failures, limit>>
  BY <1>1, <1>2, <1>3 DEF SaveRegistration, Merged, DepositsInv, RegInv
<1>5. DOMAIN next = DepositColumns
  BY <1>2, <1>4 DEF Merged, DepositsInv, RegInv
<1>6. r \notin regRaces => w = <<>> /\ ValidRegistration(next)
  <2> SUFFICES ASSUME r \notin regRaces PROVE w = <<>> /\ ValidRegistration(next)
    OBVIOUS
  <2>1. PICK y : regEdit[r] = <<y>> /\ ValidRegistration(Merged(reg[r][1], y))
    BY <1>4 DEF DepositsInv, RegInv, PendingValid
  <2>2. cols = y /\ w = <<>>
    BY <2>1, <1>1, <1>3
  <2> QED
    BY <2>1, <2>2, <1>2
<1>7. PICK v : v = <<next>>
  OBVIOUS
<1>8. v # <<>> /\ v = <<v[1]>> /\ v[1] = next /\ reg' = [reg EXCEPT ![r] = v]
  BY <1>4, <1>7
<1>9. RegInv'
  BY <1>4, <1>5, <1>6, <1>8, RegSaved DEF DepositsInv
<1>10. RunInv' /\ JobsInv' /\ CacheInv' /\ KnownInv' /\ ExtractionInv'
  BY <1>4, PublishStays
<1> QED
  BY <1>9, <1>10 DEF DepositsInv

\* The steps that leave the registrations, or what was read of them, alone.
LEMMA RegStays ==
  ASSUME RegInv, UNCHANGED <<reg, regEdit, regRaces>>
  PROVE  RegInv'
BY DEF RegInv, PendingValid, RegistrationsKeepFilters

LEMMA ExtractionStays ==
  ASSUME ExtractionInv, UNCHANGED <<reg, moved, run, extraction>>
  PROVE  ExtractionInv'
BY DEF ExtractionInv, Enabled, Drawn

LEMMA KnownStays ==
  ASSUME KnownInv, UNCHANGED <<reg, moved, run>>, cache' = cache \/ ~cache'.set
  PROVE  KnownInv'
BY DEF KnownInv, Known, Enabled

LEMMA UpdateKeeps ==
  ASSUME DepositsInv, NEW r \in DOMAIN reg, updateDepositWebhookRegistration(r)
  PROVE  DepositsInv'
<1>1. /\ reg[r] # <<>> /\ regRaces' = IF regEdit[r] = <<>> THEN regRaces ELSE regRaces \cup {r}
      /\ UNCHANGED <<reg, cache, invalidations, unsure, run, extraction, moved, queued, failures, limit>>
  BY DEF updateDepositWebhookRegistration
<1>2. PICK x \in Registration, cols \in BodyColumns :
          LET next == [c \in DOMAIN x |-> IF c \in cols THEN x[c] ELSE reg[r][1][c]]
          IN  /\ ValidRegistration(next)
              /\ regEdit' = [regEdit EXCEPT ![r] = Append(@, [c \in cols |-> x[c]])]
  BY DEF updateDepositWebhookRegistration
<1>3. PICK y : y = [c \in cols |-> x[c]]
  OBVIOUS
<1>4. regEdit' = [regEdit EXCEPT ![r] = Append(@, y)]
  BY <1>2, <1>3
<1>5. DOMAIN x = DepositColumns /\ DOMAIN reg[r][1] = DepositColumns
  BY <1>1, RegistrationColumns DEF DepositsInv, RegInv
<1>6. Merged(reg[r][1], y) = [c \in DOMAIN x |-> IF c \in cols THEN x[c] ELSE reg[r][1][c]]
  BY <1>3, <1>5 DEF Merged
<1>7. ValidRegistration(Merged(reg[r][1], y))
  BY <1>2, <1>6
<1>8. RegInv'
  <2>1. /\ regEdit'[r] = Append(regEdit[r], y) /\ (\A q \in DOMAIN reg \ {r} : regEdit'[q] = regEdit[q])
        /\ regEdit' = [q \in DOMAIN reg |-> regEdit'[q]]
    BY <1>4 DEF DepositsInv, RegInv
  <2>2. RegistrationsKeepFilters'
    BY <1>1 DEF DepositsInv, RegInv, RegistrationsKeepFilters
  <2>3. regRaces \subseteq regRaces' /\ (r \notin regRaces' => regEdit[r] = <<>>)
    BY <1>1
  <2>4. ASSUME NEW q \in DOMAIN reg
        PROVE  /\ reg[q] = <<>> => regEdit'[q] = <<>>
               /\ q \notin regRaces' => PendingValid(q)'
    <3>1. CASE q = r
      <4>1. r \notin regRaces' => regEdit'[r] = <<y>>
        <5>1. regEdit[r] = <<>> => Append(regEdit[r], y) = <<y>>
          OBVIOUS
        <5> QED
          BY <2>1, <2>3, <5>1
      <4> QED
        BY <3>1, <4>1, <1>1, <1>7 DEF PendingValid
    <3>2. CASE q # r
      <4>1. regEdit'[q] = regEdit[q]
        BY <2>1, <3>2
      <4>2. PendingValid(q)' <=> PendingValid(q)
        BY <4>1, <1>1 DEF PendingValid
      <4> QED
        BY <2>3, <4>1, <4>2 DEF DepositsInv, RegInv
    <3> QED
      BY <3>1, <3>2
  <2> QED
    BY <1>1, <2>1, <2>2, <2>4 DEF DepositsInv, RegInv
<1>9. RunInv' /\ JobsInv'
  BY <1>1 DEF DepositsInv, RunInv, JobsInv
<1>10. CacheInv' /\ KnownInv' /\ ExtractionInv'
  <2>1. CacheInv'
    BY <1>1 DEF DepositsInv, CacheInv, Fresh, Enabled
  <2>2. KnownInv' /\ ExtractionInv'
    BY <1>1, KnownStays, ExtractionStays DEF DepositsInv
  <2> QED
    BY <2>1, <2>2
<1> QED
  BY <1>8, <1>9, <1>10 DEF DepositsInv

\* The cache is dropped.
LEMMA InvalidateKeeps ==
  ASSUME DepositsInv, Invalidate
  PROVE  DepositsInv'
<1>1. /\ invalidations > 0 /\ invalidations' = invalidations - 1 /\ ~cache'.set
      /\ unsure' = (unsure \/ \E j \in DOMAIN run, a \in Attempts : run[j][a].phase = "query")
      /\ UNCHANGED <<reg, regEdit, regRaces, run, extraction, moved>>
  BY DEF Invalidate, NoCache
<1>2. CacheInv'
  <2>1. invalidations' \in Nat
    BY <1>1 DEF DepositsInv, CacheInv
  <2>2. \A j \in DOMAIN run', a \in Attempts : run'[j][a].phase = "query" => unsure'
    BY <1>1
  <2> QED
    BY <1>1, <2>1, <2>2 DEF CacheInv, Fresh
<1>3. RegInv' /\ KnownInv' /\ ExtractionInv'
  BY <1>1, RegStays, KnownStays, ExtractionStays DEF DepositsInv
<1>4. RunInv' /\ JobsInv'
  BY <1>1 DEF DepositsInv, RunInv, JobsInv
<1> QED
  BY <1>2, <1>3, <1>4 DEF DepositsInv

LEMMA ExpiryKeeps ==
  ASSUME DepositsInv, CacheExpires
  PROVE  DepositsInv'
<1>1. ~cache'.set /\ UNCHANGED <<reg, regEdit, regRaces, invalidations, unsure, run, extraction, moved>>
  BY DEF CacheExpires, NoCache
<1>2. CacheInv'
  BY <1>1 DEF DepositsInv, CacheInv, Fresh, Enabled
<1>3. RegInv' /\ KnownInv' /\ ExtractionInv'
  BY <1>1, RegStays, KnownStays, ExtractionStays DEF DepositsInv
<1>4. RunInv' /\ JobsInv'
  BY <1>1 DEF DepositsInv, RunInv, JobsInv
<1> QED
  BY <1>2, <1>3, <1>4 DEF DepositsInv

\* One attempt changes.
LEMMA AttemptChanges ==
  ASSUME RunInv, NEW j \in DOMAIN run, NEW a \in Attempts, NEW v, IsAttempt(v),
         run' = [run EXCEPT ![j][a] = v]
  PROVE  /\ RunInv' /\ DOMAIN run' = DOMAIN run
         /\ run'[j][a] = v
         /\ \A k \in DOMAIN run, b \in Attempts : (k # j \/ b # a) => run'[k][b] = run[k][b]
<1>1. /\ DOMAIN run' = DOMAIN run /\ run'[j][a] = v
      /\ \A k \in DOMAIN run, b \in Attempts : (k # j \/ b # a) => run'[k][b] = run[k][b]
  BY DEF RunInv
<1>2. run' = [k \in DOMAIN run |-> [b \in Attempts |-> run'[k][b]]]
  BY DEF RunInv
<1>3. \A k \in DOMAIN run, b \in Attempts : IsAttempt(run'[k][b])
  BY <1>1 DEF RunInv
<1>4. RunInv'
  BY <1>1, <1>2, <1>3 DEF RunInv, IsAttempt
<1> QED
  BY <1>1, <1>4

LEMMA AttemptKeeps ==
  ASSUME DepositsInv, NEW j \in DOMAIN run, NEW a \in Attempts, NEW v, IsAttempt(v),
         run' = [run EXCEPT ![j][a] = v],
         UNCHANGED <<reg, regEdit, regRaces, invalidations, unsure, moved>>,
         v.phase # "no", Known(v.regs), v.phase = "query" => Fresh(v.regs),
         cache' = cache \/ (Fresh(cache'.regs) /\ Known(cache'.regs)),
         \A e \in extraction' \ extraction :
             /\ e.job \in DOMAIN run' /\ (\E b \in Attempts : run'[e.job][b].phase # "no")
             /\ e.key.reg \notin moved => \E x \in Enabled : Drawn(e, x)
             /\ Told(Transfers[e.job], e.key, e.deposit)
  PROVE  DepositsInv'
<1>1. /\ RunInv' /\ DOMAIN run' = DOMAIN run
      /\ run'[j][a] = v
      /\ \A k \in DOMAIN run, b \in Attempts : (k # j \/ b # a) => run'[k][b] = run[k][b]
  <2>1. RunInv
    BY DEF DepositsInv
  <2>2. RunInv' /\ DOMAIN run' = DOMAIN run
    BY ONLY <2>1, AttemptChanges, j \in DOMAIN run, a \in Attempts, IsAttempt(v),
       run' = [run EXCEPT ![j][a] = v]
  <2>3. /\ run'[j][a] = v
        /\ \A k \in DOMAIN run, b \in Attempts : (k # j \/ b # a) => run'[k][b] = run[k][b]
    BY <2>1 DEF RunInv
  <2> QED
    BY <2>2, <2>3
<1>2. Enabled' = Enabled /\ (\A regs : Known(regs)' <=> Known(regs)) /\ (\A regs : Fresh(regs)' <=> Fresh(regs))
  <2>1. Enabled' = Enabled
    BY DEF Enabled
  <2> QED
    BY <2>1 DEF Known, Fresh
<1>3. ASSUME NEW k \in DOMAIN run, NEW b \in Attempts
      PROVE  /\ run'[k][b].phase # "no" => Known(run'[k][b].regs)
             /\ run'[k][b].phase = "query" => Fresh(run'[k][b].regs)
             /\ run[k][b].phase # "no" => run'[k][b].phase # "no"
  <2>1. CASE k = j /\ b = a
    BY <1>1, <2>1
  <2>2. CASE k # j \/ b # a
    <3>1. run'[k][b] = run[k][b]
      BY <1>1, <2>2
    <3> QED
      BY <3>1 DEF DepositsInv, KnownInv, CacheInv
  <2> QED
    BY <2>1, <2>2
<1>4. cache'.set => Known(cache'.regs) /\ Fresh(cache'.regs)
  BY DEF DepositsInv, KnownInv, CacheInv
<1>5. CacheInv'
  BY <1>1, <1>2, <1>3, <1>4 DEF CacheInv, DepositsInv, Fresh
<1>6. KnownInv'
  BY <1>1, <1>2, <1>3, <1>4 DEF KnownInv, Known
<1>7. ExtractionInv'
  <2>1. ASSUME NEW e \in extraction', NEW x, Drawn(e, x) PROVE Drawn(e, x)'
    BY <2>1 DEF Drawn
  <2>2. ASSUME NEW e \in extraction
        PROVE  /\ e.job \in DOMAIN run' /\ (\E b \in Attempts : run'[e.job][b].phase # "no")
               /\ e.key.reg \notin moved => \E x \in Enabled : Drawn(e, x)
               /\ Told(Transfers[e.job], e.key, e.deposit)
    BY <1>1, <1>3 DEF DepositsInv, ExtractionInv
  <2>3. ASSUME NEW e \in extraction'
        PROVE  /\ e.job \in DOMAIN run' /\ (\E b \in Attempts : run'[e.job][b].phase # "no")
               /\ e.key.reg \notin moved => \E x \in Enabled : Drawn(e, x)
               /\ Told(Transfers[e.job], e.key, e.deposit)
    <3>1. CASE e \in extraction
      BY <3>1, <2>2
    <3>2. CASE e \notin extraction
      BY <3>2
    <3> QED
      BY <3>1, <3>2
  <2> QED
    BY <1>2, <2>1, <2>3 DEF ExtractionInv
<1>8. RegInv' /\ JobsInv'
  BY <1>1, RegStays DEF DepositsInv, JobsInv
<1> QED
  BY <1>1, <1>5, <1>6, <1>7, <1>8 DEF DepositsInv

\* The registrations that an attempt read stay known while it goes on.
LEMMA AttemptPhaseKeeps ==
  ASSUME DepositsInv, NEW j \in DOMAIN run, NEW a \in Attempts, NEW p,
         run[j][a].phase # "no", p \notin {"no", "query"},
         run' = [run EXCEPT ![j][a].phase = p],
         cache' = cache \/ (run[j][a].phase = "query" /\ cache'.regs = run[j][a].regs),
         UNCHANGED <<reg, regEdit, regRaces, invalidations, unsure, moved, extraction>>
  PROVE  DepositsInv'
<1>1. PICK x : x = run[j][a]
  OBVIOUS
<1>2. PICK v : v = [x EXCEPT !.phase = p]
  OBVIOUS
<1>3. x = [phase |-> x.phase, regs |-> x.regs, out |-> x.out]
  BY <1>1 DEF DepositsInv, RunInv, IsAttempt
<1>4. v = [phase |-> p, regs |-> x.regs, out |-> x.out]
  BY <1>2, <1>3
<1>5. IsAttempt(v) /\ v.phase = p /\ v.regs = x.regs
  BY <1>4 DEF IsAttempt
<1>6. run' = [run EXCEPT ![j][a] = v]
  BY <1>1, <1>2
<1>7. Known(x.regs) /\ (x.phase = "query" => Fresh(x.regs))
  BY <1>1 DEF DepositsInv, KnownInv, CacheInv
<1>8. cache' = cache \/ (Fresh(cache'.regs) /\ Known(cache'.regs))
  BY <1>1, <1>7
<1>9. extraction' \ extraction = {}
  OBVIOUS
<1> QED
  BY <1>5, <1>6, <1>7, <1>8, <1>9, AttemptKeeps

LEMMA GetKeeps ==
  ASSUME DepositsInv, NEW j \in DOMAIN run, NEW a \in Attempts, GetRegistrations(j, a)
  PROVE  DepositsInv'
<1>1. PICK x : x = run[j][a]
  OBVIOUS
<1>2. x = [phase |-> x.phase, regs |-> x.regs, out |-> x.out]
  BY <1>1 DEF DepositsInv, RunInv, IsAttempt
<1>3. UNCHANGED <<reg, regEdit, regRaces, invalidations, unsure, moved, cache, extraction>>
  BY DEF GetRegistrations
<1>4. extraction' \ extraction = {}
  BY <1>3
<1>5. PICK s, p : s = (IF cache.set THEN cache.regs ELSE Enabled) /\ p = (IF cache.set THEN "extract" ELSE "query")
  OBVIOUS
<1>6. PICK v : v = [x EXCEPT !.phase = p, !.regs = s]
  OBVIOUS
<1>7. v = [phase |-> p, regs |-> s, out |-> x.out]
  BY <1>2, <1>6
<1>8. IsAttempt(v) /\ v.phase = p /\ v.regs = s
  BY <1>7 DEF IsAttempt
<1>9. run' = [run EXCEPT ![j][a] = v]
  BY <1>1, <1>5, <1>6 DEF GetRegistrations
<1>10. Known(s) /\ (p = "query" => Fresh(s))
  BY <1>5 DEF DepositsInv, KnownInv, Known, Fresh
<1>11. p # "no"
  BY <1>5
<1> QED
  BY <1>3, <1>4, <1>8, <1>9, <1>10, <1>11, AttemptKeeps

LEMMA ExtractKeeps ==
  ASSUME DepositsInv, NEW j \in DOMAIN run, NEW a \in Attempts, Extract(j, a)
  PROVE  DepositsInv'
<1>1. PICK regs : regs = run[j][a].regs
  OBVIOUS
<1>2. PICK t : t = Transfers[j]
  OBVIOUS
<1>3. PICK out : out = {[job |-> j, key |-> e.key, deposit |-> e.deposit] : e \in extract(t, regs)}
  OBVIOUS
<1>4. PICK p : p = IF run[j][a].phase = "extract" THEN "notify" ELSE "late"
  OBVIOUS
<1>5. PICK v : v = [phase |-> p, regs |-> regs, out |-> out]
  OBVIOUS
<1>6. IsAttempt(v) /\ v.phase = p /\ v.regs = regs
  BY <1>5 DEF IsAttempt
<1>7. /\ run[j][a].phase \in {"extract", "timedout"} /\ extraction' = extraction \cup out
      /\ run' = [run EXCEPT ![j][a] = v]
      /\ UNCHANGED <<reg, regEdit, regRaces, invalidations, unsure, moved, cache>>
  <2>1. PICK x : x = run[j][a]
    OBVIOUS
  <2>2. x = [phase |-> x.phase, regs |-> regs, out |-> x.out]
    BY <1>1, <2>1 DEF DepositsInv, RunInv, IsAttempt
  <2>3. p = IF x.phase = "extract" THEN "notify" ELSE "late"
    BY <2>1, <1>4
  <2>4. PICK y : y = [x EXCEPT !.out = out, !.phase = p]
    OBVIOUS
  <2>5. y = v
    <3>1. PICK h, o : x = [phase |-> h, regs |-> regs, out |-> o]
      BY <2>2
    <3>2. y = [phase |-> p, regs |-> regs, out |-> out]
      BY ONLY <3>1, <2>4
    <3> QED
      BY ONLY <3>2, <1>5
  <2>6. run' = [run EXCEPT ![j][a].out = out, ![j][a].phase = IF @ = "extract" THEN "notify" ELSE "late"]
    BY <1>1, <1>2, <1>3 DEF Extract
  <2>7. run' = [run EXCEPT ![j][a] = y]
    BY ONLY <2>1, <2>3, <2>4, <2>6
  <2>8. run' = [run EXCEPT ![j][a] = v]
    BY <2>5, <2>7
  <2> QED
    BY <2>8, <1>1, <1>2, <1>3 DEF Extract
<1>8. Known(regs)
  BY <1>1, <1>7 DEF DepositsInv, KnownInv
<1>9. p \notin {"no", "query"}
  BY <1>4
<1>10. TransferOK(t)
  BY <1>2, DepositsBeginAssumption DEF DepositsInv, JobsInv
<1>11. DOMAIN run' = DOMAIN run /\ run'[j][a].phase # "no"
  BY <1>6, <1>7, <1>9, AttemptChanges DEF DepositsInv
<1>12. ASSUME NEW e \in extraction' \ extraction
       PROVE  /\ e.job \in DOMAIN run' /\ (\E b \in Attempts : run'[e.job][b].phase # "no")
              /\ e.key.reg \notin moved => \E x \in Enabled : Drawn(e, x)
              /\ Told(Transfers[e.job], e.key, e.deposit)
  <2>1. e \in out
    BY <1>7
  <2>2. PICK d \in extract(t, regs) : e = [job |-> j, key |-> d.key, deposit |-> d.deposit]
    BY <1>3, <2>1
  <2>3. e.job = j /\ e.key = d.key /\ e.deposit = d.deposit
    BY <2>2
  <2>4. PICK x \in regs : d.key.reg = x.id /\ d = [key |-> d.key, deposit |-> d.deposit] /\ d \in extract(t, {x})
    BY ExtractOne
  <2>5. Drawn(e, x)
    BY <2>3, <2>4, <1>2 DEF Drawn
  <2>6. e.key.reg \notin moved => x \in Enabled
    BY <1>8, <2>3, <2>4 DEF Known
  <2>7. Told(Transfers[e.job], e.key, e.deposit)
    BY <1>2, <1>10, <2>3, ExtractTold
  <2> QED
    BY <1>11, <2>3, <2>5, <2>6, <2>7
<1> QED
  BY <1>6, <1>7, <1>8, <1>9, <1>12, AttemptKeeps

LEMMA DepositsFirst == DepositsInit => DepositsInv
<1> SUFFICES ASSUME DepositsInit PROVE DepositsInv
  OBVIOUS
<1>1. RegInv
  <2>1. DOMAIN reg = limit.regs /\ regRaces = {}
    BY DEF DepositsInit
  <2>2. ASSUME NEW r \in DOMAIN reg
        PROVE  /\ regEdit[r] = <<>>
               /\ reg[r] # <<>> => /\ reg[r] = <<reg[r][1]>> /\ DOMAIN reg[r][1] = DepositColumns
                                   /\ ValidRegistration(reg[r][1])
    <3>1. regEdit[r] = <<>>
      BY <2>1 DEF DepositsInit
    <3>2. reg[r] = <<>> \/ \E x \in FirstRegistrations : reg[r] = <<x>>
      BY <2>1 DEF DepositsInit
    <3>3. CASE reg[r] # <<>>
      <4>1. PICK x \in FirstRegistrations : reg[r] = <<x>>
        BY <3>2, <3>3
      <4>2. x \in Registration /\ ValidRegistration(x) /\ <<x>>[1] = x
        BY DepositsBeginAssumption
      <4> QED
        BY <3>1, <4>1, <4>2, RegistrationColumns
    <3> QED
      BY <3>1, <3>3
  <2>3. reg = [r \in DOMAIN reg |-> reg[r]] /\ regEdit = [r \in DOMAIN reg |-> regEdit[r]]
    BY DEF DepositsInit
  <2> QED
    BY <2>1, <2>2, <2>3 DEF RegInv, PendingValid, RegistrationsKeepFilters
<1>2. RunInv
  BY DEF DepositsInit, RunInv, NotStarted, IsAttempt
<1>3. JobsInv
  BY DepositsAssumption DEF DepositsInit, JobsInv
<1>4. CacheInv /\ KnownInv /\ ExtractionInv
  BY DEF DepositsInit, CacheInv, KnownInv, ExtractionInv, NoCache, NotStarted
<1> QED
  BY <1>1, <1>2, <1>3, <1>4 DEF DepositsInv

LEMMA DepositsStep == DepositsInv /\ [DepositsNext]_depositVars => DepositsInv'
<1> SUFFICES ASSUME DepositsInv, [DepositsNext]_depositVars PROVE DepositsInv'
  OBVIOUS
<1>1. CASE UNCHANGED depositVars
  <2>1. UNCHANGED <<reg, regEdit, regRaces, cache, invalidations, unsure, run, extraction, moved>>
    BY <1>1 DEF depositVars
  <2>2. RegInv' /\ KnownInv' /\ ExtractionInv'
    BY <2>1, RegStays, KnownStays, ExtractionStays DEF DepositsInv
  <2>3. RunInv' /\ JobsInv' /\ CacheInv'
    BY <2>1 DEF DepositsInv, RunInv, JobsInv, CacheInv, Fresh, Enabled
  <2> QED
    BY <2>2, <2>3 DEF DepositsInv
<1>2. ASSUME NEW r \in DOMAIN reg,
             \/ createDepositWebhookRegistration(r) \/ updateDepositWebhookRegistration(r)
             \/ SaveRegistration(r) \/ deleteDepositWebhookRegistration(r)
      PROVE  DepositsInv'
  BY <1>2, CreateKeeps, UpdateKeeps, SaveKeeps, DeleteKeeps
<1>3. CASE Invalidate \/ CacheExpires
  BY <1>3, InvalidateKeeps, ExpiryKeeps
<1>4. ASSUME NEW j \in DOMAIN run, NEW a \in Attempts, GetRegistrations(j, a) \/ Extract(j, a)
      PROVE  DepositsInv'
  BY <1>4, GetKeeps, ExtractKeeps
<1>5. ASSUME NEW j \in DOMAIN run, NEW a \in Attempts, QueryReturns(j, a)
      PROVE  DepositsInv'
  <2>1. PICK p : p = "extract"
    OBVIOUS
  <2>2. /\ run[j][a].phase = "query" /\ run' = [run EXCEPT ![j][a].phase = p]
        /\ cache'.regs = run[j][a].regs
        /\ UNCHANGED <<reg, regEdit, regRaces, invalidations, unsure, moved, extraction>>
    BY <1>5, <2>1 DEF QueryReturns, Phase
  <2>3. run[j][a].phase # "no" /\ p \notin {"no", "query"}
    BY <2>1, <2>2
  <2> QED
    BY <2>2, <2>3, AttemptPhaseKeeps
<1>6. ASSUME NEW j \in DOMAIN run, NEW a \in Attempts, QueueWebhooks(j, a)
      PROVE  DepositsInv'
  <2>1. PICK p : p = IF run[j][a].phase = "notify" THEN "done" ELSE "lateDone"
    OBVIOUS
  <2>2. /\ run[j][a].phase \in {"notify", "late"} /\ run' = [run EXCEPT ![j][a].phase = p]
        /\ UNCHANGED <<reg, regEdit, regRaces, cache, invalidations, unsure, moved, extraction>>
    BY <1>6, <2>1 DEF QueueWebhooks
  <2>3. run[j][a].phase # "no" /\ p \notin {"no", "query"}
    BY <2>1, <2>2
  <2> QED
    BY <2>2, <2>3, AttemptPhaseKeeps
<1>7. ASSUME NEW j \in DOMAIN run, NEW a \in Attempts, AttemptFails(j, a)
      PROVE  DepositsInv'
  <2>1. PICK p \in {"failed", "timedout"} : run' = [run EXCEPT ![j][a].phase = p]
    BY <1>7 DEF AttemptFails, Phase
  <2>2. /\ run[j][a].phase # "no"
        /\ UNCHANGED <<reg, regEdit, regRaces, cache, invalidations, unsure, moved, extraction>>
    BY <1>7 DEF AttemptFails, Phase
  <2> QED
    BY <2>1, <2>2, AttemptPhaseKeeps
<1> QED
  BY <1>1, <1>2, <1>3, <1>4, <1>5, <1>6, <1>7 DEF DepositsNext

\* What the invariant implies.
LEMMA DepositsImply == DepositsInv => DepositsAreSound
<1> SUFFICES ASSUME DepositsInv PROVE DepositsAreSound
  OBVIOUS
<1>1. RegistrationsKeepFilters /\ CacheIsFresh
  BY DEF DepositsInv, RegInv, CacheInv, CacheIsFresh, Fresh
<1>2. OneKeyPerDeposit
  <2> SUFFICES ASSUME NEW e \in extraction, NEW f \in extraction, e.job = f.job, e.deposit = f.deposit,
                      e.key.reg = f.key.reg, e.key.reg \notin moved
               PROVE  e.key = f.key
    BY DEF OneKeyPerDeposit
  <2>1. PICK x \in Enabled : Drawn(e, x)
    BY DEF DepositsInv, ExtractionInv
  <2>2. PICK y \in Enabled : Drawn(f, y)
    BY DEF DepositsInv, ExtractionInv
  <2>3. x = y
    BY <2>1, <2>2, EnabledOnce DEF Drawn
  <2>4. PICK t : t = Transfers[e.job]
    OBVIOUS
  <2>5. TransferOK(t)
    BY <2>4, DepositsBeginAssumption DEF DepositsInv, JobsInv, ExtractionInv
  <2>6. PICK c, d : c = [key |-> e.key, deposit |-> e.deposit] /\ d = [key |-> f.key, deposit |-> f.deposit]
    OBVIOUS
  <2>7. c \in extract(t, {x}) /\ d \in extract(t, {x}) /\ c.deposit = d.deposit
    BY <2>1, <2>2, <2>3, <2>4, <2>6 DEF Drawn
  <2>8. c.key = d.key
    BY ONLY <2>5, <2>7, DrawnOnce
  <2> QED
    BY <2>6, <2>8
<1>3. KeysTellDepositsApart
  <2> SUFFICES ASSUME NEW e \in extraction, NEW f \in extraction, e.job = f.job, e.key = f.key
               PROVE  e.deposit = f.deposit
    BY DEF KeysTellDepositsApart
  <2>1. PICK t, k : t = Transfers[e.job] /\ k = e.key
    OBVIOUS
  <2>2. Told(t, k, e.deposit) /\ Told(t, k, f.deposit)
    BY <2>1 DEF DepositsInv, ExtractionInv
  <2> QED
    BY <2>2, ToldOnce
<1> QED
  BY <1>1, <1>2, <1>3 DEF DepositsAreSound

\* A registration always watches a wallet and allows an asset, a deposit has one
\* idempotency key per registration, also over retries and late attempts, two
\* deposits never share one, and the worker's list of registrations is what is
\* enabled unless it is about to hear otherwise (DepositWebhookExtractor,
\* AccountDepositWebhookRegistration.getEnabledCached).
THEOREM DepositsHold == DepositsSpec => []DepositsAreSound
<1>1. DepositsSpec => []DepositsInv
  BY DepositsFirst, DepositsStep, PTL DEF DepositsSpec
<1> QED
  BY <1>1, DepositsImply, PTL

-----------------------------------------------------------------------------
(* The clients of the node.                                                *)

\* The cache of times: one entry for each height, no more than it has room for.
TimeEntry == [height : Nat, time : Nat]
TimesOK(s) ==
    /\ s \in Seq(TimeEntry) /\ Len(s) <= TimeCache
    /\ \A i, k \in DOMAIN s : s[i].height = s[k].height => i = k

\* r is the cache s in which the time of h was set.
IsSet(s, h, t, r) ==
    /\ TimesOK(r) /\ HasTime(r, h)
    /\ \A i \in DOMAIN r :
           \/ r[i].height = h /\ r[i].time = t
           \/ r[i].height # h /\ \E k \in DOMAIN s : r[i] = s[k]
    /\ HasTime(s, h) => \A b : HasTime(s, b) => HasTime(r, b)

LEMMA RemoveAtIs ==
  ASSUME NEW S, NEW s \in Seq(S), NEW k \in DOMAIN s
  PROVE  /\ RemoveAt(s, k) \in Seq(S) /\ Len(RemoveAt(s, k)) = Len(s) - 1
         /\ \A i \in 1 .. (Len(s) - 1) : RemoveAt(s, k)[i] = IF i < k THEN s[i] ELSE s[i + 1]
<1>1. k \in 1 .. Len(s) /\ Len(s) \in Nat
  OBVIOUS
<1>2. PICK a, b : a = SubSeq(s, 1, k - 1) /\ b = SubSeq(s, k + 1, Len(s))
  OBVIOUS
<1>3. a \in Seq(S) /\ Len(a) = k - 1 /\ \A i \in 1 .. (k - 1) : a[i] = s[i]
  BY <1>1, <1>2
<1>4. b \in Seq(S) /\ Len(b) = Len(s) - k /\ \A i \in 1 .. (Len(s) - k) : b[i] = s[k + i]
  BY <1>1, <1>2
<1>5. PICK c : c = a \o b
  OBVIOUS
<1>6. c \in Seq(S) /\ Len(c) = Len(s) - 1
  BY <1>1, <1>3, <1>4, <1>5
<1>7. ASSUME NEW i \in 1 .. (Len(s) - 1) PROVE c[i] = IF i < k THEN s[i] ELSE s[i + 1]
  <2>1. CASE i < k
    BY <2>1, <1>1, <1>3, <1>4, <1>5
  <2>2. CASE ~(i < k)
    <3>1. i - (k - 1) \in 1 .. (Len(s) - k) /\ k + (i - (k - 1)) = i + 1
      BY <2>2, <1>1
    <3>2. c[i] = b[i - (k - 1)]
      <4>1. i \in 1 .. (Len(a) + Len(b)) /\ i > Len(a) /\ i - Len(a) = i - (k - 1)
        BY <2>2, <1>1, <1>3, <1>4
      <4>2. (a \o b)[i] = b[i - Len(a)]
        <5>1. /\ i \in 1 .. (Len(a) + Len(b)) /\ ~(i <= Len(a))
              /\ a \in Seq(S) /\ b \in Seq(S)
          BY <4>1, <1>3, <1>4
        <5>2. (a \o b)[i] = IF i <= Len(a) THEN a[i] ELSE b[i - Len(a)]
          BY ONLY <5>1, ConcatProperties
        <5> QED
          BY ONLY <5>1, <5>2
      <4> QED
        BY <4>1, <4>2, <1>5
    <3> QED
      BY <2>2, <3>1, <3>2, <1>4
  <2> QED
    BY <2>1, <2>2
<1> QED
  BY <1>2, <1>5, <1>6, <1>7 DEF RemoveAt

LEMMA EntryFound ==
  ASSUME NEW s, NEW h, HasTime(s, h)
  PROVE  EntryOf(s, h) \in DOMAIN s /\ s[EntryOf(s, h)].height = h
BY DEF HasTime, EntryOf

LEMMA WithoutIs ==
  ASSUME NEW s, TimesOK(s), NEW h
  PROVE  /\ TimesOK(Without(s, h)) /\ (HasTime(s, h) => Len(Without(s, h)) < TimeCache)
         /\ \A i \in DOMAIN Without(s, h) :
                Without(s, h)[i].height # h /\ \E k \in DOMAIN s : Without(s, h)[i] = s[k]
         /\ \A k \in DOMAIN s : s[k].height # h => \E i \in DOMAIN Without(s, h) : Without(s, h)[i] = s[k]
<1>1. CASE ~HasTime(s, h)
  <2>1. Without(s, h) = s
    BY <1>1 DEF Without
  <2> QED
    BY <2>1, <1>1 DEF HasTime
<1>2. CASE HasTime(s, h)
  <2>1. PICK e \in DOMAIN s : e = EntryOf(s, h) /\ s[e].height = h
    BY <1>2, EntryFound
  <2>2. PICK w : w = RemoveAt(s, e)
    OBVIOUS
  <2>3. Without(s, h) = w
    BY <1>2, <2>1, <2>2 DEF Without
  <2>4. s \in Seq(TimeEntry) /\ Len(s) \in Nat /\ DOMAIN s = 1 .. Len(s) /\ Len(s) <= TimeCache /\ TimeCache \in Nat
    BY NodeAssumption DEF TimesOK
  <2>5. /\ w \in Seq(TimeEntry) /\ Len(w) = Len(s) - 1
        /\ \A i \in 1 .. (Len(s) - 1) : w[i] = IF i < e THEN s[i] ELSE s[i + 1]
    BY <2>1, <2>2, <2>4, RemoveAtIs
  <2>6. DOMAIN w = 1 .. (Len(s) - 1)
    BY <2>4, <2>5
  <2>7. \A i, k \in DOMAIN s : s[i].height = s[k].height => i = k
    BY DEF TimesOK
  <2>8. ASSUME NEW i \in DOMAIN w, NEW k \in DOMAIN w, w[i].height = w[k].height PROVE i = k
    <3>1. w[i] = (IF i < e THEN s[i] ELSE s[i + 1]) /\ w[k] = (IF k < e THEN s[k] ELSE s[k + 1])
      BY <2>5, <2>6
    <3>2. /\ i \in DOMAIN s /\ i + 1 \in DOMAIN s /\ k \in DOMAIN s /\ k + 1 \in DOMAIN s
          /\ i \in Int /\ k \in Int /\ e \in Int
      BY <2>4, <2>6, <2>1
    <3> QED
      BY <2>7, <2>8, <3>1, <3>2
  <2>9. ASSUME NEW i \in DOMAIN w PROVE w[i].height # h /\ \E k \in DOMAIN s : w[i] = s[k]
    <3>1. w[i] = IF i < e THEN s[i] ELSE s[i + 1]
      BY <2>5, <2>6
    <3>2. i \in DOMAIN s /\ i + 1 \in DOMAIN s /\ i \in Int /\ e \in Int
      BY <2>4, <2>6, <2>1
    <3> QED
      BY <2>1, <2>7, <3>1, <3>2
  <2>10. ASSUME NEW k \in DOMAIN s, s[k].height # h PROVE \E i \in DOMAIN w : w[i] = s[k]
    <3>1. k # e /\ k \in 1 .. Len(s) /\ e \in 1 .. Len(s)
      BY <2>1, <2>4, <2>10
    <3>2. CASE k < e
      <4>1. k \in DOMAIN w /\ w[k] = s[k]
        BY <2>4, <2>5, <2>6, <3>1, <3>2
      <4> QED
        BY <4>1
    <3>3. CASE k > e
      <4>1. k - 1 \in DOMAIN w /\ w[k - 1] = s[k]
        BY <2>4, <2>5, <2>6, <3>1, <3>3
      <4> QED
        BY <4>1
    <3> QED
      BY <3>1, <3>2, <3>3
  <2>11. Len(w) <= TimeCache /\ Len(w) < TimeCache
    BY <2>4, <2>5
  <2> QED
    BY <2>3, <2>5, <2>8, <2>9, <2>10, <2>11 DEF TimesOK
<1> QED
  BY <1>1, <1>2

LEMMA SetTimeIs ==
  ASSUME NEW s, TimesOK(s), NEW h \in Nat, NEW t \in Nat
  PROVE  IsSet(s, h, t, SetTime(s, h, t))
<1>1. PICK w : w = Without(s, h)
  OBVIOUS
<1>2. /\ TimesOK(w) /\ (HasTime(s, h) => Len(w) < TimeCache)
      /\ \A i \in DOMAIN w : w[i].height # h /\ \E k \in DOMAIN s : w[i] = s[k]
      /\ \A k \in DOMAIN s : s[k].height # h => \E i \in DOMAIN w : w[i] = s[k]
  BY <1>1, WithoutIs
<1>3. PICK x : x = [height |-> h, time |-> t]
  OBVIOUS
<1>4. x \in TimeEntry /\ x.height = h /\ x.time = t
  BY <1>3 DEF TimeEntry
<1>5. /\ w \in Seq(TimeEntry) /\ Len(w) \in Nat /\ DOMAIN w = 1 .. Len(w) /\ Len(w) <= TimeCache
      /\ TimeCache \in Nat /\ TimeCache > 0
  BY <1>2, NodeAssumption DEF TimesOK
<1>6. PICK all : all = Append(w, x)
  OBVIOUS
<1>7. /\ all \in Seq(TimeEntry) /\ Len(all) = Len(w) + 1 /\ DOMAIN all = 1 .. (Len(w) + 1)
      /\ all[Len(w) + 1] = x /\ \A i \in 1 .. Len(w) : all[i] = w[i]
  BY <1>4, <1>5, <1>6
<1>8. PICK r : r = SetTime(s, h, t)
  OBVIOUS
<1>9. r = IF Len(all) > TimeCache THEN Tail(all) ELSE all
  BY <1>1, <1>3, <1>6, <1>8 DEF SetTime
<1>10. \A i, k \in DOMAIN all : all[i].height = all[k].height => i = k
  <2> SUFFICES ASSUME NEW i \in DOMAIN all, NEW k \in DOMAIN all, all[i].height = all[k].height PROVE i = k
    OBVIOUS
  <2>1. CASE i \in 1 .. Len(w) /\ k \in 1 .. Len(w)
    BY <2>1, <1>2, <1>5, <1>7 DEF TimesOK
  <2>2. CASE i = Len(w) + 1 /\ k \in 1 .. Len(w)
    BY <2>2, <1>2, <1>4, <1>5, <1>7
  <2>3. CASE k = Len(w) + 1 /\ i \in 1 .. Len(w)
    BY <2>3, <1>2, <1>4, <1>5, <1>7
  <2> QED
    BY <2>1, <2>2, <2>3, <1>5, <1>7
<1>11. \A i \in DOMAIN all :
           \/ all[i].height = h /\ all[i].time = t
           \/ all[i].height # h /\ \E k \in DOMAIN s : all[i] = s[k]
  <2> SUFFICES ASSUME NEW i \in DOMAIN all
               PROVE  \/ all[i].height = h /\ all[i].time = t
                      \/ all[i].height # h /\ \E k \in DOMAIN s : all[i] = s[k]
    OBVIOUS
  <2>1. CASE i \in 1 .. Len(w)
    BY <2>1, <1>2, <1>5, <1>7
  <2>2. CASE i = Len(w) + 1
    BY <2>2, <1>4, <1>7
  <2> QED
    BY <2>1, <2>2, <1>5, <1>7
<1>12. CASE Len(all) > TimeCache
  <2>1. r = Tail(all) /\ Len(w) = TimeCache /\ ~HasTime(s, h)
    BY <1>12, <1>2, <1>5, <1>7, <1>9
  <2>2. /\ r \in Seq(TimeEntry) /\ Len(r) = Len(w) /\ DOMAIN r = 1 .. Len(w)
        /\ \A i \in 1 .. Len(w) : r[i] = all[i + 1]
    BY <2>1, <1>5, <1>7
  <2>3. \A i \in DOMAIN r : i + 1 \in DOMAIN all /\ r[i] = all[i + 1] /\ i \in Int
    BY <2>2, <1>5, <1>7
  <2>4. TimesOK(r)
    <3>1. ASSUME NEW i \in DOMAIN r, NEW k \in DOMAIN r, r[i].height = r[k].height PROVE i = k
      <4>1. i + 1 = k + 1
        BY <3>1, <2>3, <1>10
      <4> QED
        BY <4>1, <2>3
    <3>2. Len(r) <= TimeCache
      BY <2>2, <1>5
    <3> QED
      BY <2>2, <3>1, <3>2 DEF TimesOK
  <2>5. HasTime(r, h)
    <3>1. Len(w) \in DOMAIN r /\ r[Len(w)] = x
      BY <2>1, <2>2, <1>5, <1>7
    <3> QED
      BY <3>1, <1>4 DEF HasTime
  <2>6. \A i \in DOMAIN r :
           \/ r[i].height = h /\ r[i].time = t
           \/ r[i].height # h /\ \E k \in DOMAIN s : r[i] = s[k]
    BY <2>3, <1>11
  <2> QED
    BY <1>8, <2>1, <2>4, <2>5, <2>6 DEF IsSet
<1>13. CASE ~(Len(all) > TimeCache)
  <2>1. r = all
    BY <1>13, <1>9
  <2>2. TimesOK(r)
    BY <2>1, <1>13, <1>5, <1>7, <1>10 DEF TimesOK
  <2>3. HasTime(r, h)
    <3>1. Len(w) + 1 \in DOMAIN r
      BY <2>1, <1>5, <1>7
    <3> QED
      BY <2>1, <3>1, <1>4, <1>7 DEF HasTime
  <2>4. \A b : HasTime(s, b) => HasTime(r, b)
    <3> SUFFICES ASSUME NEW b, HasTime(s, b), b # h PROVE HasTime(r, b)
      BY <2>3
    <3>1. PICK k \in DOMAIN s : s[k].height = b
      BY DEF HasTime
    <3>2. PICK i \in DOMAIN w : w[i] = s[k]
      BY <3>1, <1>2
    <3>3. i \in DOMAIN r /\ r[i] = w[i]
      BY <2>1, <1>5, <1>7
    <3> QED
      BY <3>1, <3>2, <3>3 DEF HasTime
  <2> QED
    BY <1>8, <2>1, <2>2, <2>3, <2>4, <1>11 DEF IsSet
<1> QED
  BY <1>12, <1>13

\* The answer of a fetch, for the cache s.
IsAnswer(s, h) ==
    /\ TimesOK(times') /\ fetching' = [phase |-> "idle", height |-> h, tries |-> 0, time |-> fetching'.time]
    /\ fetching'.time \in Nat
    /\ \A i \in DOMAIN times' : \E k \in DOMAIN s : times'[i] = s[k]
    /\ \A b : HasTime(s, b) => HasTime(times', b)
    /\ HasTime(s, h) => \E k \in DOMAIN s : s[k].height = h /\ s[k].time = fetching'.time

LEMMA AnswerIs ==
  ASSUME NEW s, TimesOK(s), NEW h \in Nat, Answer(s, h)
  PROVE  IsAnswer(s, h)
<1>1. PICK t : t = GetTime(s, h)
  OBVIOUS
<1>2. fetching' = [phase |-> "idle", height |-> h, tries |-> 0, time |-> t]
  BY <1>1 DEF Answer, NoFetch
<1>3. fetching'.time = t /\ fetching' = [phase |-> "idle", height |-> h, tries |-> 0, time |-> fetching'.time]
  BY <1>2
<1>4. CASE HasTime(s, h)
  <2>1. PICK e \in DOMAIN s : e = EntryOf(s, h) /\ s[e].height = h
    BY <1>4, EntryFound
  <2>2. t = s[e].time /\ s[e] \in TimeEntry
    BY <1>1, <1>4, <2>1 DEF GetTime, TimesOK
  <2>3. t \in Nat /\ s[e] = [height |-> h, time |-> t]
    BY <2>1, <2>2 DEF TimeEntry
  <2>4. times' = SetTime(s, h, t)
    BY <1>1, <1>4 DEF Answer
  <2>5. PICK r : r = times'
    OBVIOUS
  <2>6. IsSet(s, h, t, r)
    BY <2>3, <2>4, <2>5, SetTimeIs
  <2>7. r \in Seq(TimeEntry)
    BY <2>6 DEF IsSet, TimesOK
  <2>8. ASSUME NEW i \in DOMAIN r PROVE \E k \in DOMAIN s : r[i] = s[k]
    <3>1. r[i] \in TimeEntry
      BY <2>7
    <3>2. CASE r[i].height = h /\ r[i].time = t
      <4>1. r[i] = [height |-> h, time |-> t]
        BY <3>1, <3>2 DEF TimeEntry
      <4> QED
        BY <4>1, <2>3
    <3> QED
      BY <2>6, <3>2 DEF IsSet
  <2>9. TimesOK(r) /\ \A b : HasTime(s, b) => HasTime(r, b)
    BY <2>6, <1>4 DEF IsSet
  <2>10. \E k \in DOMAIN s : s[k].height = h /\ s[k].time = fetching'.time
    BY <2>1, <2>2, <1>3
  <2> QED
    BY <1>3, <2>3, <2>5, <2>8, <2>9, <2>10 DEF IsAnswer
<1>5. CASE ~HasTime(s, h)
  <2>1. t = 0 /\ times' = s
    BY <1>1, <1>5 DEF GetTime, Answer
  <2> QED
    BY <1>3, <1>5, <2>1 DEF IsAnswer
<1> QED
  BY <1>4, <1>5

SpentOK(b) ==
    b \in [blocks : Nat, lowest : Nat, downs : Nat, fetches : Nat, lookups : Nat, updates : SUBSET Updates]
IsSeen(x) == x = [failed |-> x.failed, kept |-> x.kept, threw |-> x.threw, missed |-> x.missed]

\* The times: what was kept is in the cache, and is not what a fetch under way is of.
TimeInv ==
    /\ TimesOK(times) /\ announced \in Nat
    /\ fetching.height \in Nat /\ fetching.time \in Nat
    /\ fetching = [phase |-> fetching.phase, height |-> fetching.height, tries |-> fetching.tries, time |-> fetching.time]
    /\ fetching.phase # "idle" => fetching.height > 0 /\ fetching.height \notin seen.kept
    /\ \A h \in seen.kept : HasTime(times, h)
    /\ ZeroNeedsFailure /\ EventTimeKept

ClientInv ==
    /\ update = [u \in DOMAIN update |-> update[u]]
    /\ ChainIdNeedsQuery

CodeInv ==
    /\ lookup.phase = "query" => lookup.tries \in Nat /\ lookup.tries < NodeTries
    /\ lookup = [phase |-> lookup.phase, tries |-> lookup.tries]
    /\ codeCache # <<>> /\ codeCache[1] = 0 => seen.missed
    /\ UnknownNeedsMiss

NodeInv == SpentOK(spent) /\ IsSeen(seen) /\ TimeInv /\ ClientInv /\ CodeInv

LEMMA TimeStays ==
  ASSUME TimeInv, SpentOK(spent), UNCHANGED <<times, announced, fetching>>,
         seen'.failed = seen.failed, seen'.kept = seen.kept, spent'.lowest = spent.lowest
  PROVE  TimeInv'
<1>1. ZeroNeedsFailure'
  BY DEF TimeInv, ZeroNeedsFailure
<1>2. EventTimeKept'
  BY DEF TimeInv, EventTimeKept
<1> QED
  BY <1>1, <1>2 DEF TimeInv

LEMMA ClientStays ==
  ASSUME ClientInv, UNCHANGED <<client, chainId, update>>, seen'.threw = seen.threw
  PROVE  ClientInv'
BY DEF ClientInv, ChainIdNeedsQuery

LEMMA CodeStays ==
  ASSUME CodeInv, UNCHANGED <<codeId, codeCache, lookup>>, seen'.missed = seen.missed
  PROVE  CodeInv'
BY DEF CodeInv, UnknownNeedsMiss

\* A fetch answers from the cache s, which holds nothing that is not in the cache
\* but what the fetch put there.
LEMMA AnswerKeeps ==
  ASSUME TimeInv, NEW s, TimesOK(s), Answer(s, fetching'.height), fetching'.height \in Nat,
         UNCHANGED announced, spent'.lowest = spent.lowest, seen.failed \subseteq seen'.failed,
         seen'.kept \subseteq seen.kept, \A h \in seen'.kept : HasTime(s, h) \/ HasTime(times', h),
         \A i \in DOMAIN s :
             \/ \E k \in DOMAIN times : s[i] = times[k]
             \/ /\ s[i].height \in seen'.kept => s[i].time = s[i].height
                /\ s[i].time = 0 => s[i].height \in seen'.failed,
         HasTime(s, fetching'.height) \/ fetching'.height < spent.lowest
  PROVE  TimeInv'
<1> DEFINE h == fetching'.height
<1>1. IsAnswer(s, h)
  BY AnswerIs
<1>2. TimesOK(times') /\ fetching'.time \in Nat /\ fetching'.phase = "idle"
  BY <1>1 DEF IsAnswer
<1>3. fetching' = [phase |-> fetching'.phase, height |-> h, tries |-> fetching'.tries, time |-> fetching'.time]
  <2>1. PICK t : fetching' = [phase |-> "idle", height |-> h, tries |-> 0, time |-> t]
    BY <1>1 DEF IsAnswer
  <2> HIDE DEF h
  <2> QED
    BY <2>1
<1>4. ASSUME NEW i \in DOMAIN s
      PROVE  /\ s[i].height \in seen'.kept => s[i].time = s[i].height
             /\ s[i].time = 0 => s[i].height \in seen'.failed
  <2>1. CASE \E k \in DOMAIN times : s[i] = times[k]
    <3>1. PICK k \in DOMAIN times : s[i] = times[k]
      BY <2>1
    <3>2. /\ times[k].height \in seen.kept => times[k].time = times[k].height
          /\ times[k].time = 0 => times[k].height \in seen.failed
      BY DEF TimeInv, EventTimeKept, ZeroNeedsFailure
    <3> QED
      BY <3>1, <3>2
  <2> QED
    BY <2>1
<1>5. \A i \in DOMAIN times' : \E k \in DOMAIN s : times'[i] = s[k]
  BY <1>1 DEF IsAnswer
<1>6. EventTimeKept'
  BY <1>4, <1>5 DEF EventTimeKept
<1>7. \A i \in DOMAIN times' : times'[i].time = 0 => times'[i].height \in seen'.failed
  BY <1>4, <1>5
<1>8. fetching'.time = 0 => h < spent.lowest \/ h \in seen'.failed
  <2>1. CASE HasTime(s, h)
    <3>1. PICK k \in DOMAIN s : s[k].height = h /\ s[k].time = fetching'.time
      BY <2>1, <1>1 DEF IsAnswer
    <3> QED
      BY <3>1, <1>4
  <2> QED
    BY <2>1
<1>9. ZeroNeedsFailure'
  BY <1>7, <1>8 DEF ZeroNeedsFailure
<1>10. \A b \in seen'.kept : HasTime(times', b)
  BY <1>1 DEF IsAnswer
<1> QED
  BY <1>2, <1>3, <1>6, <1>9, <1>10 DEF TimeInv

LEMMA NewBlockKeeps ==
  ASSUME NodeInv, NewBlock
  PROVE  TimeInv'
<1>1. PICK a : a = announced + 1
  OBVIOUS
<1>2. a \in Nat /\ a > 0 /\ announced' = a
  BY <1>1 DEF NodeInv, TimeInv, NewBlock
<1>3. UNCHANGED <<fetching, spent>> /\ seen'.failed = seen.failed /\ times' = IF socket THEN SetTime(times, a, a) ELSE times
  BY <1>2 DEF NewBlock, onNewBlock, NodeInv, IsSeen
<1>4. PICK q : q = (socket /\ (fetching.phase = "idle" \/ fetching.height # a))
  OBVIOUS
<1>5. seen'.kept = {h \in seen.kept \cup {a} : HasTime(times', h) /\ (h = a => q)}
  BY <1>2, <1>4 DEF NewBlock, Cached, NodeInv, IsSeen
<1>6. TimesOK(times) /\ ZeroNeedsFailure /\ EventTimeKept
  BY DEF NodeInv, TimeInv
<1>7. CASE socket
  <2>1. PICK r : r = times'
    OBVIOUS
  <2>2. IsSet(times, a, a, r)
    BY <1>2, <1>3, <1>6, <1>7, <2>1, SetTimeIs
  <2>3. TimesOK(times')
    BY <2>1, <2>2 DEF IsSet
  <2>4. ASSUME NEW i \in DOMAIN r
        PROVE  /\ r[i].height \in seen'.kept => r[i].time = r[i].height
               /\ r[i].time = 0 => r[i].height \in seen.failed
    <3>1. CASE r[i].height = a /\ r[i].time = a
      BY <3>1, <1>2
    <3>2. CASE r[i].height # a /\ \E k \in DOMAIN times : r[i] = times[k]
      <4>1. PICK k \in DOMAIN times : r[i] = times[k]
        BY <3>2
      <4>2. r[i].height \in seen'.kept => r[i].height \in seen.kept
        BY <3>2, <1>5
      <4> QED
        BY <4>1, <4>2, <1>6 DEF EventTimeKept, ZeroNeedsFailure
    <3> QED
      BY <3>1, <3>2, <2>2 DEF IsSet
  <2>5. ZeroNeedsFailure' /\ EventTimeKept'
    BY <1>3, <1>6, <2>1, <2>4 DEF ZeroNeedsFailure, EventTimeKept
  <2>6. fetching.phase # "idle" => fetching.height \notin seen'.kept
    BY <1>4, <1>5 DEF NodeInv, TimeInv
  <2>7. \A h \in seen'.kept : HasTime(times', h)
    BY <1>5
  <2> QED
    BY <1>2, <1>3, <2>3, <2>5, <2>6, <2>7 DEF NodeInv, TimeInv
<1>8. CASE ~socket
  <2>1. times' = times
    BY <1>3, <1>8
  <2>2. seen'.kept \subseteq seen.kept
    BY <1>4, <1>5, <1>8
  <2>3. ZeroNeedsFailure' /\ EventTimeKept'
    BY <1>3, <1>6, <2>1, <2>2 DEF ZeroNeedsFailure, EventTimeKept
  <2>4. \A h \in seen'.kept : HasTime(times', h)
    BY <1>5
  <2>5. fetching.phase # "idle" => fetching.height \notin seen'.kept
    BY <2>2 DEF NodeInv, TimeInv
  <2> QED
    BY <1>2, <1>3, <1>6, <2>1, <2>3, <2>4, <2>5 DEF NodeInv, TimeInv
<1> QED
  BY <1>7, <1>8

\* A fetch looks at the cache as it is.
LEMMA LookKeeps ==
  ASSUME NodeInv, Cached(fetching'.height), fetching'.height \in Nat, Answer(times, fetching'.height),
         UNCHANGED <<announced, seen>>, spent'.lowest = spent.lowest
  PROVE  TimeInv'
<1>1. TimesOK(times) /\ HasTime(times, fetching'.height) /\ TimeInv
  BY DEF NodeInv, TimeInv, Cached
<1>2. \A h \in seen'.kept : HasTime(times, h)
  BY DEF NodeInv, TimeInv
<1>3. \A i \in DOMAIN times : \E k \in DOMAIN times : times[i] = times[k]
  OBVIOUS
<1> QED
  BY <1>1, <1>2, <1>3, AnswerKeeps

\* A fetch begins to wait or to load, for a height that is not in the cache.
LEMMA LoadKeeps ==
  ASSUME NodeInv, NEW p, NEW h \in Nat, h > 0, ~Cached(h), NEW n, NEW t \in Nat, p # "idle",
         fetching' = [phase |-> p, height |-> h, tries |-> n, time |-> t],
         UNCHANGED <<times, announced, seen>>, spent'.lowest = spent.lowest
  PROVE  TimeInv'
<1>1. /\ fetching'.phase = p /\ fetching'.height = h /\ fetching'.time = t
      /\ fetching' = [phase |-> fetching'.phase, height |-> fetching'.height, tries |-> fetching'.tries, time |-> fetching'.time]
  OBVIOUS
<1>2. h \notin seen.kept
  BY DEF NodeInv, TimeInv, Cached
<1>3. ZeroNeedsFailure' /\ EventTimeKept'
  BY <1>1 DEF NodeInv, TimeInv, ZeroNeedsFailure, EventTimeKept
<1> QED
  BY <1>1, <1>2, <1>3 DEF NodeInv, TimeInv

LEMMA AnswersFor ==
  ASSUME NEW s, NEW h, Answer(s, h)
  PROVE  fetching'.height = h
BY DEF Answer, NoFetch

LEMMA FetchKeeps ==
  ASSUME NodeInv, Fetch
  PROVE  TimeInv'
<1>1. spent'.lowest = spent.lowest /\ UNCHANGED <<announced, seen>>
  BY DEF Fetch, NodeInv, SpentOK
<1>2. PICK h \in 1 .. Min({announced + 1, spent.blocks}) :
          IF Cached(h) THEN Answer(times, h)
          ELSE /\ fetching' = [NoFetch EXCEPT !.height = h, !.phase =
                      IF socket /\ \A i \in DOMAIN times : times[i].height < h THEN "wait" ELSE "load"]
               /\ times' = times
  BY DEF Fetch
<1>3. h \in Nat /\ h > 0
  BY <1>2
<1>4. CASE Cached(h)
  <2>1. Answer(times, h)
    BY <1>2, <1>4
  <2>2. fetching'.height = h
    BY <2>1, AnswersFor
  <2> QED
    BY <1>1, <1>3, <1>4, <2>1, <2>2, LookKeeps
<1>5. CASE ~Cached(h)
  <2>1. PICK p : p = IF socket /\ \A i \in DOMAIN times : times[i].height < h THEN "wait" ELSE "load"
    OBVIOUS
  <2>2. fetching' = [NoFetch EXCEPT !.height = h, !.phase = p] /\ times' = times
    BY <1>2, <1>5, <2>1
  <2>3. fetching' = [phase |-> p, height |-> h, tries |-> 0, time |-> 0]
    BY <2>2 DEF NoFetch
  <2>4. p # "idle"
    BY <2>1
  <2> QED
    BY <1>1, <1>3, <1>5, <2>2, <2>3, <2>4, LoadKeeps
<1> QED
  BY <1>4, <1>5

LEMMA WaitKeeps ==
  ASSUME NodeInv, WaitSees \/ WaitTimeout
  PROVE  TimeInv'
<1>1. fetching.phase = "wait" /\ UNCHANGED <<announced, seen, spent>>
  BY DEF WaitSees, WaitTimeout
<1>2. PICK h : h = fetching.height
  OBVIOUS
<1>3. h \in Nat /\ h > 0
  BY <1>1, <1>2 DEF NodeInv, TimeInv
<1>4. CASE Cached(h)
  <2>1. Answer(times, h)
    BY <1>2, <1>4 DEF WaitSees, WaitTimeout
  <2>2. fetching'.height = h
    BY <2>1, AnswersFor
  <2> QED
    BY <1>1, <1>3, <1>4, <2>1, <2>2, LookKeeps
<1>5. CASE ~Cached(h)
  <2>1. fetching' = [fetching EXCEPT !.phase = "load"] /\ times' = times
    BY <1>2, <1>5 DEF WaitSees, WaitTimeout
  <2>2. PICK p, n, t : p = "load" /\ n = fetching.tries /\ t = fetching.time
    OBVIOUS
  <2>3. fetching' = [phase |-> p, height |-> h, tries |-> n, time |-> t] /\ t \in Nat
    BY <2>1, <2>2, <1>2 DEF NodeInv, TimeInv
  <2>4. p # "idle" /\ spent'.lowest = spent.lowest /\ UNCHANGED <<times, announced, seen>>
    BY <1>1, <2>1, <2>2
  <2> QED
    BY <1>3, <1>5, <2>3, <2>4, LoadKeeps
<1> QED
  BY <1>4, <1>5

\* The time of a block is set, from the node or to 0 after the last try.
LEMMA SetKeeps ==
  ASSUME NodeInv, NEW h \in Nat, NEW t \in Nat, h \notin seen.kept, t = 0 => h \in seen'.failed,
         Answer(SetTime(times, h, t), h),
         UNCHANGED announced, spent'.lowest = spent.lowest, seen.failed \subseteq seen'.failed,
         seen'.kept = {b \in seen.kept : Cached(b)'}
  PROVE  TimeInv'
<1>1. PICK s : s = SetTime(times, h, t)
  OBVIOUS
<1>2. TimeInv /\ TimesOK(times)
  BY DEF NodeInv, TimeInv
<1>3. IsSet(times, h, t, s)
  BY <1>1, <1>2, SetTimeIs
<1>4. TimesOK(s) /\ HasTime(s, h)
  BY <1>3 DEF IsSet
<1>5. Answer(s, h)
  BY <1>1
<1>6. fetching'.height = h
  BY <1>5, AnswersFor
<1>7. \A b \in seen'.kept : HasTime(times', b)
  BY DEF Cached
<1>8. \A i \in DOMAIN s :
          \/ \E k \in DOMAIN times : s[i] = times[k]
          \/ /\ s[i].height \in seen'.kept => s[i].time = s[i].height
             /\ s[i].time = 0 => s[i].height \in seen'.failed
  BY <1>3 DEF IsSet
<1>9. seen'.kept \subseteq seen.kept
  OBVIOUS
<1>10. Answer(s, fetching'.height) /\ fetching'.height \in Nat /\ HasTime(s, fetching'.height)
  BY <1>4, <1>5, <1>6
<1> QED
  BY <1>2, <1>4, <1>7, <1>8, <1>9, <1>10, AnswerKeeps

LEMMA LoadTimeKeeps ==
  ASSUME NodeInv, LoadTime
  PROVE  TimeInv'
<1>1. fetching.phase = "load" /\ UNCHANGED <<announced, spent>> /\ seen' = [seen EXCEPT !.kept = {h \in @ : Cached(h)'}]
  BY DEF LoadTime
<1>2. seen'.failed = seen.failed /\ seen'.kept = {b \in seen.kept : Cached(b)'}
  BY <1>1 DEF NodeInv, IsSeen
<1>3. PICK h : h = fetching.height
  OBVIOUS
<1>4. h \in Nat /\ h > 0 /\ h \notin seen.kept
  BY <1>1, <1>3 DEF NodeInv, TimeInv
<1>5. CASE Pruned(h) /\ Answer(times, h)
  <2>1. fetching'.height = h /\ h < spent.lowest
    BY <1>5, AnswersFor DEF Pruned
  <2>2. TimeInv /\ TimesOK(times)
    BY DEF NodeInv, TimeInv
  <2>3. \A b \in seen'.kept : HasTime(times', b)
    BY <1>2 DEF Cached
  <2>4. \A i \in DOMAIN times : \E k \in DOMAIN times : times[i] = times[k]
    OBVIOUS
  <2>5. seen'.kept \subseteq seen.kept
    BY <1>2
  <2>6. Answer(times, fetching'.height) /\ fetching'.height \in Nat /\ fetching'.height < spent.lowest
    BY <1>4, <1>5, <2>1
  <2> QED
    BY <1>1, <1>2, <2>2, <2>3, <2>4, <2>5, <2>6, AnswerKeeps
<1>6. CASE Answer(SetTime(times, h, h), h)
  <2>1. h = 0 => h \in seen'.failed
    BY <1>4
  <2> QED
    BY <1>1, <1>2, <1>4, <1>6, <2>1, SetKeeps
<1> QED
  BY <1>3, <1>5, <1>6 DEF LoadTime

LEMMA LoadThrowsKeeps ==
  ASSUME NodeInv, LoadThrows
  PROVE  TimeInv'
<1>1. fetching.phase = "load" /\ UNCHANGED <<announced, spent>>
  BY DEF LoadThrows
<1>2. PICK h : h = fetching.height
  OBVIOUS
<1>3. h \in Nat /\ h > 0 /\ h \notin seen.kept
  BY <1>1, <1>2 DEF NodeInv, TimeInv
<1>4. CASE fetching.tries + 1 < NodeTries
  <2>1. PICK n, t : n = fetching.tries + 1 /\ t = fetching.time
    OBVIOUS
  <2>2. fetching' = [fetching EXCEPT !.tries = n] /\ UNCHANGED <<times, seen>>
    BY <1>4, <2>1 DEF LoadThrows
  <2>3. fetching' = [phase |-> "load", height |-> h, tries |-> n, time |-> t] /\ t \in Nat
    BY <2>1, <2>2, <1>1, <1>2 DEF NodeInv, TimeInv
  <2>4. /\ fetching'.phase = "load" /\ fetching'.height = h /\ fetching'.time = t
        /\ fetching' = [phase |-> fetching'.phase, height |-> fetching'.height, tries |-> fetching'.tries, time |-> fetching'.time]
    BY <2>3
  <2>5. ZeroNeedsFailure' /\ EventTimeKept'
    BY <1>1, <2>2, <2>4 DEF NodeInv, TimeInv, ZeroNeedsFailure, EventTimeKept
  <2> QED
    BY <1>1, <1>3, <2>2, <2>3, <2>4, <2>5 DEF NodeInv, TimeInv
<1>5. CASE ~(fetching.tries + 1 < NodeTries)
  <2>1. Answer(SetTime(times, h, 0), h) /\ seen' = [seen EXCEPT !.failed = @ \cup {h}, !.kept = {b \in @ : Cached(b)'}]
    BY <1>2, <1>5 DEF LoadThrows
  <2>2. seen'.failed = seen.failed \cup {h} /\ seen'.kept = {b \in seen.kept : Cached(b)'}
    BY <2>1 DEF NodeInv, IsSeen
  <2>3. 0 \in Nat /\ h \in seen'.failed /\ seen.failed \subseteq seen'.failed
    BY <2>2
  <2> QED
    BY <1>1, <1>3, <2>1, <2>2, <2>3, SetKeeps
<1> QED
  BY <1>4, <1>5

LEMMA NodeFirst == NodeInit => NodeInv
<1> SUFFICES ASSUME NodeInit PROVE NodeInv
  OBVIOUS
<1>1. SpentOK(spent) /\ IsSeen(seen)
  BY NodeAssumption DEF NodeInit, SpentOK, IsSeen
<1>2. TimesOK(times)
  BY NodeAssumption DEF NodeInit, TimesOK
<1>3. TimeInv
  BY <1>2 DEF NodeInit, TimeInv, NoFetch, ZeroNeedsFailure, EventTimeKept
<1>4. ClientInv
  BY DEF NodeInit, ClientInv, ChainIdNeedsQuery
<1>5. CodeInv
  BY NodeAssumption DEF NodeInit, CodeInv, UnknownNeedsMiss
<1> QED
  BY <1>1, <1>3, <1>4, <1>5 DEF NodeInv

\* The bounds stay bounds, and the history a history.
LEMMA SpentStays ==
  ASSUME NodeInv, [NodeNext]_nodeVars
  PROVE  SpentOK(spent') /\ IsSeen(seen')
<1>1. SpentOK(spent')
  <2>1. CASE spent' = spent
    BY <2>1 DEF NodeInv
  <2>2. CASE spent' = [spent EXCEPT !.downs = @ - 1] /\ spent.downs > 0
    BY <2>2 DEF NodeInv, SpentOK
  <2>3. CASE spent' = [spent EXCEPT !.fetches = @ - 1] /\ spent.fetches > 0
    BY <2>3 DEF NodeInv, SpentOK
  <2>4. CASE spent' = [spent EXCEPT !.lookups = @ - 1] /\ spent.lookups > 0
    BY <2>4 DEF NodeInv, SpentOK
  <2> QED
    BY <2>1, <2>2, <2>3, <2>4
       DEF NodeNext, nodeVars, NodeDown, NodeUp, SocketChange, NewBlock, Fetch, WaitSees,
          WaitTimeout, LoadTime,
           LoadThrows, StartUpdate, TestClient, ConnectClient, QueryChainId, LookUp, QueryCodeId
<1>2. IsSeen(seen')
  <2>1. \A k : [seen EXCEPT !.kept = k] = [failed |-> seen.failed, kept |-> k, threw |-> seen.threw, missed |-> seen.missed]
    BY DEF NodeInv, IsSeen
  <2>2. ASSUME NEW k, NEW f
        PROVE  [seen EXCEPT !.failed = f, !.kept = k] = [failed |-> f, kept |-> k, threw |-> seen.threw, missed |-> seen.missed]
    <3>1. PICK a, b, c, d : seen = [failed |-> a, kept |-> b, threw |-> c, missed |-> d]
      BY DEF NodeInv, IsSeen
    <3>2. PICK y : y = [seen EXCEPT !.failed = f, !.kept = k]
      OBVIOUS
    <3>3. y = [failed |-> f, kept |-> k, threw |-> c, missed |-> d]
      BY ONLY <3>1, <3>2
    <3>4. c = seen.threw /\ d = seen.missed
      BY <3>1
    <3> QED
      BY ONLY <3>2, <3>3, <3>4
  <2>3. \A k : [seen EXCEPT !.threw = k] = [failed |-> seen.failed, kept |-> seen.kept, threw |-> k, missed |-> seen.missed]
    BY DEF NodeInv, IsSeen
  <2>4. \A k : [seen EXCEPT !.missed = k] = [failed |-> seen.failed, kept |-> seen.kept, threw |-> seen.threw, missed |-> k]
    BY DEF NodeInv, IsSeen
  <2>5. CASE \E k : seen' = [failed |-> seen.failed, kept |-> k, threw |-> seen.threw, missed |-> seen.missed]
    BY <2>5 DEF IsSeen
  <2>6. CASE \E k, f : seen' = [failed |-> f, kept |-> k, threw |-> seen.threw, missed |-> seen.missed]
    BY <2>6 DEF IsSeen
  <2>7. CASE \E k : seen' = [failed |-> seen.failed, kept |-> seen.kept, threw |-> k, missed |-> seen.missed]
    BY <2>7 DEF IsSeen
  <2>8. CASE \E k : seen' = [failed |-> seen.failed, kept |-> seen.kept, threw |-> seen.threw, missed |-> k]
    BY <2>8 DEF IsSeen
  <2>9. CASE seen' = seen
    BY <2>9 DEF NodeInv
  <2>10. CASE NewBlock \/ LoadTime
    BY <2>1, <2>5, <2>10 DEF NewBlock, LoadTime
  <2>11. CASE LoadThrows
    BY <2>2, <2>6, <2>9, <2>11 DEF LoadThrows
  <2>12. CASE \E u \in DOMAIN update : QueryChainId(u)
    BY <2>3, <2>7, <2>12 DEF QueryChainId
  <2>13. CASE QueryCodeId
    BY <2>4, <2>8, <2>9, <2>13 DEF QueryCodeId
  <2> QED
    BY <2>9, <2>10, <2>11, <2>12, <2>13
       DEF NodeNext, nodeVars, NodeDown, NodeUp, SocketChange, Fetch, WaitSees, WaitTimeout,
           StartUpdate, TestClient, ConnectClient, LookUp
<1> QED
  BY <1>1, <1>2

LEMMA UpdateSteps ==
  ASSUME NodeInv, NEW u \in DOMAIN update, NEW v, update' = [update EXCEPT ![u] = v]
  PROVE  /\ update' = [x \in DOMAIN update' |-> update'[x]]
         /\ DOMAIN update' = DOMAIN update /\ update'[u] = v /\ \A x \in DOMAIN update \ {u} : update'[x] = update[x]
BY DEF NodeInv, ClientInv

LEMMA ClientKeeps ==
  ASSUME NodeInv, NEW u \in DOMAIN update,
         StartUpdate(u) \/ TestClient(u) \/ ConnectClient(u) \/ QueryChainId(u)
  PROVE  ClientInv'
<1>1. PICK v : update' = [update EXCEPT ![u] = v]
  BY DEF StartUpdate, TestClient, ConnectClient, QueryChainId
<1>2. /\ update' = [x \in DOMAIN update' |-> update'[x]]
      /\ DOMAIN update' = DOMAIN update /\ update'[u] = v /\ \A x \in DOMAIN update \ {u} : update'[x] = update[x]
  BY <1>1, UpdateSteps
<1>3. ChainIdNeedsQuery
  BY DEF NodeInv, ClientInv
<1>4. CASE update[u] # "chain id" /\ UNCHANGED <<client, chainId, seen>>
  BY <1>2, <1>3, <1>4 DEF ClientInv, ChainIdNeedsQuery
<1>5. CASE ~client'
  BY <1>2, <1>5 DEF ClientInv, ChainIdNeedsQuery
<1>6. CASE StartUpdate(u)
  BY <1>4, <1>6 DEF StartUpdate
<1>7. CASE TestClient(u)
  <2>1. CASE up \/ ~client
    BY <1>4, <1>7, <2>1 DEF TestClient
  <2>2. CASE ~(up \/ ~client)
    BY <1>5, <1>7, <2>2 DEF TestClient, Disconnected
  <2> QED
    BY <2>1, <2>2
<1>8. CASE ConnectClient(u)
  <2>1. CASE up
    <3>1. update'[u] = "chain id"
      BY <1>8, <2>1 DEF ConnectClient, NodeInv, ClientInv
    <3> QED
      BY <1>2, <3>1 DEF ClientInv, ChainIdNeedsQuery
  <2>2. CASE ~up
    BY <1>5, <1>8, <2>2 DEF ConnectClient
  <2> QED
    BY <2>1, <2>2
<1>9. CASE QueryChainId(u)
  <2>1. CASE up
    <3>1. chainId'
      BY <1>9, <2>1 DEF QueryChainId
    <3> QED
      BY <1>2, <3>1 DEF ClientInv, ChainIdNeedsQuery
  <2>2. CASE ~up
    <3>1. seen'.threw
      BY <1>9, <2>2 DEF QueryChainId, NodeInv, IsSeen
    <3> QED
      BY <1>2, <3>1 DEF ClientInv, ChainIdNeedsQuery
  <2> QED
    BY <2>1, <2>2
<1> QED
  BY <1>6, <1>7, <1>8, <1>9

LEMMA LookUpKeeps ==
  ASSUME NodeInv, LookUp
  PROVE  CodeInv'
<1>1. lookup.phase = "idle" /\ UNCHANGED <<codeCache, seen>>
  BY DEF LookUp
<1>2. NodeTries \in Nat /\ NodeTries > 0
  BY NodeAssumption
<1>3. CASE codeId <= 0 /\ codeCache # <<>>
  <2>1. codeId' = codeCache[1] /\ lookup' = [phase |-> "idle", tries |-> NodeTries]
    BY <1>3 DEF LookUp, NeedsCodeId
  <2> QED
    BY <1>1, <1>3, <2>1 DEF NodeInv, CodeInv, UnknownNeedsMiss
<1>4. CASE codeId <= 0 /\ codeCache = <<>>
  <2>1. lookup' = [phase |-> "query", tries |-> 0]
    BY <1>4 DEF LookUp, NeedsCodeId
  <2> QED
    BY <1>1, <1>2, <1>4, <2>1 DEF NodeInv, CodeInv, UnknownNeedsMiss
<1>5. CASE ~(codeId <= 0)
  <2>1. codeId' = codeId /\ lookup' = [phase |-> "idle", tries |-> NodeTries] /\ codeId # 0
    BY <1>5 DEF LookUp, NeedsCodeId
  <2> QED
    BY <1>1, <2>1 DEF NodeInv, CodeInv, UnknownNeedsMiss
<1> QED
  BY <1>3, <1>4, <1>5

LEMMA QueryCodeIdKeeps ==
  ASSUME NodeInv, QueryCodeId
  PROVE  CodeInv'
<1>1. lookup.phase = "query" /\ lookup.tries \in Nat /\ lookup.tries < NodeTries
  BY DEF QueryCodeId, NodeInv, CodeInv
<1>2. NodeTries \in Nat
  BY NodeAssumption
<1> DEFINE Found(c) == codeCache' = <<c>> /\ codeId' = c /\ lookup' = [phase |-> "idle", tries |-> NodeTries]
<1>3. CASE Found(1) /\ seen' = seen
  BY <1>3 DEF CodeInv, UnknownNeedsMiss
<1>4. CASE Found(0) /\ seen'.missed
  BY <1>4 DEF CodeInv, UnknownNeedsMiss
<1>5. CASE up /\ Found(0) /\ seen' = [seen EXCEPT !.missed = TRUE]
  <2>1. seen'.missed
    BY <1>5 DEF NodeInv, IsSeen
  <2> QED
    BY <1>4, <1>5, <2>1
<1>6. CASE lookup.tries + 1 < NodeTries /\ ~up
  <2>1. PICK n : n = lookup.tries + 1
    OBVIOUS
  <2>2. lookup' = [lookup EXCEPT !.tries = n] /\ UNCHANGED <<codeCache, codeId>>
    BY <1>6, <2>1 DEF QueryCodeId
  <2>3. lookup' = [phase |-> "query", tries |-> n]
    BY <2>2, <1>1 DEF NodeInv, CodeInv
  <2>4. n \in Nat /\ n < NodeTries
    BY <1>1, <1>6, <2>1
  <2>5. seen.missed => seen'.missed
    BY <1>6 DEF QueryCodeId, NodeInv, IsSeen
  <2> QED
    BY <2>2, <2>3, <2>4, <2>5 DEF NodeInv, CodeInv, UnknownNeedsMiss
<1>7. CASE ~(lookup.tries + 1 < NodeTries) /\ ~up
  <2>1. Found(0) /\ seen' = [seen EXCEPT !.missed = @ \/ lookup.tries + 1 = NodeTries]
    BY <1>7 DEF QueryCodeId
  <2>2. lookup.tries + 1 = NodeTries
    BY <1>1, <1>2, <1>7
  <2>3. seen'.missed
    BY <2>1, <2>2 DEF NodeInv, IsSeen
  <2> QED
    BY <1>4, <2>1, <2>3
<1> QED
  BY <1>3, <1>5, <1>6, <1>7 DEF QueryCodeId

LEMMA NodeStep == NodeInv /\ [NodeNext]_nodeVars => NodeInv'
<1> SUFFICES ASSUME NodeInv, [NodeNext]_nodeVars PROVE NodeInv'
  OBVIOUS
<1>1. SpentOK(spent') /\ IsSeen(seen')
  BY SpentStays
<1>2. spent'.lowest = spent.lowest
  BY DEF NodeInv, SpentOK, NodeNext, nodeVars, NodeDown, NodeUp, SocketChange, NewBlock, Fetch, WaitSees,
         WaitTimeout, LoadTime, LoadThrows, StartUpdate, TestClient, ConnectClient, QueryChainId, LookUp, QueryCodeId
<1>3. TimeInv'
  <2>1. CASE NewBlock \/ Fetch \/ WaitSees \/ WaitTimeout \/ LoadTime \/ LoadThrows
    BY <2>1, NewBlockKeeps, FetchKeeps, WaitKeeps, LoadTimeKeeps, LoadThrowsKeeps
  <2>2. CASE UNCHANGED <<times, announced, fetching>> /\ seen'.failed = seen.failed /\ seen'.kept = seen.kept
    BY <2>2, <1>2, TimeStays DEF NodeInv
  <2>3. \A k : [seen EXCEPT !.threw = k].failed = seen.failed /\ [seen EXCEPT !.threw = k].kept = seen.kept
    BY DEF NodeInv, IsSeen
  <2>4. \A k : [seen EXCEPT !.missed = k].failed = seen.failed /\ [seen EXCEPT !.missed = k].kept = seen.kept
    BY DEF NodeInv, IsSeen
  <2>5. CASE \E u \in DOMAIN update : QueryChainId(u)
    BY <2>2, <2>3, <2>5 DEF QueryChainId
  <2>6. CASE QueryCodeId
    BY <2>2, <2>4, <2>6 DEF QueryCodeId
  <2> QED
    BY <2>1, <2>2, <2>5, <2>6
       DEF NodeNext, nodeVars, NodeDown, NodeUp, SocketChange, StartUpdate, TestClient,
          ConnectClient, LookUp
<1>4. ClientInv'
  <2>1. CASE \E u \in DOMAIN update : StartUpdate(u) \/ TestClient(u) \/ ConnectClient(u) \/ QueryChainId(u)
    BY <2>1, ClientKeeps
  <2>2. CASE UNCHANGED <<client, chainId, update>> /\ seen'.threw = seen.threw
    BY <2>2, ClientStays DEF NodeInv
  <2>3. \A k : [seen EXCEPT !.kept = k].threw = seen.threw /\ [seen EXCEPT !.missed = k].threw = seen.threw
    BY DEF NodeInv, IsSeen
  <2>4. \A k, f : [seen EXCEPT !.failed = f, !.kept = k].threw = seen.threw
    BY DEF NodeInv, IsSeen
  <2>5. CASE NewBlock \/ LoadTime
    BY <2>2, <2>3, <2>5 DEF NewBlock, LoadTime
  <2>6. CASE LoadThrows
    BY <2>2, <2>4, <2>6 DEF LoadThrows
  <2>7. CASE QueryCodeId
    BY <2>2, <2>3, <2>7 DEF QueryCodeId
  <2> QED
    BY <2>1, <2>2, <2>5, <2>6, <2>7
       DEF NodeNext, nodeVars, NodeDown, NodeUp, SocketChange, Fetch, WaitSees, WaitTimeout, LookUp
<1>5. CodeInv'
  <2>1. CASE LookUp \/ QueryCodeId
    BY <2>1, LookUpKeeps, QueryCodeIdKeeps
  <2>2. CASE UNCHANGED <<codeId, codeCache, lookup>> /\ seen'.missed = seen.missed
    BY <2>2, CodeStays DEF NodeInv
  <2>3. \A k : [seen EXCEPT !.kept = k].missed = seen.missed /\ [seen EXCEPT !.threw = k].missed = seen.missed
    BY DEF NodeInv, IsSeen
  <2>4. \A k, f : [seen EXCEPT !.failed = f, !.kept = k].missed = seen.missed
    BY DEF NodeInv, IsSeen
  <2>5. CASE NewBlock \/ LoadTime
    BY <2>2, <2>3, <2>5 DEF NewBlock, LoadTime
  <2>6. CASE LoadThrows
    BY <2>2, <2>4, <2>6 DEF LoadThrows
  <2>7. CASE \E u \in DOMAIN update : QueryChainId(u)
    BY <2>2, <2>3, <2>7 DEF QueryChainId
  <2> QED
    BY <2>1, <2>2, <2>5, <2>6, <2>7
       DEF NodeNext, nodeVars, NodeDown, NodeUp, SocketChange, Fetch, WaitSees, WaitTimeout,
           StartUpdate, TestClient, ConnectClient
<1> QED
  BY <1>1, <1>3, <1>4, <1>5 DEF NodeInv

\* A time of 0 stands for a pruned block or a failed fetch, the time of an event stays
\* while it is cached, a client without a chain id is being connected or its query
\* threw, and a code id stays unknown only after a miss (BlockTimeFetcher.fetch,
\* AutoCosmWasmClient.update, getCodeId).
THEOREM NodeHolds == NodeSpec => []NodeIsKnown
<1>1. NodeSpec => []NodeInv
  BY NodeFirst, NodeStep, PTL DEF NodeSpec
<1>2. NodeInv => NodeIsKnown
  BY DEF NodeInv, TimeInv, ClientInv, CodeInv, NodeIsKnown
<1> QED
  BY <1>1, <1>2, PTL

-----------------------------------------------------------------------------
(* Recovery. The parts of the inductive invariant are stated over a chain, *)
(* rows and a job, so that they can be moved from one state to the next.   *)

StoredValue == StateValues \cup {Gone}
RecoveryPhases == {"new", "pages", "compare", "save", "state", "done", "failed"}
Reading == {"pages", "compare", "save"}

Job == [phase : RecoveryPhases, height : Nat, next : StateKeys, level : Nat,
        read : [StateKeys -> StoredValue], latest : [StateKeys -> StoredValue \cup {NoEvent}]]

RecoveryTypeOK ==
    /\ recoveryAllowed \in RecoveryBounds
    /\ chain \in Seq([StateKeys -> StoredValue]) /\ Tip \in 1..recoveryAllowed.blocks
    /\ events \in [StateKeys -> [1..recoveryAllowed.blocks -> StoredValue \cup {NoEvent}]]
    /\ exported \in 0..Tip /\ exporting \in BOOLEAN /\ (exporting => exported < Tip)
    /\ lostBlocks \subseteq 1..exported
    /\ suppressed \subseteq Nat /\ wasmCursor \in Nat
    /\ recovery \in [recoveryAllowed.jobs -> Job]

\* A job began at a height of the chain and compared with what was exported then.
JobOK(ch, n, j) ==
    /\ j.height <= Len(ch) /\ j.level <= n
    /\ j.phase = "new" => j = NotBegun
    /\ j.phase # "new" => j.height >= 1

\* What a job read was the state at some height since it began, and at that very
\* height if no page was late.
ReadOK(ch, late, j) ==
    j.phase \in Reading =>
        \A k \in StateKeys : j.read[k] # Gone =>
            /\ \E h \in j.height..Len(ch) : ch[h][k] = j.read[k]
            /\ j.height \notin late => ch[j.height][k] = j.read[k]

LiveSince(ch, k, h) == \A g \in h..Len(ch) : ch[g][k] # Gone

\* The pages read so far miss no key that lived all the while.
PagesOK(ch, j) ==
    j.phase \in Reading =>
        \A k \in StateKeys :
            (j.phase = "pages" => k < j.next) /\ LiveSince(ch, k, j.height) => j.read[k] # Gone

RecoveryJobsInv ==
    \A r \in DOMAIN recovery : /\ JobOK(chain, exported, recovery[r])
                               /\ ReadOK(chain, lateReads, recovery[r])
                               /\ PagesOK(chain, recovery[r])

RowsOf(row) == {h \in DOMAIN row : row[h] # NoEvent}
LatestOf(row) == IF RowsOf(row) = {} THEN NoEvent ELSE row[Max(RowsOf(row))]

\* A row where a job no longer minds what is written: from its height on the state is
\* what it read or newer, and above its level the exporter had still to come.
Beyond(j, row) == \E h \in RowsOf(row) : j.height <= h \/ j.level <= h

\* The events a job compared with are still the latest, or beyond it.
ComparedOK(ev, j) ==
    j.phase = "save" => \A k \in StateKeys : j.latest[k] = LatestOf(ev[k]) \/ Beyond(j, ev[k])

\* After it wrote, a key that lived since has a row beyond it, or its latest event is
\* a state since.
SavedOK(ch, ev, j) ==
    j.phase \in {"state", "done"} =>
        \A k \in StateKeys : LiveSince(ch, k, j.height) =>
            Beyond(j, ev[k]) \/ \E h \in j.height..Len(ch) : LatestOf(ev[k]) = ch[h][k]

PastInv ==
    \A r \in DOMAIN recovery \ overtaken :
        ComparedOK(events, recovery[r]) /\ SavedOK(chain, events, recovery[r])

\* An event is a state at its height or later.
EventOK(ch, ev) ==
    \A k \in StateKeys : \A h \in RowsOf(ev[k]) :
        h <= Len(ch) /\ \E g \in h..Len(ch) : ch[g][k] = ev[k][h]

KeyChanges(ch, k, h) == ch[h][k] # (IF h = 1 THEN Gone ELSE ch[h - 1][k])

\* The exporter wrote every change of the first n blocks that was not lost.
ExportedOK(ch, ev, n, lost) ==
    \A k \in StateKeys, h \in 1..n : h \notin lost /\ KeyChanges(ch, k, h) => ev[k][h] # NoEvent

EventsInv ==
    /\ EventOK(chain, events)
    /\ ExportedOK(chain, events, IF exporting THEN exported + 1 ELSE exported, lostBlocks)

\* Only a finished recovery moves the cursor past the exporter.
CursorInv ==
    \/ wasmCursor <= exported
    \/ \E r \in DOMAIN recovery : recovery[r].phase = "done" /\ recovery[r].height >= wasmCursor

RecoveryInv ==
    /\ RecoveryTypeOK
    /\ RecoveryJobsInv
    /\ PastInv
    /\ EventsInv
    /\ CursorInv
    /\ EventsAreDated
    /\ SuppressedNeedsRecovery

-----------------------------------------------------------------------------
(* Least and greatest elements.                                            *)

\* The larger of two numbers.
LEMMA RaiseIs ==
  ASSUME NEW a \in Nat, NEW b \in Nat
  PROVE  Raise(a, b) \in {a, b} /\ Raise(a, b) >= a /\ Raise(a, b) >= b
<1>1. \E x \in {a, b} : \A y \in {a, b} : x >= y
  OBVIOUS
<1> QED
  BY <1>1 DEF Raise, Max

\* The latest row of a key is the one of the greatest height.
LEMMA LatestIs ==
  ASSUME NEW n \in Nat, NEW row, DOMAIN row = 1..n, RowsOf(row) # {}
  PROVE  \E m \in RowsOf(row) : LatestOf(row) = row[m] /\ \A h \in RowsOf(row) : h <= m
<1>1. RowsOf(row) \in SUBSET (1..n)
  BY DEF RowsOf
<1> QED
  BY <1>1, MaxIs DEF LatestOf

\* The latest event of the code, as a function of the rows.
LEMMA LatestEventOf ==
  \A k \in StateKeys : LatestEvent(k) = LatestOf(events[k])
BY DEF LatestEvent, Heights, LatestOf, RowsOf

-----------------------------------------------------------------------------
(* A longer chain, and rows written.                                       *)

Extends(a, b) ==
    /\ Len(a) \in Nat /\ Len(b) \in Nat /\ Len(a) <= Len(b)
    /\ \A h \in 1..Len(a) : b[h] = a[h]

\* A chain only grows.
LEMMA AppendExtends ==
  ASSUME NEW S, NEW a \in Seq(S), NEW s \in S
  PROVE  /\ Append(a, s) \in Seq(S) /\ Len(Append(a, s)) = Len(a) + 1
         /\ Extends(a, Append(a, s))
         /\ \A h \in 1..Len(a) : a[h] \in S
<1>1. /\ Append(a, s) \in Seq(S) /\ Len(Append(a, s)) = Len(a) + 1 /\ Len(a) \in Nat
      /\ \A h \in 1..Len(a) : Append(a, s)[h] = a[h] /\ a[h] \in S
  BY AppendProperties, ElementOfSeq
<1> QED
  BY <1>1 DEF Extends

\* A key that lives to the end of the longer chain lived to the end of the shorter.
LEMMA LiveShorter ==
  ASSUME NEW a, NEW b, Extends(a, b), NEW k, NEW h \in Nat \ {0}, LiveSince(b, k, h)
  PROVE  LiveSince(a, k, h)
<1> SUFFICES ASSUME NEW g \in h..Len(a) PROVE a[g][k] # Gone
  BY DEF LiveSince
<1>1. g \in 1..Len(a) /\ g \in h..Len(b)
  BY DEF Extends
<1> QED
  BY <1>1 DEF LiveSince, Extends

\* A state of the shorter chain is one of the longer.
LEMMA StateLonger ==
  ASSUME NEW a, NEW b, Extends(a, b), NEW h \in Nat \ {0}
  PROVE  \A g \in h..Len(a) : g \in h..Len(b) /\ b[g] = a[g]
<1> SUFFICES ASSUME NEW g \in h..Len(a) PROVE g \in h..Len(b) /\ b[g] = a[g]
  OBVIOUS
<1>1. g \in 1..Len(a) /\ g \in h..Len(b)
  BY DEF Extends
<1> QED
  BY <1>1 DEF Extends

\* What is known of a job stays known as the chain grows.
LEMMA JobGrows ==
  ASSUME NEW a, NEW b, Extends(a, b), NEW n \in Nat, NEW m \in Nat, n <= m, NEW late,
         NEW j \in Job, JobOK(a, n, j), ReadOK(a, late, j), PagesOK(a, j)
  PROVE  JobOK(b, m, j) /\ ReadOK(b, late, j) /\ PagesOK(b, j)
<1>0. j.height \in Nat /\ j.level \in Nat /\ (j.phase \in Reading => j.phase # "new")
  BY DEF Job, Reading
<1>1. JobOK(b, m, j)
  BY <1>0 DEF JobOK, Extends
<1>2. ReadOK(b, late, j)
  <2> SUFFICES ASSUME j.phase \in Reading, NEW k \in StateKeys, j.read[k] # Gone
               PROVE  /\ \E h \in j.height..Len(b) : b[h][k] = j.read[k]
                      /\ j.height \notin late => b[j.height][k] = j.read[k]
    BY DEF ReadOK
  <2>1. j.height \in Nat \ {0} /\ j.height \in 1..Len(a)
    BY <1>0 DEF JobOK, Extends
  <2>2. /\ \E h \in j.height..Len(a) : a[h][k] = j.read[k]
        /\ j.height \notin late => a[j.height][k] = j.read[k]
    BY DEF ReadOK
  <2>3. \A g \in j.height..Len(a) : g \in j.height..Len(b) /\ b[g] = a[g]
    BY <2>1, StateLonger
  <2>4. b[j.height] = a[j.height]
    BY <2>1 DEF Extends
  <2> QED
    BY <2>2, <2>3, <2>4
<1>3. PagesOK(b, j)
  <2> SUFFICES ASSUME j.phase \in Reading, NEW k \in StateKeys,
                      j.phase = "pages" => k < j.next, LiveSince(b, k, j.height)
               PROVE  j.read[k] # Gone
    BY DEF PagesOK
  <2>1. j.height \in Nat \ {0}
    BY <1>0 DEF JobOK
  <2>2. LiveSince(a, k, j.height)
    BY <2>1, LiveShorter
  <2> QED
    BY <2>2 DEF PagesOK
<1> QED
  BY <1>1, <1>2, <1>3

LEMMA SavedGrows ==
  ASSUME NEW a, NEW b, Extends(a, b), NEW n, NEW ev, NEW j \in Job, JobOK(a, n, j), SavedOK(a, ev, j)
  PROVE  SavedOK(b, ev, j)
<1> SUFFICES ASSUME j.phase \in {"state", "done"}, NEW k \in StateKeys, LiveSince(b, k, j.height),
                    ~Beyond(j, ev[k])
             PROVE  \E h \in j.height..Len(b) : b[h][k] = LatestOf(ev[k])
  BY DEF SavedOK
<1>1. j.height \in Nat \ {0}
  BY DEF JobOK, Job
<1>2. LiveSince(a, k, j.height)
  BY <1>1, LiveShorter
<1>3. \E h \in j.height..Len(a) : a[h][k] = LatestOf(ev[k])
  BY <1>2 DEF SavedOK
<1>4. \A g \in j.height..Len(a) : g \in j.height..Len(b) /\ b[g] = a[g]
  BY <1>1, StateLonger
<1> QED
  BY <1>3, <1>4

\* Rows written beyond a job do not matter to it.
LEMMA WrittenBeyond ==
  ASSUME NEW ch, NEW ev, NEW ev2, NEW j, ComparedOK(ev, j), SavedOK(ch, ev, j),
         \A k \in StateKeys : ev2[k] = ev[k] \/ Beyond(j, ev2[k])
  PROVE  ComparedOK(ev2, j) /\ SavedOK(ch, ev2, j)
BY DEF ComparedOK, SavedOK

-----------------------------------------------------------------------------
(* The types of the parts.                                                 *)

LEMMA Types ==
  ASSUME RecoveryTypeOK
  PROVE  /\ Tip \in Nat /\ Tip >= 1 /\ Tip = Len(chain) /\ recoveryAllowed.blocks \in Nat
         /\ \A h \in 1..Tip : chain[h] \in [StateKeys -> StoredValue]
         /\ exported \in Nat /\ exported <= Tip
         /\ DOMAIN recovery = recoveryAllowed.jobs
         /\ \A r \in DOMAIN recovery : recovery[r] \in Job
         /\ \A k \in StateKeys : DOMAIN events[k] = 1..recoveryAllowed.blocks
<1>1. recoveryAllowed.blocks \in Nat
  BY RecoveryAssumption DEF RecoveryTypeOK
<1>2. \A h \in 1..Len(chain) : chain[h] \in [StateKeys -> StoredValue]
  BY ElementOfSeq DEF RecoveryTypeOK
<1> QED
  BY <1>1, <1>2 DEF RecoveryTypeOK, Tip

\* A value of the state is no mark of a missing row.
LEMMA Marks == Gone # NoEvent /\ NoEvent \notin StoredValue /\ StateKeys \in SUBSET Nat
BY RecoveryAssumption DEF Gone, NoEvent, StoredValue

-----------------------------------------------------------------------------
(* The invariant holds at first, and the chain and the exporter keep it.   *)

LEMMA NotBegunIsJob == NotBegun \in Job /\ NotBegun.phase = "new" /\ NotBegun.height = 0 /\ NotBegun.level = 0
<1>1. Min(StateKeys) \in StateKeys
  BY RecoveryAssumption, MinIs
<1>2. /\ [k \in StateKeys |-> Gone] \in [StateKeys -> StoredValue]
      /\ [k \in StateKeys |-> NoEvent] \in [StateKeys -> StoredValue \cup {NoEvent}]
  BY DEF StoredValue
<1> QED
  BY <1>1, <1>2 DEF NotBegun, Job, RecoveryPhases

LEMMA RecoveryInitInv == RecoveryInit => RecoveryInv
<1> SUFFICES ASSUME RecoveryInit PROVE RecoveryInv
  OBVIOUS
<1>1. chain \in Seq([StateKeys -> StoredValue]) /\ Len(chain) = 1
  <2>1. chain \in [1..1 -> [StateKeys -> StoredValue]]
    BY DEF RecoveryInit, StoredValue
  <2>2. chain \in Seq([StateKeys -> StoredValue])
    BY <2>1, SeqDef
  <2>3. DOMAIN chain = 1..1 /\ DOMAIN chain = 1..Len(chain) /\ Len(chain) \in Nat
    BY <2>1, <2>2, LenProperties
  <2> QED
    BY <2>2, <2>3
<1>2. recoveryAllowed \in RecoveryBounds /\ recoveryAllowed.blocks \in Nat /\ recoveryAllowed.blocks >= 1
  BY RecoveryAssumption DEF RecoveryInit
<1>3. RecoveryTypeOK
  <2>1. events \in [StateKeys -> [1..recoveryAllowed.blocks -> StoredValue \cup {NoEvent}]]
    BY DEF RecoveryInit
  <2>2. recovery \in [recoveryAllowed.jobs -> Job]
    BY NotBegunIsJob DEF RecoveryInit
  <2>3. exported = 0 /\ wasmCursor = 0 /\ lostBlocks = {} /\ suppressed = {}
    BY DEF RecoveryInit
  <2>4. ~exporting /\ exporting \in BOOLEAN
    BY DEF RecoveryInit
  <2>5. Tip \in 1..recoveryAllowed.blocks /\ exported \in 0..Tip
    BY <1>1, <1>2, <2>3 DEF Tip
  <2> QED
    BY <1>1, <1>2, <2>1, <2>2, <2>3, <2>4, <2>5 DEF RecoveryTypeOK
<1>4. \A r \in DOMAIN recovery : recovery[r] = NotBegun
  BY DEF RecoveryInit
<1>5. RecoveryJobsInv
  BY <1>1, <1>4, NotBegunIsJob DEF RecoveryJobsInv, JobOK, ReadOK, PagesOK, Reading, RecoveryInit
<1>6. PastInv
  BY <1>4, NotBegunIsJob DEF PastInv, ComparedOK, SavedOK
<1>7. \A k \in StateKeys : RowsOf(events[k]) = {}
  BY DEF RecoveryInit, RowsOf
<1>8. EventsInv
  <2>1. EventOK(chain, events)
    BY <1>7 DEF EventOK
  <2>2. ~exporting /\ exported = 0
    BY DEF RecoveryInit
  <2> QED
    BY <2>1, <2>2 DEF EventsInv, ExportedOK
<1>9. CursorInv /\ SuppressedNeedsRecovery
  BY DEF RecoveryInit, CursorInv, SuppressedNeedsRecovery
<1>10. EventsAreDated
  <2> SUFFICES ASSUME NEW k \in StateKeys, NEW h \in 1..Tip PROVE events[k][h] = NoEvent
    BY DEF EventsAreDated
  <2>1. h \in 1..recoveryAllowed.blocks
    BY <1>1, <1>2 DEF Tip
  <2> QED
    BY <2>1 DEF RecoveryInit
<1> QED
  BY <1>3, <1>5, <1>6, <1>8, <1>9, <1>10 DEF RecoveryInv

\* A block only makes the chain longer.
LEMMA ChainBlockInv ==
  ASSUME RecoveryInv, ChainBlock
  PROVE  RecoveryInv'
<1> USE DEF RecoveryInv
<1>0. /\ UNCHANGED <<events, exported, exporting, lostBlocks, suppressed, wasmCursor,
                     recovery, lateReads, overtaken, recoveryAllowed>>
      /\ Tip < recoveryAllowed.blocks
  BY DEF ChainBlock
<1>1. PICK s \in [StateKeys -> StoredValue] : chain' = Append(chain, s)
  <2>1. PICK k \in recoveryAllowed.keys, v \in StateValues \cup {Gone} :
            chain' = Append(chain, [chain[Tip] EXCEPT ![k] = v])
    BY DEF ChainBlock
  <2>2. [chain[Tip] EXCEPT ![k] = v] \in [StateKeys -> StoredValue]
    <3>1. chain[Tip] \in [StateKeys -> StoredValue]
      BY Types
    <3>2. v \in StoredValue
      BY DEF StoredValue
    <3> QED
      BY <3>1, <3>2
  <2> QED
    BY <2>1, <2>2
<1>2. /\ chain' \in Seq([StateKeys -> StoredValue]) /\ Len(chain') = Len(chain) + 1
      /\ Extends(chain, chain')
  BY <1>1, AppendExtends DEF RecoveryTypeOK
<1>3. RecoveryTypeOK'
  <2>1. Len(chain') \in 1..recoveryAllowed.blocks /\ exported \in 0..Len(chain')
        /\ (exporting => exported < Len(chain'))
    BY <1>0, <1>2, Types DEF RecoveryTypeOK
  <2> QED
    BY <1>0, <1>2, <2>1 DEF RecoveryTypeOK, Tip
<1>4. RecoveryJobsInv'
  <2>1. \A r \in DOMAIN recovery :
            JobOK(chain', exported, recovery[r]) /\ ReadOK(chain', lateReads, recovery[r])
            /\ PagesOK(chain', recovery[r])
    BY <1>2, JobGrows, Types DEF RecoveryJobsInv
  <2> QED
    BY <1>0, <2>1 DEF RecoveryJobsInv
<1>5. PastInv'
  <2>1. \A r \in DOMAIN recovery \ overtaken : SavedOK(chain', events, recovery[r])
    BY <1>2, SavedGrows, Types DEF RecoveryJobsInv, PastInv
  <2> QED
    BY <1>0, <2>1 DEF PastInv
<1>6. EventOK(chain', events)
  <2> SUFFICES ASSUME NEW k \in StateKeys, NEW h \in RowsOf(events[k])
               PROVE  h <= Len(chain') /\ \E g \in h..Len(chain') : chain'[g][k] = events[k][h]
    BY DEF EventOK
  <2>1. h \in Nat \ {0}
    BY Types DEF RowsOf
  <2>2. h <= Len(chain) /\ \E g \in h..Len(chain) : chain[g][k] = events[k][h]
    BY DEF EventsInv, EventOK
  <2>3. \A g \in h..Len(chain) : g \in h..Len(chain') /\ chain'[g] = chain[g]
    BY <1>2, <2>1, StateLonger
  <2> QED
    BY <1>2, <2>1, <2>2, <2>3 DEF Extends
<1>7. EventsInv'
  <2> DEFINE n == IF exporting THEN exported + 1 ELSE exported
  <2>1. n \in Nat /\ n <= Len(chain)
    BY Types DEF RecoveryTypeOK
  <2>2. ExportedOK(chain, events, n, lostBlocks)
    BY DEF EventsInv
  <2> HIDE DEF n
  <2>3. ExportedOK(chain', events, n, lostBlocks)
    <3> SUFFICES ASSUME NEW k \in StateKeys, NEW h \in 1..n, h \notin lostBlocks, KeyChanges(chain', k, h)
                 PROVE  events[k][h] # NoEvent
      BY DEF ExportedOK
    <3>1. h \in 1..Len(chain) /\ (h # 1 => h - 1 \in 1..Len(chain))
      BY <2>1, Types
    <3>2. chain'[h] = chain[h] /\ (h # 1 => chain'[h - 1] = chain[h - 1])
      BY <1>2, <3>1 DEF Extends
    <3>3. KeyChanges(chain, k, h)
      BY <3>2 DEF KeyChanges
    <3> QED
      BY <2>2, <3>3 DEF ExportedOK
  <2> QED
    BY <1>0, <1>6, <2>3 DEF EventsInv, n
<1>8. CursorInv' /\ SuppressedNeedsRecovery'
  BY <1>0 DEF CursorInv, SuppressedNeedsRecovery
<1>9. EventsAreDated'
  <2> SUFFICES ASSUME NEW k \in StateKeys, NEW h \in 1..Len(chain'), h \notin lateReads
               PROVE  events[k][h] \in {NoEvent, chain'[h][k]}
    BY <1>0 DEF EventsAreDated, Tip
  <2>1. CASE h \in 1..Len(chain)
    BY <1>2, <2>1 DEF EventsAreDated, Tip, Extends
  <2>2. CASE h = Len(chain) + 1
    <3>1. h \notin RowsOf(events[k])
      BY <2>2, Types DEF EventsInv, EventOK
    <3>2. h \in DOMAIN events[k]
      BY <1>0, <2>2, Types
    <3> QED
      BY <3>1, <3>2 DEF RowsOf
  <2> QED
    BY <1>2, <2>1, <2>2, Types
<1> QED
  BY <1>3, <1>4, <1>5, <1>7, <1>8, <1>9

\* The exporter writes the changes of the next block, beyond every job.
LEMMA ExportStateEventsInv ==
  ASSUME RecoveryInv, ExportStateEvents
  PROVE  RecoveryInv'
<1> USE DEF RecoveryInv
<1> DEFINE h == exported + 1
           RowAt(k) == IF chain[h][k] # StateAt(exported)[k] THEN [events[k] EXCEPT ![h] = chain[h][k]]
                     ELSE events[k]
<1>0. /\ UNCHANGED <<chain, exported, lostBlocks, suppressed, wasmCursor, recovery, lateReads,
                     overtaken, recoveryAllowed>>
      /\ exporting' = TRUE /\ ~exporting /\ exported < Tip
      /\ events' = [k \in StateKeys |-> RowAt(k)]
  BY DEF ExportStateEvents
<1>1. h \in 1..Tip /\ h \in 1..recoveryAllowed.blocks /\ exported \in Nat
  BY <1>0, Types DEF RecoveryTypeOK
<1>2. \A k \in StateKeys : chain[h][k] \in StoredValue /\ chain[h][k] # NoEvent
  <2>1. chain[h] \in [StateKeys -> StoredValue]
    BY <1>1, Types
  <2> QED
    BY <2>1, Marks
<1>3. \A k \in StateKeys : (chain[h][k] # StateAt(exported)[k]) <=> KeyChanges(chain, k, h)
  <2> SUFFICES ASSUME NEW k \in StateKeys
               PROVE  StateAt(exported)[k] = IF h = 1 THEN Gone ELSE chain[h - 1][k]
    BY DEF KeyChanges
  <2>1. CASE exported = 0
    BY <2>1 DEF StateAt
  <2>2. CASE exported # 0
    BY <1>1, <2>2 DEF StateAt
  <2> QED
    BY <2>1, <2>2
<1> HIDE DEF h
<1>4. ASSUME NEW k \in StateKeys
      PROVE  /\ RowAt(k) \in [1..recoveryAllowed.blocks -> StoredValue \cup {NoEvent}]
             /\ RowAt(k) = events[k] \/ (h \in RowsOf(RowAt(k)) /\ RowAt(k)[h] = chain[h][k])
             /\ \A g \in 1..recoveryAllowed.blocks : g # h => RowAt(k)[g] = events[k][g]
             /\ KeyChanges(chain, k, h) => RowAt(k)[h] # NoEvent
  <2>1. events[k] \in [1..recoveryAllowed.blocks -> StoredValue \cup {NoEvent}]
    BY DEF RecoveryTypeOK
  <2> QED
    BY <1>1, <1>2, <1>3, <2>1 DEF RowsOf
<1> HIDE DEF RowAt
<1>5. RecoveryTypeOK'
  <2>1. events' \in [StateKeys -> [1..recoveryAllowed.blocks -> StoredValue \cup {NoEvent}]]
    BY <1>0, <1>4
  <2> QED
    BY <1>0, <2>1 DEF RecoveryTypeOK, Tip
<1>6. RecoveryJobsInv'
  BY <1>0 DEF RecoveryJobsInv
<1>7. PastInv'
  <2> SUFFICES ASSUME NEW r \in DOMAIN recovery \ overtaken
               PROVE  ComparedOK(events', recovery[r]) /\ SavedOK(chain, events', recovery[r])
    BY <1>0 DEF PastInv
  <2>1. recovery[r].level <= h /\ recovery[r].level \in Nat
    BY <1>1, Types DEF RecoveryJobsInv, JobOK, Job, h
  <2>2. \A k \in StateKeys : events'[k] = events[k] \/ Beyond(recovery[r], events'[k])
    BY <1>0, <1>4, <2>1 DEF Beyond
  <2> QED
    BY <2>2, WrittenBeyond DEF PastInv
<1>8. EventOK(chain, events')
  <2> SUFFICES ASSUME NEW k \in StateKeys, NEW g \in RowsOf(RowAt(k))
               PROVE  g <= Len(chain) /\ \E i \in g..Len(chain) : chain[i][k] = RowAt(k)[g]
    BY <1>0 DEF EventOK
  <2>1. CASE g \in RowsOf(events[k]) /\ RowAt(k)[g] = events[k][g]
    BY <2>1 DEF EventsInv, EventOK
  <2>2. CASE g = h /\ RowAt(k)[g] = chain[h][k]
    BY <1>1, <2>2, Types
  <2>3. g \in 1..recoveryAllowed.blocks /\ DOMAIN events[k] = 1..recoveryAllowed.blocks
    BY <1>4, Types DEF RowsOf
  <2> QED
    BY <1>4, <2>1, <2>2, <2>3 DEF RowsOf
<1>9. EventsInv'
  <2>1. ExportedOK(chain, events, exported, lostBlocks)
    BY <1>0 DEF EventsInv
  <2>2. ExportedOK(chain, events', h, lostBlocks)
    <3> SUFFICES ASSUME NEW k \in StateKeys, NEW g \in 1..h, g \notin lostBlocks, KeyChanges(chain, k, g)
                 PROVE  RowAt(k)[g] # NoEvent
      BY <1>0 DEF ExportedOK
    <3>1. CASE g = h
      BY <1>4, <3>1
    <3>2. CASE g # h
      <4>1. g \in 1..exported /\ g \in 1..recoveryAllowed.blocks
        BY <1>1, <3>2, Types DEF h
      <4> QED
        BY <1>4, <2>1, <3>2, <4>1 DEF ExportedOK
    <3> QED
      BY <3>1, <3>2
  <2> QED
    BY <1>0, <1>8, <2>2 DEF EventsInv, h
<1>10. CursorInv' /\ SuppressedNeedsRecovery'
  BY <1>0 DEF CursorInv, SuppressedNeedsRecovery
<1>11. EventsAreDated'
  <2> SUFFICES ASSUME NEW k \in StateKeys, NEW g \in 1..Tip, g \notin lateReads
               PROVE  RowAt(k)[g] \in {NoEvent, chain[g][k]}
    BY <1>0 DEF EventsAreDated, Tip
  <2>1. CASE RowAt(k)[g] = events[k][g]
    BY <2>1 DEF EventsAreDated
  <2>2. CASE g = h /\ RowAt(k)[g] = chain[h][k]
    BY <2>2
  <2>3. g \in 1..recoveryAllowed.blocks
    BY Types DEF RecoveryTypeOK
  <2> QED
    BY <1>4, <2>1, <2>2, <2>3
<1> QED
  BY <1>5, <1>6, <1>7, <1>9, <1>10, <1>11

\* The exporter comes to the end of a block, sends its webhooks or not.
LEMMA ExportWebhooksInv ==
  ASSUME RecoveryInv, ExportWebhooks
  PROVE  RecoveryInv'
<1> USE DEF RecoveryInv
<1>0. /\ UNCHANGED <<chain, events, lostBlocks, recovery, lateReads, overtaken, recoveryAllowed>>
      /\ exporting /\ exporting' = FALSE /\ exported' = exported + 1
      /\ wasmCursor' = Raise(wasmCursor, exported + 1)
      /\ suppressed' = suppressed \/ (suppressed' = suppressed \cup {exported + 1} /\ exported + 1 < wasmCursor)
  <2>1. wasmCursor \in Nat /\ exported \in Nat
    BY DEF RecoveryTypeOK
  <2> QED
    BY <2>1 DEF ExportWebhooks, SendsWebhooks
<1>1. exported \in Nat /\ exported + 1 \in 0..Tip /\ exported + 1 \in Nat /\ wasmCursor \in Nat
  BY <1>0, Types DEF RecoveryTypeOK
<1>2. RecoveryTypeOK'
  <2>1. exported' \in 0..Tip /\ lostBlocks \subseteq 1..exported'
    BY <1>0, <1>1 DEF RecoveryTypeOK
  <2>2. wasmCursor' \in Nat
    BY <1>0, <1>1, RaiseIs
  <2>3. suppressed' \subseteq Nat
    BY <1>0, <1>1 DEF RecoveryTypeOK
  <2> QED
    BY <1>0, <2>1, <2>2, <2>3 DEF RecoveryTypeOK, Tip
<1>3. RecoveryJobsInv'
  <2>1. \A r \in DOMAIN recovery : JobOK(chain, exported + 1, recovery[r])
    <3> SUFFICES ASSUME NEW r \in DOMAIN recovery PROVE recovery[r].level <= exported + 1
      BY DEF RecoveryJobsInv, JobOK
    <3>1. recovery[r].level \in Nat /\ recovery[r].level <= exported
      BY Types DEF RecoveryJobsInv, JobOK, Job
    <3> QED
      BY <1>1, <3>1
  <2> QED
    BY <1>0, <2>1 DEF RecoveryJobsInv
<1>4. PastInv' /\ EventsAreDated'
  BY <1>0 DEF PastInv, EventsAreDated, Tip
<1>5. EventsInv'
  BY <1>0 DEF EventsInv
<1>6. CursorInv'
  <2>1. Raise(wasmCursor, exported + 1) \in {wasmCursor, exported + 1}
    BY <1>1, RaiseIs
  <2>2. CASE wasmCursor <= exported
    BY <1>0, <1>1, <2>1, <2>2 DEF CursorInv
  <2>3. CASE \E r \in DOMAIN recovery : recovery[r].phase = "done" /\ recovery[r].height >= wasmCursor
    BY <1>0, <1>1, <2>1, <2>3 DEF CursorInv
  <2> QED
    BY <2>2, <2>3 DEF CursorInv
<1>7. SuppressedNeedsRecovery'
  <2> SUFFICES ASSUME NEW g \in suppressed'
               PROVE  \E r \in DOMAIN recovery : recovery[r].phase = "done" /\ recovery[r].height > g
    BY <1>0 DEF SuppressedNeedsRecovery
  <2>1. CASE g \in suppressed
    BY <2>1 DEF SuppressedNeedsRecovery
  <2>2. CASE g = exported + 1 /\ exported + 1 < wasmCursor
    <3>1. PICK r \in DOMAIN recovery : recovery[r].phase = "done" /\ recovery[r].height >= wasmCursor
      BY <1>1, <2>2 DEF CursorInv
    <3>2. recovery[r].height \in Nat
      BY Types DEF Job
    <3> QED
      BY <1>1, <2>2, <3>1, <3>2
  <2> QED
    BY <1>0, <2>1, <2>2
<1> QED
  BY <1>2, <1>3, <1>4, <1>5, <1>6, <1>7

\* A lost block counts as exported and is kept among the lost ones.
LEMMA LoseBlockInv ==
  ASSUME RecoveryInv, LoseBlock
  PROVE  RecoveryInv'
<1> USE DEF RecoveryInv
<1>0. /\ UNCHANGED <<chain, events, exporting, suppressed, wasmCursor, recovery, lateReads,
                     overtaken, recoveryAllowed>>
      /\ ~exporting /\ exported < Tip /\ exported' = exported + 1
      /\ lostBlocks' = lostBlocks \cup {exported + 1}
  BY DEF LoseBlock
<1>1. exported \in Nat /\ exported + 1 \in 0..Tip /\ exported + 1 \in Nat /\ wasmCursor \in Nat
  BY <1>0, Types DEF RecoveryTypeOK
<1>2. RecoveryTypeOK'
  <2>1. exported' \in 0..Tip /\ lostBlocks' \subseteq 1..exported'
    BY <1>0, <1>1 DEF RecoveryTypeOK
  <2> QED
    BY <1>0, <2>1 DEF RecoveryTypeOK, Tip
<1>3. RecoveryJobsInv'
  <2>1. \A r \in DOMAIN recovery : JobOK(chain, exported + 1, recovery[r])
    <3> SUFFICES ASSUME NEW r \in DOMAIN recovery PROVE recovery[r].level <= exported + 1
      BY DEF RecoveryJobsInv, JobOK
    <3>1. recovery[r].level \in Nat /\ recovery[r].level <= exported
      BY Types DEF RecoveryJobsInv, JobOK, Job
    <3> QED
      BY <1>1, <3>1
  <2> QED
    BY <1>0, <2>1 DEF RecoveryJobsInv
<1>4. PastInv' /\ EventsAreDated' /\ SuppressedNeedsRecovery'
  BY <1>0 DEF PastInv, EventsAreDated, Tip, SuppressedNeedsRecovery
<1>5. EventsInv'
  <2>1. ExportedOK(chain, events, exported, lostBlocks)
    BY <1>0 DEF EventsInv
  <2>2. ExportedOK(chain, events, exported + 1, lostBlocks \cup {exported + 1})
    <3> SUFFICES ASSUME NEW k \in StateKeys, NEW g \in 1..(exported + 1), g # exported + 1,
                        g \notin lostBlocks, KeyChanges(chain, k, g)
                 PROVE  events[k][g] # NoEvent
      BY DEF ExportedOK
    <3>1. g \in 1..exported
      BY <1>1
    <3> QED
      BY <2>1, <3>1 DEF ExportedOK
  <2> QED
    BY <1>0, <2>2 DEF EventsInv
<1>6. CursorInv'
  BY <1>0, <1>1 DEF CursorInv
<1> QED
  BY <1>2, <1>3, <1>4, <1>5, <1>6

-----------------------------------------------------------------------------
(* The steps of a recovery keep it.                                        *)

\* What is left of a job.
LEMMA EndedIs ==
  ASSUME NEW j \in Job, NEW p \in {"state", "done", "failed"}
  PROVE  /\ Ended(j, p) \in Job
         /\ Ended(j, p).phase = p /\ Ended(j, p).height = j.height /\ Ended(j, p).level = j.level
<1> DEFINE b == NotBegun
<1>1. b \in Job /\ j.height \in Nat /\ j.level \in Nat /\ p \in RecoveryPhases
  BY NotBegunIsJob DEF Job, RecoveryPhases
<1>2. Ended(j, p) = [b EXCEPT !.phase = p, !.height = j.height, !.level = j.level]
  BY DEF Ended
<1> HIDE DEF b
<1> QED
  BY <1>1, <1>2 DEF Job

\* One job changes: what it must satisfy for the others to stay as they are.
LEMMA JobChanges ==
  ASSUME RecoveryInv, NEW r \in DOMAIN recovery, NEW j \in Job,
         recovery' = [recovery EXCEPT ![r] = j],
         UNCHANGED <<chain, exported, suppressed, recoveryAllowed>>,
         \A x \in lateReads : x \in lateReads',
         JobOK(chain, exported, j), ReadOK(chain, lateReads', j), PagesOK(chain, j),
         recovery[r].phase # "done"
  PROVE  /\ recovery' \in [recoveryAllowed.jobs -> Job] /\ DOMAIN recovery' = DOMAIN recovery
         /\ \A q \in DOMAIN recovery : recovery'[q] = IF q = r THEN j ELSE recovery[q]
         /\ RecoveryJobsInv'
         /\ SuppressedNeedsRecovery'
         /\ wasmCursor' = wasmCursor => CursorInv'
<1> USE DEF RecoveryInv
<1>1. recovery \in [recoveryAllowed.jobs -> Job]
  BY DEF RecoveryTypeOK
<1>2. /\ recovery' \in [recoveryAllowed.jobs -> Job] /\ DOMAIN recovery' = DOMAIN recovery
      /\ \A q \in DOMAIN recovery : recovery'[q] = IF q = r THEN j ELSE recovery[q]
  BY <1>1
<1>3. RecoveryJobsInv'
  <2> SUFFICES ASSUME NEW q \in DOMAIN recovery
               PROVE  /\ JobOK(chain, exported, recovery'[q])
                      /\ ReadOK(chain, lateReads', recovery'[q])
                      /\ PagesOK(chain, recovery'[q])
    BY <1>2 DEF RecoveryJobsInv
  <2>1. CASE q = r
    BY <1>2, <2>1
  <2>2. CASE q # r
    <3>1. recovery'[q] = recovery[q]
      BY <1>2, <2>2
    <3>2. ReadOK(chain, lateReads', recovery[q])
      BY DEF RecoveryJobsInv, ReadOK
    <3> QED
      BY <3>1, <3>2 DEF RecoveryJobsInv
  <2> QED
    BY <2>1, <2>2
<1>4. \A q \in DOMAIN recovery : recovery[q].phase = "done" => recovery'[q] = recovery[q]
  BY <1>2
<1>5. SuppressedNeedsRecovery'
  <2> SUFFICES ASSUME NEW h \in suppressed
               PROVE  \E q \in DOMAIN recovery : recovery'[q].phase = "done" /\ recovery'[q].height > h
    BY <1>2 DEF SuppressedNeedsRecovery
  <2> QED
    BY <1>4 DEF SuppressedNeedsRecovery
<1>6. wasmCursor' = wasmCursor => CursorInv'
  BY <1>2, <1>4 DEF CursorInv
<1> QED
  BY <1>2, <1>3, <1>5, <1>6

\* A step of a job that writes nothing.
LEMMA QuietJob ==
  ASSUME RecoveryInv, NEW r \in DOMAIN recovery, NEW j \in Job,
         recovery' = [recovery EXCEPT ![r] = j],
         UNCHANGED <<chain, events, exported, exporting, lostBlocks, suppressed, wasmCursor,
                     overtaken, recoveryAllowed>>,
         \A x \in lateReads : x \in lateReads',
         JobOK(chain, exported, j), ReadOK(chain, lateReads', j), PagesOK(chain, j),
         r \notin overtaken => ComparedOK(events, j) /\ SavedOK(chain, events, j),
         recovery[r].phase # "done"
  PROVE  RecoveryInv'
<1> USE DEF RecoveryInv
<1>1. /\ recovery' \in [recoveryAllowed.jobs -> Job] /\ DOMAIN recovery' = DOMAIN recovery
      /\ \A q \in DOMAIN recovery : recovery'[q] = IF q = r THEN j ELSE recovery[q]
      /\ RecoveryJobsInv' /\ SuppressedNeedsRecovery' /\ CursorInv'
  BY JobChanges
<1>2. RecoveryTypeOK'
  BY <1>1 DEF RecoveryTypeOK, Tip
<1>3. PastInv'
  BY <1>1 DEF PastInv
<1>4. EventsInv'
  BY DEF EventsInv
<1>5. EventsAreDated'
  BY DEF EventsAreDated, Tip
<1> QED
  BY <1>1, <1>2, <1>3, <1>4, <1>5

LEMMA BeginRecoveryInv ==
  ASSUME RecoveryInv, NEW r \in DOMAIN recovery, BeginRecovery(r)
  PROVE  RecoveryInv'
<1> USE DEF RecoveryInv
<1> DEFINE j == [recovery[r] EXCEPT !.phase = "pages", !.height = Tip]
<1>0. /\ UNCHANGED <<chain, events, exported, exporting, lostBlocks, suppressed, wasmCursor,
                     lateReads, overtaken, recoveryAllowed>>
      /\ recovery[r].phase = "new"
      /\ recovery' = [recovery EXCEPT ![r] = j]
  BY DEF BeginRecovery
<1>1. recovery[r] = NotBegun /\ recovery[r] \in Job
  BY <1>0, Types DEF RecoveryJobsInv, JobOK
<1>2. /\ j \in Job /\ j.phase = "pages" /\ j.height = Tip /\ j.level = 0
      /\ j.read = recovery[r].read /\ j.next = recovery[r].next
  <2>1. Tip \in Nat /\ "pages" \in RecoveryPhases
    BY Types DEF RecoveryPhases
  <2>2. recovery[r].level = 0
    BY <1>1, NotBegunIsJob
  <2> QED
    BY <1>1, <2>1, <2>2 DEF Job
<1>3. (\A k \in StateKeys : j.read[k] = Gone) /\ j.next = Min(StateKeys)
  BY <1>1, <1>2 DEF NotBegun
<1> HIDE DEF j
<1>4. JobOK(chain, exported, j)
  BY <1>2, Types DEF JobOK
<1>5. ReadOK(chain, lateReads, j)
  BY <1>3 DEF ReadOK
<1>6. PagesOK(chain, j)
  <2>1. \A k \in StateKeys : ~(k < Min(StateKeys))
    <3>1. Min(StateKeys) \in Nat /\ \A k \in StateKeys : k \in Nat /\ Min(StateKeys) <= k
      BY RecoveryAssumption, MinIs
    <3> QED
      BY <3>1
  <2> QED
    BY <1>2, <1>3, <2>1 DEF PagesOK
<1>7. ComparedOK(events, j) /\ SavedOK(chain, events, j)
  BY <1>2 DEF ComparedOK, SavedOK
<1> QED
  BY <1>0, <1>2, <1>4, <1>5, <1>6, <1>7, QuietJob

LEMMA FailRecoveryInv ==
  ASSUME RecoveryInv, NEW r \in DOMAIN recovery, FailRecovery(r)
  PROVE  RecoveryInv'
<1> USE DEF RecoveryInv
<1> DEFINE j == Ended(recovery[r], "failed")
<1>0. /\ UNCHANGED <<chain, events, exported, exporting, lostBlocks, suppressed, wasmCursor,
                     lateReads, overtaken, recoveryAllowed>>
      /\ recovery[r].phase \in {"pages", "compare", "save", "state"}
      /\ recovery' = [recovery EXCEPT ![r] = j]
  BY DEF FailRecovery
<1>1. recovery[r] \in Job /\ JobOK(chain, exported, recovery[r])
  BY Types DEF RecoveryJobsInv
<1>2. /\ j \in Job /\ j.phase = "failed" /\ j.height = recovery[r].height
      /\ j.level = recovery[r].level
  BY <1>1, EndedIs
<1> HIDE DEF j
<1>3. JobOK(chain, exported, j) /\ ReadOK(chain, lateReads, j) /\ PagesOK(chain, j)
  BY <1>0, <1>1, <1>2 DEF JobOK, ReadOK, PagesOK, Reading
<1>4. ComparedOK(events, j) /\ SavedOK(chain, events, j)
  BY <1>2 DEF ComparedOK, SavedOK
<1> QED
  BY <1>0, <1>2, <1>3, <1>4, QuietJob

LEMMA ReadLatestEventsInv ==
  ASSUME RecoveryInv, NEW r \in DOMAIN recovery, ReadLatestEvents(r)
  PROVE  RecoveryInv'
<1> USE DEF RecoveryInv
<1> DEFINE l == [k \in StateKeys |-> LatestEvent(k)]
           j == [recovery[r] EXCEPT !.phase = "save", !.level = exported, !.latest = l]
<1>1. l \in [StateKeys -> StoredValue \cup {NoEvent}]
  <2> SUFFICES ASSUME NEW k \in StateKeys PROVE LatestOf(events[k]) \in StoredValue \cup {NoEvent}
    BY LatestEventOf
  <2>1. events[k] \in [1..recoveryAllowed.blocks -> StoredValue \cup {NoEvent}]
    BY DEF RecoveryTypeOK
  <2>2. CASE RowsOf(events[k]) = {}
    BY <2>2 DEF LatestOf
  <2>3. CASE RowsOf(events[k]) # {}
    <3>1. PICK m \in RowsOf(events[k]) : LatestOf(events[k]) = events[k][m]
      BY <2>3, LatestIs, Types
    <3> QED
      BY <2>1, <3>1 DEF RowsOf
  <2> QED
    BY <2>2, <2>3
<1>2. \A k \in StateKeys : l[k] = LatestOf(events[k])
  BY LatestEventOf
<1> HIDE DEF l
<1>0. /\ UNCHANGED <<chain, events, exported, exporting, lostBlocks, suppressed, wasmCursor,
                     lateReads, overtaken, recoveryAllowed>>
      /\ recovery[r].phase = "compare"
      /\ recovery' = [recovery EXCEPT ![r] = j]
  BY DEF ReadLatestEvents, l
<1>3. /\ recovery[r] \in Job /\ JobOK(chain, exported, recovery[r])
      /\ ReadOK(chain, lateReads, recovery[r]) /\ PagesOK(chain, recovery[r])
  BY Types DEF RecoveryJobsInv
<1>4. /\ j \in Job /\ j.phase = "save" /\ j.height = recovery[r].height /\ j.level = exported
      /\ j.read = recovery[r].read /\ j.latest = l
  <2>1. exported \in Nat /\ "save" \in RecoveryPhases
    BY Types DEF RecoveryPhases
  <2> QED
    BY <1>1, <1>3, <2>1 DEF Job
<1> HIDE DEF j
<1>5. JobOK(chain, exported, j)
  BY <1>0, <1>3, <1>4, Types DEF JobOK
<1>6. ReadOK(chain, lateReads, j) /\ PagesOK(chain, j)
  BY <1>0, <1>3, <1>4 DEF ReadOK, PagesOK, Reading
<1>7. ComparedOK(events, j) /\ SavedOK(chain, events, j)
  BY <1>2, <1>4 DEF ComparedOK, SavedOK
<1> QED
  BY <1>0, <1>4, <1>5, <1>6, <1>7, QuietJob

\* The live keys from a key on are on the page or after it.
LEMMA PageIs ==
  ASSUME RecoveryTypeOK, NEW next \in StateKeys
  PROVE  LET page == AllContractState(next)
         IN  /\ page.rest \subseteq StateKeys
             /\ \A k \in StateKeys : k \in page.keys => chain[Tip][k] # Gone
             /\ \A k \in StateKeys : chain[Tip][k] # Gone /\ ~(k < next) => k \in page.keys \cup page.rest
<1> DEFINE live == {k \in StateKeys : k >= next /\ chain[Tip][k] # Gone}
           Prior(k) == Cardinality({j \in live : j < k})
<1>1. \A k \in live : Prior(k) \in Nat
  <2> SUFFICES ASSUME NEW k \in live PROVE Prior(k) \in Nat
    OBVIOUS
  <2>1. IsFiniteSet({j \in live : j < k})
    BY RecoveryAssumption, FS_Subset
  <2> QED
    BY <2>1, FS_CardinalityType
<1>2. AllContractState(next) = [keys |-> {k \in live : Prior(k) < RecoveryPage},
                                rest |-> {k \in live : Prior(k) >= RecoveryPage}]
  BY DEF AllContractState
<1>3. \A k \in StateKeys : chain[Tip][k] # Gone /\ ~(k < next) => k \in live
  BY RecoveryAssumption
<1>4. live \subseteq StateKeys /\ \A k \in live : chain[Tip][k] # Gone
  OBVIOUS
<1> HIDE DEF live, Prior
<1>5. \A k \in live : Prior(k) < RecoveryPage \/ Prior(k) >= RecoveryPage
  BY <1>1, RecoveryAssumption
<1> QED
  BY <1>2, <1>3, <1>4, <1>5

LEMMA FetchStatePageInv ==
  ASSUME RecoveryInv, NEW r \in DOMAIN recovery, FetchStatePage(r)
  PROVE  RecoveryInv'
<1> USE DEF RecoveryInv
<1> DEFINE old == recovery[r]
           page == AllContractState(old.next)
           read == [k \in StateKeys |-> IF k \in page.keys THEN chain[Tip][k] ELSE old.read[k]]
           more == [old EXCEPT !.read = read, !.next = Min(page.rest)]
           last == [old EXCEPT !.read = read, !.phase = "compare"]
           none == Ended(old, "done")
<1>0. /\ UNCHANGED <<chain, events, exported, exporting, lostBlocks, suppressed, wasmCursor,
                     overtaken, recoveryAllowed>>
      /\ old.phase = "pages"
      /\ lateReads' = IF Tip > old.height THEN lateReads \cup {old.height} ELSE lateReads
      /\ \/ page.rest # {} /\ recovery' = [recovery EXCEPT ![r] = more]
         \/ page.rest = {} /\ recovery' = [recovery EXCEPT ![r] = last]
         \/ /\ page.rest = {} /\ \A k \in StateKeys : read[k] = Gone
            /\ recovery' = [recovery EXCEPT ![r] = none]
  BY DEF FetchStatePage
<1>1. /\ old \in Job /\ JobOK(chain, exported, old) /\ ReadOK(chain, lateReads, old)
      /\ PagesOK(chain, old)
  BY Types DEF RecoveryJobsInv
<1>2. /\ old.height \in 1..Tip /\ Tip \in old.height..Tip /\ old.height \in Nat /\ Tip \in Nat
      /\ old.level \in Nat /\ old.level <= exported /\ old.next \in StateKeys
      /\ old.read \in [StateKeys -> StoredValue]
  BY <1>0, <1>1, Types DEF JobOK, Job
<1>3. /\ page.rest \subseteq StateKeys
      /\ \A k \in StateKeys : k \in page.keys => chain[Tip][k] # Gone
      /\ \A k \in StateKeys : chain[Tip][k] # Gone /\ ~(k < old.next) => k \in page.keys \cup page.rest
  BY <1>2, PageIs
<1> HIDE DEF page
<1>4. read \in [StateKeys -> StoredValue]
  <2>1. chain[Tip] \in [StateKeys -> StoredValue]
    BY <1>2, Types
  <2> QED
    BY <1>2, <2>1
<1>5. \A k \in StateKeys : read[k] = IF k \in page.keys THEN chain[Tip][k] ELSE old.read[k]
  OBVIOUS
<1> HIDE DEF read
\* What was read is a state since the beginning.
<1>6. ASSUME NEW k \in StateKeys, read[k] # Gone
      PROVE  /\ \E h \in old.height..Len(chain) : chain[h][k] = read[k]
             /\ old.height \notin lateReads' => chain[old.height][k] = read[k]
  <2>1. CASE k \in page.keys
    <3>1. read[k] = chain[Tip][k]
      BY <1>5, <2>1
    <3>2. old.height \notin lateReads' => old.height = Tip
      BY <1>0, <1>2
    <3> QED
      BY <1>2, <3>1, <3>2 DEF Tip
  <2>2. CASE k \notin page.keys
    <3>1. read[k] = old.read[k]
      BY <1>5, <2>2
    <3>2. old.height \notin lateReads' => old.height \notin lateReads
      BY <1>0
    <3> QED
      BY <1>0, <1>1, <1>6, <3>1, <3>2 DEF ReadOK, Reading
  <2> QED
    BY <2>1, <2>2
\* A key that lived since, and that does not come after the page, was read.
<1>7. ASSUME NEW k \in StateKeys, LiveSince(chain, k, old.height), k \notin page.rest
      PROVE  read[k] # Gone
  <2>1. chain[Tip][k] # Gone
    BY <1>2, <1>7 DEF LiveSince, Tip
  <2>2. CASE k \in page.keys
    BY <1>5, <2>1, <2>2
  <2>3. CASE k \notin page.keys
    <3>1. k < old.next
      BY <1>3, <1>7, <2>1, <2>3
    <3>2. old.read[k] # Gone
      BY <1>0, <1>1, <1>7, <3>1 DEF PagesOK, Reading
    <3> QED
      BY <1>5, <2>3, <3>2
  <2> QED
    BY <2>2, <2>3
<1>8. \A x \in lateReads : x \in lateReads'
  BY <1>0
<1>9. CASE page.rest # {} /\ recovery' = [recovery EXCEPT ![r] = more]
  <2>1. Min(page.rest) \in page.rest /\ \A k \in page.rest : Min(page.rest) <= k
    BY <1>3, <1>9, Marks, MinIs
  <2>2. /\ more \in Job /\ more.phase = "pages" /\ more.height = old.height
        /\ more.level = old.level /\ more.read = read /\ more.next = Min(page.rest)
    BY <1>0, <1>1, <1>3, <1>4, <2>1 DEF Job
  <2> HIDE DEF more
  <2>3. JobOK(chain, exported, more)
    BY <1>0, <1>1, <2>2 DEF JobOK
  <2>4. ReadOK(chain, lateReads', more)
    BY <1>6, <2>2 DEF ReadOK
  <2>5. PagesOK(chain, more)
    <3> SUFFICES ASSUME NEW k \in StateKeys, k < Min(page.rest), LiveSince(chain, k, old.height)
                 PROVE  read[k] # Gone
      BY <2>2 DEF PagesOK
    <3>1. k \in Nat /\ Min(page.rest) \in Nat
      BY <1>3, <2>1, Marks
    <3>2. k \notin page.rest
      BY <2>1, <3>1
    <3> QED
      BY <1>7, <3>2
  <2>6. ComparedOK(events, more) /\ SavedOK(chain, events, more)
    BY <2>2 DEF ComparedOK, SavedOK
  <2> QED
    BY <1>0, <1>8, <1>9, <2>2, <2>3, <2>4, <2>5, <2>6, QuietJob
<1>10. CASE page.rest = {} /\ recovery' = [recovery EXCEPT ![r] = last]
  <2>2. /\ last \in Job /\ last.phase = "compare" /\ last.height = old.height
        /\ last.level = old.level /\ last.read = read
    BY <1>0, <1>1, <1>4 DEF Job, RecoveryPhases
  <2> HIDE DEF last
  <2>3. JobOK(chain, exported, last)
    BY <1>0, <1>1, <2>2 DEF JobOK
  <2>4. ReadOK(chain, lateReads', last)
    BY <1>6, <2>2 DEF ReadOK
  <2>5. PagesOK(chain, last)
    BY <1>7, <1>10, <2>2 DEF PagesOK
  <2>6. ComparedOK(events, last) /\ SavedOK(chain, events, last)
    BY <2>2 DEF ComparedOK, SavedOK
  <2> QED
    BY <1>0, <1>8, <1>10, <2>2, <2>3, <2>4, <2>5, <2>6, QuietJob
<1>11. CASE /\ page.rest = {} /\ \A k \in StateKeys : read[k] = Gone
            /\ recovery' = [recovery EXCEPT ![r] = none]
  <2>2. /\ none \in Job /\ none.phase = "done" /\ none.height = old.height
        /\ none.level = old.level
    BY <1>1, EndedIs
  <2> HIDE DEF none
  <2>3. JobOK(chain, exported, none)
    BY <1>0, <1>1, <2>2 DEF JobOK
  <2>4. ReadOK(chain, lateReads', none) /\ PagesOK(chain, none)
    BY <2>2 DEF ReadOK, PagesOK, Reading
  <2>6. ComparedOK(events, none) /\ SavedOK(chain, events, none)
    BY <1>7, <1>11, <2>2 DEF ComparedOK, SavedOK
  <2> QED
    BY <1>0, <1>8, <1>11, <2>2, <2>3, <2>4, <2>6, QuietJob
<1> QED
  BY <1>0, <1>9, <1>10, <1>11

LEMMA SaveRecoveredInv ==
  ASSUME RecoveryInv, NEW r \in DOMAIN recovery, SaveRecovered(r)
  PROVE  RecoveryInv'
<1> USE DEF RecoveryInv
<1> DEFINE job == recovery[r]
           toSave == {k \in StateKeys : job.read[k] # Gone /\ ~isUnchangedLiveState(job.read[k], job.latest[k])}
           RowAt(k) == IF k \in toSave THEN [events[k] EXCEPT ![job.height] = job.read[k]] ELSE events[k]
           j == Ended(job, IF toSave = {} THEN "done" ELSE "state")
<1>0. /\ UNCHANGED <<chain, exported, exporting, lostBlocks, suppressed, wasmCursor, lateReads,
                     recoveryAllowed>>
      /\ job.phase = "save"
      /\ events' = [k \in StateKeys |-> RowAt(k)]
      /\ recovery' = [recovery EXCEPT ![r] = j]
      /\ overtaken' = overtaken \cup
            {q \in DOMAIN recovery : /\ toSave # {} /\ recovery[q].height > job.height
                                     /\ recovery[q].phase \in {"save", "state", "done"}}
  BY DEF SaveRecovered, SavedUnder
<1>1. /\ job \in Job /\ JobOK(chain, exported, job) /\ ReadOK(chain, lateReads, job)
      /\ PagesOK(chain, job)
  BY Types DEF RecoveryJobsInv
<1>2. /\ job.height \in 1..Tip /\ job.height \in 1..recoveryAllowed.blocks /\ job.height \in Nat
      /\ \A k \in StateKeys : job.read[k] \in StoredValue /\ job.read[k] # NoEvent
  <2>1. job.height \in Nat /\ job.height >= 1 /\ job.height <= Len(chain)
    BY <1>0, <1>1 DEF JobOK, Job
  <2>2. job.read \in [StateKeys -> StoredValue]
    BY <1>1 DEF Job
  <2>3. job.height \in 1..Tip /\ job.height \in 1..recoveryAllowed.blocks
    BY <2>1, Types DEF RecoveryTypeOK
  <2> QED
    BY <2>1, <2>2, <2>3, Marks
<1>3. /\ j \in Job /\ j.phase \in {"state", "done"} /\ j.height = job.height /\ j.level = job.level
  BY <1>1, EndedIs
<1>4. \A k \in StateKeys : /\ k \in toSave => job.read[k] # Gone
                           /\ k \notin toSave /\ job.read[k] # Gone => job.latest[k] = job.read[k]
  BY DEF isUnchangedLiveState
<1> HIDE DEF toSave, j
<1>5. ASSUME NEW k \in StateKeys
      PROVE  /\ RowAt(k) \in [1..recoveryAllowed.blocks -> StoredValue \cup {NoEvent}]
             /\ k \notin toSave => RowAt(k) = events[k]
             /\ k \in toSave => /\ job.height \in RowsOf(RowAt(k))
                                /\ RowAt(k)[job.height] = job.read[k]
                                /\ \A g \in 1..recoveryAllowed.blocks :
                                       g # job.height => RowAt(k)[g] = events[k][g]
  <2>1. events[k] \in [1..recoveryAllowed.blocks -> StoredValue \cup {NoEvent}]
    BY DEF RecoveryTypeOK
  <2> QED
    BY <1>2, <2>1 DEF RowsOf
<1> HIDE DEF RowAt
<1>6. /\ recovery' \in [recoveryAllowed.jobs -> Job] /\ DOMAIN recovery' = DOMAIN recovery
      /\ \A q \in DOMAIN recovery : recovery'[q] = IF q = r THEN j ELSE recovery[q]
      /\ RecoveryJobsInv' /\ SuppressedNeedsRecovery' /\ CursorInv'
  <2>1. JobOK(chain, exported, j)
    BY <1>0, <1>1, <1>3 DEF JobOK
  <2>2. ReadOK(chain, lateReads', j) /\ PagesOK(chain, j)
    BY <1>3 DEF ReadOK, PagesOK, Reading
  <2> QED
    BY <1>0, <1>3, <2>1, <2>2, JobChanges
<1>7. RecoveryTypeOK'
  <2>1. events' \in [StateKeys -> [1..recoveryAllowed.blocks -> StoredValue \cup {NoEvent}]]
    BY <1>0, <1>5
  <2> QED
    BY <1>0, <1>6, <2>1 DEF RecoveryTypeOK, Tip
<1>8. PastInv'
  <2> SUFFICES ASSUME NEW q \in DOMAIN recovery, q \notin overtaken'
               PROVE  ComparedOK(events', recovery'[q]) /\ SavedOK(chain, events', recovery'[q])
    BY <1>0, <1>6 DEF PastInv
  <2>0. q \notin overtaken
    BY <1>0
  <2>1. CASE q = r
    <3> SUFFICES ASSUME NEW k \in StateKeys, LiveSince(chain, k, j.height)
                 PROVE  Beyond(j, RowAt(k)) \/ \E h \in j.height..Len(chain) : LatestOf(RowAt(k)) = chain[h][k]
      BY <1>0, <1>3, <1>6, <2>1 DEF ComparedOK, SavedOK
    <3>1. job.read[k] # Gone
      BY <1>0, <1>1, <1>3 DEF PagesOK, Reading
    <3>2. CASE k \in toSave
      BY <1>2, <1>3, <1>5, <3>2 DEF Beyond
    <3>3. CASE k \notin toSave
      <4>1. job.latest[k] = job.read[k] /\ RowAt(k) = events[k]
        BY <1>4, <1>5, <3>1, <3>3
      <4>2. \E h \in job.height..Len(chain) : chain[h][k] = job.read[k]
        BY <1>0, <1>1, <3>1 DEF ReadOK, Reading
      <4>3. job.latest[k] = LatestOf(events[k]) \/ Beyond(job, events[k])
        BY <1>0, <2>0, <2>1 DEF PastInv, ComparedOK
      <4> QED
        BY <1>3, <4>1, <4>2, <4>3 DEF Beyond
    <3> QED
      BY <3>2, <3>3
  <2>2. CASE q # r
    <3>1. recovery'[q] = recovery[q]
      BY <1>6, <2>2
    <3>2. ComparedOK(events, recovery[q]) /\ SavedOK(chain, events, recovery[q])
      BY <2>0 DEF PastInv
    <3>3. CASE recovery[q].phase \notin {"save", "state", "done"}
      BY <3>1, <3>3 DEF ComparedOK, SavedOK
    <3>4. CASE recovery[q].phase \in {"save", "state", "done"}
      <4>1. toSave # {} => recovery[q].height <= job.height
        <5>1. recovery[q].height \in Nat
          BY Types DEF Job
        <5> QED
          BY <1>0, <1>2, <3>4, <5>1
      <4>2. \A k \in StateKeys : events'[k] = events[k] \/ Beyond(recovery[q], events'[k])
        BY <1>0, <1>5, <4>1 DEF Beyond
      <4> QED
        BY <3>1, <3>2, <4>2, WrittenBeyond
    <3> QED
      BY <3>3, <3>4
  <2> QED
    BY <2>1, <2>2
<1>9. EventOK(chain, events')
  <2> SUFFICES ASSUME NEW k \in StateKeys, NEW g \in RowsOf(RowAt(k))
               PROVE  g <= Len(chain) /\ \E i \in g..Len(chain) : chain[i][k] = RowAt(k)[g]
    BY <1>0 DEF EventOK
  <2>1. CASE g \in RowsOf(events[k]) /\ RowAt(k)[g] = events[k][g]
    BY <2>1 DEF EventsInv, EventOK
  <2>2. CASE g = job.height /\ k \in toSave
    <3>1. \E i \in g..Len(chain) : chain[i][k] = job.read[k]
      BY <1>0, <1>1, <1>4, <2>2 DEF ReadOK, Reading
    <3>2. g <= Len(chain)
      BY <1>2, <2>2 DEF Tip
    <3> QED
      BY <1>5, <2>2, <3>1, <3>2
  <2>3. g \in 1..recoveryAllowed.blocks /\ DOMAIN events[k] = 1..recoveryAllowed.blocks
    BY <1>5, Types DEF RowsOf
  <2> QED
    BY <1>5, <2>1, <2>2, <2>3 DEF RowsOf
<1>10. EventsInv'
  <2> DEFINE n == IF exporting THEN exported + 1 ELSE exported
  <2>1. ExportedOK(chain, events, n, lostBlocks)
    BY DEF EventsInv
  <2>2. n \in Nat /\ n <= recoveryAllowed.blocks
    BY Types DEF RecoveryTypeOK
  <2> HIDE DEF n
  <2>3. ExportedOK(chain, events', n, lostBlocks)
    <3> SUFFICES ASSUME NEW k \in StateKeys, NEW h \in 1..n, h \notin lostBlocks, KeyChanges(chain, k, h)
                 PROVE  RowAt(k)[h] # NoEvent
      BY <1>0 DEF ExportedOK
    <3>1. events[k][h] # NoEvent /\ h \in 1..recoveryAllowed.blocks
      BY <2>1, <2>2, Types DEF ExportedOK
    <3> QED
      BY <1>2, <1>5, <3>1
  <2> QED
    BY <1>0, <1>9, <2>3 DEF EventsInv, n
<1>11. EventsAreDated'
  <2> SUFFICES ASSUME NEW k \in StateKeys, NEW g \in 1..Tip, g \notin lateReads
               PROVE  RowAt(k)[g] \in {NoEvent, chain[g][k]}
    BY <1>0 DEF EventsAreDated, Tip
  <2>1. CASE RowAt(k)[g] = events[k][g]
    BY <2>1 DEF EventsAreDated
  <2>2. CASE g = job.height /\ k \in toSave
    BY <1>0, <1>1, <1>4, <1>5, <2>2 DEF ReadOK, Reading
  <2>3. g \in 1..recoveryAllowed.blocks
    BY Types DEF RecoveryTypeOK
  <2> QED
    BY <1>5, <2>1, <2>2, <2>3
<1> QED
  BY <1>6, <1>7, <1>8, <1>10, <1>11

LEMMA UpdateRecoveryStateInv ==
  ASSUME RecoveryInv, NEW r \in DOMAIN recovery, UpdateRecoveryState(r)
  PROVE  RecoveryInv'
<1> USE DEF RecoveryInv
<1> DEFINE j == [recovery[r] EXCEPT !.phase = "done"]
<1>0. /\ UNCHANGED <<chain, events, exported, exporting, lostBlocks, suppressed, lateReads,
                     overtaken, recoveryAllowed>>
      /\ recovery[r].phase = "state"
      /\ recovery' = [recovery EXCEPT ![r] = j]
      /\ wasmCursor' = Raise(wasmCursor, recovery[r].height)
  BY DEF UpdateRecoveryState
<1>1. recovery[r] \in Job /\ JobOK(chain, exported, recovery[r])
  BY Types DEF RecoveryJobsInv
<1>2. /\ j \in Job /\ j.phase = "done" /\ j.height = recovery[r].height
      /\ j.level = recovery[r].level /\ j.height \in Nat
  BY <1>1 DEF Job, RecoveryPhases
<1> HIDE DEF j
<1>3. JobOK(chain, exported, j) /\ ReadOK(chain, lateReads', j) /\ PagesOK(chain, j)
  BY <1>0, <1>1, <1>2 DEF JobOK, ReadOK, PagesOK, Reading
<1>4. /\ recovery' \in [recoveryAllowed.jobs -> Job] /\ DOMAIN recovery' = DOMAIN recovery
      /\ \A q \in DOMAIN recovery : recovery'[q] = IF q = r THEN j ELSE recovery[q]
      /\ RecoveryJobsInv' /\ SuppressedNeedsRecovery'
  BY <1>0, <1>2, <1>3, JobChanges
<1>5. /\ wasmCursor \in Nat /\ wasmCursor' \in Nat
      /\ wasmCursor' \in {wasmCursor, recovery[r].height}
  BY <1>0, <1>2, RaiseIs DEF RecoveryTypeOK
<1>6. RecoveryTypeOK'
  BY <1>0, <1>4, <1>5 DEF RecoveryTypeOK, Tip
<1>7. PastInv'
  <2>1. r \notin overtaken => ComparedOK(events, j) /\ SavedOK(chain, events, j)
    <3>1. r \notin overtaken => SavedOK(chain, events, recovery[r])
      BY DEF PastInv
    <3> QED
      BY <1>0, <1>2, <3>1 DEF ComparedOK, SavedOK, Beyond
  <2> QED
    BY <1>0, <1>4, <2>1 DEF PastInv
<1>8. EventsInv' /\ EventsAreDated'
  BY <1>0 DEF EventsInv, EventsAreDated, Tip
<1>9. CursorInv'
  <2>1. CASE wasmCursor' = recovery[r].height
    <3>1. recovery'[r].phase = "done" /\ recovery'[r].height = wasmCursor' /\ r \in DOMAIN recovery'
      BY <1>2, <1>4, <2>1
    <3>2. recovery'[r].height >= wasmCursor'
      BY <1>5, <3>1
    <3> QED
      BY <3>1, <3>2 DEF CursorInv
  <2>2. CASE wasmCursor' = wasmCursor
    BY <1>0, <1>4, <2>2 DEF CursorInv
  <2> QED
    BY <1>5, <2>1, <2>2
<1> QED
  BY <1>4, <1>6, <1>7, <1>8, <1>9

LEMMA RecoveryStep == RecoveryInv /\ [RecoveryNext]_recoveryVars => RecoveryInv'
<1> SUFFICES ASSUME RecoveryInv, [RecoveryNext]_recoveryVars PROVE RecoveryInv'
  OBVIOUS
<1>1. CASE ChainBlock
  BY <1>1, ChainBlockInv
<1>2. CASE ExportStateEvents
  BY <1>2, ExportStateEventsInv
<1>3. CASE ExportWebhooks
  BY <1>3, ExportWebhooksInv
<1>4. CASE LoseBlock
  BY <1>4, LoseBlockInv
<1>5. ASSUME NEW r \in DOMAIN recovery, BeginRecovery(r) PROVE RecoveryInv'
  BY <1>5, BeginRecoveryInv
<1>6. ASSUME NEW r \in DOMAIN recovery, FetchStatePage(r) PROVE RecoveryInv'
  BY <1>6, FetchStatePageInv
<1>7. ASSUME NEW r \in DOMAIN recovery, ReadLatestEvents(r) PROVE RecoveryInv'
  BY <1>7, ReadLatestEventsInv
<1>8. ASSUME NEW r \in DOMAIN recovery, SaveRecovered(r) PROVE RecoveryInv'
  BY <1>8, SaveRecoveredInv
<1>9. ASSUME NEW r \in DOMAIN recovery, UpdateRecoveryState(r) PROVE RecoveryInv'
  BY <1>9, UpdateRecoveryStateInv
<1>10. ASSUME NEW r \in DOMAIN recovery, FailRecovery(r) PROVE RecoveryInv'
  BY <1>10, FailRecoveryInv
<1>11. CASE UNCHANGED recoveryVars
  BY <1>11 DEF RecoveryInv, recoveryVars, RecoveryTypeOK, RecoveryJobsInv, PastInv, EventsInv, CursorInv,
               EventsAreDated, SuppressedNeedsRecovery, Tip
<1> QED
  BY <1>1, <1>2, <1>3, <1>4, <1>5, <1>6, <1>7, <1>8, <1>9, <1>10, <1>11 DEF RecoveryNext

-----------------------------------------------------------------------------
(* The theorem.                                                            *)

\* Every key has a height since which it has not changed, and at which it did, if
\* it is live.
LEMMA LastChange ==
  ASSUME RecoveryTypeOK, NEW k \in StateKeys, chain[Tip][k] # Gone
  PROVE  \E c \in 1..Tip : /\ KeyChanges(chain, k, c)
                           /\ \A h \in c..Tip : chain[h][k] = chain[Tip][k]
<1> DEFINE C == {c \in 1..Tip : \A h \in c..Tip : chain[h][k] = chain[Tip][k]}
<1>0. Tip \in Nat /\ Tip >= 1
  BY Types
<1>1. C \in SUBSET Nat /\ Tip \in C
  BY <1>0
<1>2. Min(C) \in C /\ \A c \in C : Min(C) <= c
  BY <1>1, MinIs
<1>3. PICK c \in C : \A d \in C : c <= d
  BY <1>2
<1>4. c \in 1..Tip /\ \A h \in c..Tip : chain[h][k] = chain[Tip][k]
  OBVIOUS
<1>5. KeyChanges(chain, k, c)
  <2>1. CASE c = 1
    BY <1>0, <1>4, <2>1 DEF KeyChanges
  <2>2. CASE c # 1
    <3>1. c - 1 \in 1..Tip /\ c - 1 \notin C /\ c \in c..Tip
      BY <1>0, <1>3, <1>4, <2>2
    <3>2. chain[c - 1][k] # chain[Tip][k]
      <4> SUFFICES ASSUME chain[c - 1][k] = chain[Tip][k] PROVE FALSE
        OBVIOUS
      <4>1. \A h \in (c - 1)..Tip : h = c - 1 \/ h \in c..Tip
        BY <1>0, <1>4
      <4>2. \A h \in (c - 1)..Tip : chain[h][k] = chain[Tip][k]
        BY <1>4, <4>1
      <4> QED
        BY <3>1, <4>2
    <3> QED
      BY <1>4, <2>2, <3>1, <3>2 DEF KeyChanges
  <2> QED
    BY <2>1, <2>2
<1> QED
  BY <1>4, <1>5

\* Of a key that has not changed since a height, and has a row from it on, the latest
\* event is right.
LEMMA LatestIsRight ==
  ASSUME RecoveryInv, NEW k \in StateKeys, NEW c \in 1..Tip,
         \A h \in c..Tip : chain[h][k] = chain[Tip][k],
         \E h \in RowsOf(events[k]) : c <= h
  PROVE  LatestOf(events[k]) = chain[Tip][k]
<1>1. PICK m \in RowsOf(events[k]) : /\ LatestOf(events[k]) = events[k][m]
                                     /\ \A h \in RowsOf(events[k]) : h <= m
  BY LatestIs, Types DEF RecoveryInv
<1>2. \A h \in RowsOf(events[k]) : h \in Nat
  BY Types DEF RowsOf, RecoveryInv
<1>3. c <= m
  BY <1>1, <1>2
<1>4. PICK g \in m..Tip : chain[g][k] = events[k][m]
  BY DEF RecoveryInv, EventsInv, EventOK, Tip
<1>5. g \in c..Tip
  BY <1>2, <1>3, Types DEF RecoveryInv
<1> QED
  BY <1>1, <1>4, <1>5

LEMMA RecoveryInvSound == RecoveryInv => RecoveryIsSound
<1> SUFFICES ASSUME RecoveryInv PROVE RecoveredIsCurrent
  BY DEF RecoveryIsSound, RecoveryInv
<1> SUFFICES ASSUME NEW r \in DOMAIN recovery, recovery[r].phase = "done", r \notin overtaken,
                    exported = Tip, ~exporting,
                    \A h \in lostBlocks : h <= recovery[r].height /\ h <= recovery[r].level,
                    NEW k \in StateKeys, chain[Tip][k] # Gone
             PROVE  LatestOf(events[k]) = chain[Tip][k]
  BY LatestEventOf DEF RecoveredIsCurrent
<1> USE DEF RecoveryInv
<1> DEFINE j == recovery[r]
<1>0. Tip \in Nat /\ j.height \in Nat /\ j.level \in Nat /\ j.height >= 1
  BY Types DEF Job, RecoveryJobsInv, JobOK
<1>1. PICK c \in 1..Tip : /\ KeyChanges(chain, k, c)
                          /\ \A h \in c..Tip : chain[h][k] = chain[Tip][k]
  BY LastChange
<1>2. \A h \in RowsOf(events[k]) : h \in Nat
  BY Types DEF RowsOf
\* The exporter wrote the last change.
<1>3. CASE c \notin lostBlocks
  <2>1. events[k][c] # NoEvent
    BY <1>1, <1>3 DEF EventsInv, ExportedOK
  <2>2. c \in RowsOf(events[k])
    BY <1>0, <2>1, Types DEF RowsOf, RecoveryTypeOK
  <2>3. \E h \in RowsOf(events[k]) : c <= h
    BY <1>0, <2>2
  <2> QED
    BY <1>1, <2>3, LatestIsRight
\* The recovery saw it.
<1>4. CASE c \in lostBlocks
  <2>1. c <= j.height /\ c <= j.level
    BY <1>4
  <2>2. \A h \in j.height..Len(chain) : chain[h][k] = chain[Tip][k]
    <3>1. \A h \in j.height..Len(chain) : h \in c..Tip
      BY <1>0, <2>1 DEF Tip
    <3> QED
      BY <1>1, <3>1
  <2>3. LiveSince(chain, k, j.height)
    BY <2>2 DEF LiveSince
  <2>4. \/ Beyond(j, events[k])
        \/ \E h \in j.height..Len(chain) : LatestOf(events[k]) = chain[h][k]
    BY <2>3 DEF PastInv, SavedOK
  <2>5. CASE Beyond(j, events[k])
    <3>1. \E h \in RowsOf(events[k]) : c <= h
      BY <1>0, <1>2, <2>1, <2>5 DEF Beyond
    <3> QED
      BY <1>1, <3>1, LatestIsRight
  <2>6. CASE \E h \in j.height..Len(chain) : LatestOf(events[k]) = chain[h][k]
    BY <2>2, <2>6
  <2> QED
    BY <2>4, <2>5, <2>6
<1> QED
  BY <1>3, <1>4

\* Whatever blocks, exports, losses and other recoveries fall between the steps of a
\* recovery: a finished one leaves the latest events right, events are dated, and
\* webhooks are dropped only below its height (recoverContractState).
THEOREM RecoveryHolds == RecoverySpec => []RecoveryIsSound
<1>1. RecoveryInit => RecoveryInv
  BY RecoveryInitInv
<1>2. RecoveryInv /\ [RecoveryNext]_recoveryVars => RecoveryInv'
  BY RecoveryStep
<1>3. RecoveryInv => RecoveryIsSound
  BY RecoveryInvSound
<1> QED
  BY <1>1, <1>2, <1>3, PTL DEF RecoverySpec

-----------------------------------------------------------------------------
(* The import. Parts of its invariant are stated over rows, so that they   *)
(* can be moved from one state to the next.                                *)

EntryValue == EntryValues \cup {NoEntry}
RowsType == [EntryKeys -> [Blocks -> EntryValue \cup {Unstored}]]
RangeType == [key : EntryKeys, from : Blocks, upTo : 0..ExportHeight,
              value : EntryValue \cup {Unstored}, raced : BOOLEAN]
\* The snapshots are written; what was computed is invalidated as well.
EndedPhases == {"invalidate", "verify", "ok", "failed"}
CleanPhases == {"verify", "ok", "failed"}
ScriptType == [phase : {"idle", "import"} \cup EndedPhases, left : SUBSET snapshots, written : Nat,
               fresh : SUBSET (EntryKeys \X Blocks), toName : SUBSET EntryValue, again : BOOLEAN]

ImportTypeOK ==
    /\ history \in [Blocks -> [EntryKeys -> EntryValue]]
    /\ snapshots \in SUBSET Blocks /\ snapshots # {}
    /\ entries \in RowsType
    /\ script \in ScriptType
    /\ ranges \in SUBSET RangeType /\ computing \in SUBSET RangeType

\* A row holds the state of its height.
RowsAreTrue(rows) == \A k \in EntryKeys, h \in Blocks : rows[k][h] # Unstored => rows[k][h] = history[h][k]

\* The live keys of a snapshot are stored.
IsStored(rows, s) == \A k \in EntryKeys : history[s][k] # NoEntry => StoredAt(rows, k, s) = history[s][k]

\* What was imported is stored and lies before what is left; a run after one that ended
\* finds everything stored.
ImportRunInv ==
    /\ script.phase # "idle" => validateExport
    /\ script.phase = "import" =>
           \A s \in snapshots \ script.left : IsStored(entries, s) /\ \A t \in script.left : s < t
    /\ script.phase \in EndedPhases \/ script.again => \A s \in snapshots : IsStored(entries, s)
    /\ script.again => script.written = 0

\* The import is where the dry run from rows was after height h: it wrote as many rows,
\* and above the pending event of a key the rows are those the dry run began with.
AsDry(rows, h) ==
    /\ snapshots \ script.left = {s \in snapshots : s <= h}
    /\ script.written = DryEvents(rows)[h].count
    /\ \A k \in EntryKeys :
           LET p == DryEvents(rows)[h].pending[k]
           IN  /\ p.height <= h
               /\ p.height > 0 => entries[k][p.height] = p.value /\ p.value # Unstored
               /\ \A b \in Blocks : b > p.height => entries[k][b] = rows[k][b]

\* What was told is what the dry run counts from the rows there were before the import.
ToldInv ==
    ~script.again =>
        \A n \in told : \E rows \in RowsType :
            /\ n = DryEvents(rows)[ExportHeight].count
            /\ script.phase = "idle" => rows = entries
            /\ script.phase = "import" => \E h \in 0..ExportHeight : AsDry(rows, h)
            /\ script.phase \in EndedPhases => script.written = n

RightAt(rows, c, b) == StoredAt(rows, c.key, b) = c.value

\* A row of the record lies at or below b.
ChangedBelow(rows, k, b) ==
    \E s \in snapshots : /\ s <= b /\ rows[k][s] # Unstored
                         /\ \E t \in snapshots : history[t][k] # NoEntry

\* A computation is right where no row of the record lies at or below, and everywhere
\* once the import has invalidated.
RangesInv ==
    /\ \A c \in computing : c.raced \/ \A b \in c.from..c.upTo : RightAt(entries, c, b)
    /\ \A c \in ranges : c.raced \/
           \A b \in c.from..c.upTo : RightAt(entries, c, b) \/ ChangedBelow(entries, c.key, b)
    /\ script.phase \in CleanPhases =>
           \A c \in ranges : c.raced \/ \A b \in c.from..c.upTo : RightAt(entries, c, b)

\* All stored events are transformed.
NamesInv == script.phase \in EndedPhases /\ tracked => Nameable \subseteq names

ImportInv ==
    /\ ImportTypeOK
    /\ RowsAreTrue(entries)
    /\ ImportRunInv
    /\ ToldInv
    /\ RangesInv
    /\ NamesInv
    /\ FailureHasACause

\* The marks of missing values and the numbers of the blocks.
LEMMA ImportMarks ==
  /\ NoEntry # Unstored /\ NoEntry \notin EntryValues /\ Unstored \notin EntryValue
  /\ ExportHeight \in Nat \ {0} /\ Blocks \in SUBSET Nat /\ Blocks = 1..ExportHeight
  /\ IsFiniteSet(EntryKeys)
<1>1. NoEntry # Unstored
  BY DEF NoEntry, Unstored
<1> QED
  BY <1>1, ImportAssumption DEF Blocks, EntryValue

\* The stored value is that of the last row at or below the height.
LEMMA StoredIs ==
  ASSUME NEW rows \in RowsType, NEW k \in EntryKeys, NEW h \in Blocks
  PROVE  \/ StoredAt(rows, k, h) = Unstored /\ \A b \in 1..h : rows[k][b] = Unstored
         \/ \E b \in 1..h : /\ StoredAt(rows, k, h) = rows[k][b] /\ rows[k][b] # Unstored
                            /\ \A d \in (b + 1)..h : rows[k][d] = Unstored
<1> DEFINE at == {b \in Blocks : b <= h /\ rows[k][b] # Unstored}
<1>1. \A b \in 1..h : b \in Blocks /\ b <= h
  BY ImportMarks
<1>2. at \in SUBSET (1..ExportHeight)
  BY ImportMarks
<1>3. CASE at = {}
  BY <1>1, <1>3 DEF StoredAt
<1>4. CASE at # {}
  <2> DEFINE m == Max(at)
  <2>1. m \in at /\ \A b \in at : b <= m
    BY <1>2, <1>4, ImportMarks, MaxIs
  <2>2. StoredAt(rows, k, h) = rows[k][m]
    BY <1>4 DEF StoredAt
  <2> HIDE DEF m
  <2>3. m \in 1..h /\ rows[k][m] # Unstored
    BY <2>1, ImportMarks
  <2>4. \A d \in (m + 1)..h : rows[k][d] = Unstored
    <3> SUFFICES ASSUME NEW d \in (m + 1)..h, rows[k][d] # Unstored PROVE FALSE
      OBVIOUS
    <3>1. d \in 1..h /\ ~(d <= m)
      BY <2>3
    <3>2. d \in at
      BY <1>1, <3>1
    <3> QED
      BY <2>1, <3>1, <3>2
  <2> QED
    BY <2>2, <2>3, <2>4
<1> QED
  BY <1>3, <1>4

\* A row with none above it up to the height is the stored value.
LEMMA StoredLast ==
  ASSUME NEW rows \in RowsType, NEW k \in EntryKeys, NEW h \in Blocks, NEW b \in 1..h,
         rows[k][b] # Unstored, \A d \in (b + 1)..h : rows[k][d] = Unstored
  PROVE  StoredAt(rows, k, h) = rows[k][b]
<1>1. h \in Nat
  BY ImportMarks
<1>2. PICK c \in 1..h : /\ StoredAt(rows, k, h) = rows[k][c] /\ rows[k][c] # Unstored
                        /\ \A d \in (c + 1)..h : rows[k][d] = Unstored
  BY StoredIs
<1>3. ~(b < c) /\ ~(c < b)
  <2>1. b < c => c \in (b + 1)..h
    BY <1>1
  <2>2. c < b => b \in (c + 1)..h
    BY <1>1
  <2> QED
    BY <1>2, <2>1, <2>2
<1>4. b = c
  BY <1>1, <1>3
<1> QED
  BY <1>2, <1>4

\* The stored value depends on the rows at or below the height.
LEMMA StoredAlike ==
  ASSUME NEW rows, NEW more, NEW k, NEW h, \A b \in Blocks : b <= h => rows[k][b] = more[k][b]
  PROVE  StoredAt(rows, k, h) = StoredAt(more, k, h)
<1> DEFINE at == {b \in Blocks : b <= h /\ rows[k][b] # Unstored}
           too == {b \in Blocks : b <= h /\ more[k][b] # Unstored}
<1>1. at = too
  OBVIOUS
<1>2. CASE at = {}
  BY <1>1, <1>2 DEF StoredAt
<1>3. CASE at # {}
  <2>1. Max(at) \in at
    <3>1. at \in SUBSET (1..ExportHeight)
      BY ImportMarks
    <3> HIDE DEF at
    <3> QED
      BY <1>3, <3>1, ImportMarks, MaxIs
  <2>2. StoredAt(rows, k, h) = rows[k][Max(at)] /\ StoredAt(more, k, h) = more[k][Max(at)]
    BY <1>1, <1>3 DEF StoredAt
  <2> QED
    BY <2>1, <2>2
<1> QED
  BY <1>2, <1>3

\* No row between two heights: the stored values are the same.
LEMMA StoredStays ==
  ASSUME NEW rows \in RowsType, NEW k \in EntryKeys, NEW b \in Blocks, NEW h \in Blocks, b <= h,
         \A d \in (b + 1)..h : rows[k][d] = Unstored
  PROVE  StoredAt(rows, k, h) = StoredAt(rows, k, b)
<1> DEFINE at(x) == {c \in Blocks : c <= x /\ rows[k][c] # Unstored}
<1>1. at(b) = at(h)
  <2>1. \A c \in Blocks : c <= b => c <= h
    BY ImportMarks
  <2>2. \A c \in Blocks : c <= h /\ ~(c <= b) => c \in (b + 1)..h
    BY ImportMarks
  <2> QED
    BY <2>1, <2>2
<1>2. StoredAt(rows, k, h) = IF at(h) = {} THEN Unstored ELSE rows[k][Max(at(h))]
  BY DEF StoredAt
<1>3. StoredAt(rows, k, b) = IF at(b) = {} THEN Unstored ELSE rows[k][Max(at(b))]
  BY DEF StoredAt
<1> HIDE DEF at
<1> QED
  BY <1>1, <1>2, <1>3

\* A snapshot that is saved changes nothing below it, and is stored then.
LEMMA SavedIs ==
  ASSUME ImportTypeOK, NEW rows \in RowsType, NEW s \in snapshots, RowsAreTrue(rows)
  PROVE  /\ SaveSnapshot(rows, s) \in RowsType /\ RowsAreTrue(SaveSnapshot(rows, s))
         /\ \A k \in EntryKeys, b \in Blocks : b # s => SaveSnapshot(rows, s)[k][b] = rows[k][b]
         /\ \A k \in EntryKeys : SaveSnapshot(rows, s)[k][s] = IF k \in ToSave(rows, s) THEN history[s][k]
                                                             ELSE rows[k][s]
         /\ \A k \in EntryKeys, b \in Blocks : b < s => StoredAt(SaveSnapshot(rows, s), k, b) = StoredAt(rows, k, b)
         /\ IsStored(SaveSnapshot(rows, s), s)
<1> DEFINE new == SaveSnapshot(rows, s)
<1>1. s \in Blocks /\ history[s] \in [EntryKeys -> EntryValue]
  BY DEF ImportTypeOK
<1>2. \A k \in EntryKeys : new[k] = IF k \in ToSave(rows, s) THEN [rows[k] EXCEPT ![s] = history[s][k]] ELSE rows[k]
  BY DEF SaveSnapshot
<1>3. new \in RowsType
  <2>1. ASSUME NEW k \in EntryKeys PROVE [rows[k] EXCEPT ![s] = history[s][k]] \in [Blocks -> EntryValue \cup {Unstored}]
    BY <1>1 DEF RowsType
  <2> QED
    BY <2>1 DEF SaveSnapshot, RowsType
<1>4. \A k \in EntryKeys, b \in Blocks : b # s => new[k][b] = rows[k][b]
  BY <1>2 DEF RowsType
<1>5. \A k \in EntryKeys : new[k][s] = IF k \in ToSave(rows, s) THEN history[s][k] ELSE rows[k][s]
  BY <1>1, <1>2 DEF RowsType
<1> HIDE DEF new
<1>6. RowsAreTrue(new)
  BY <1>4, <1>5 DEF RowsAreTrue
<1>7. ASSUME NEW k \in EntryKeys, NEW b \in Blocks, b < s PROVE StoredAt(new, k, b) = StoredAt(rows, k, b)
  <2>1. \A d \in Blocks : d <= b => d # s
    BY <1>1, <1>7, ImportMarks
  <2>2. \A d \in Blocks : d <= b => new[k][d] = rows[k][d]
    BY <1>4, <2>1
  <2> QED
    BY <2>2, StoredAlike
<1>8. ASSUME NEW k \in EntryKeys, history[s][k] # NoEntry PROVE StoredAt(new, k, s) = history[s][k]
  <2>1. CASE k \in ToSave(rows, s)
    <3>1. new[k][s] = history[s][k] /\ history[s][k] # Unstored
      BY <1>1, <1>5, <2>1, ImportMarks
    <3>2. s \in 1..s /\ \A d \in (s + 1)..s : new[k][d] = Unstored
      BY <1>1, ImportMarks
    <3> QED
      BY <1>1, <1>3, <3>1, <3>2, StoredLast
  <2>2. CASE k \notin ToSave(rows, s)
    <3>1. StoredAt(rows, k, s) = history[s][k]
      BY <1>8, <2>2 DEF ToSave, getStoredEventsAtHeight
    <3>2. new[k] = rows[k]
      BY <1>2, <2>2 DEF new
    <3>3. StoredAt(new, k, s) = StoredAt(rows, k, s)
      BY <3>2, StoredAlike
    <3> QED
      BY <3>1, <3>3
  <2> QED
    BY <2>1, <2>2
<1> QED
  BY <1>3, <1>4, <1>5, <1>6, <1>7, <1>8 DEF new, IsStored

-----------------------------------------------------------------------------
(* The dry run.                                                            *)

PendingType == [EntryKeys -> [height : 0..ExportHeight, value : EntryValue \cup {Unstored}]]
DryType == [pending : PendingType, count : Nat]

LEMMA DryRecordType ==
  ASSUME ImportTypeOK, NEW rows, NEW dry \in DryType, NEW s \in snapshots
  PROVE  DryRecord(rows, dry, s) \in DryType
<1> DEFINE saved == DrySaved(rows, dry.pending, s)
<1>1. saved \in SUBSET EntryKeys
  BY DEF DrySaved
<1> HIDE DEF saved
<1>2. Cardinality(saved) \in Nat
  BY <1>1, ImportMarks, FS_Subset, FS_CardinalityType
<1>3. s \in 0..ExportHeight /\ history[s] \in [EntryKeys -> EntryValue]
  BY ImportMarks DEF ImportTypeOK
<1>4. ASSUME NEW k \in EntryKeys
      PROVE  [height |-> s, value |-> history[s][k]] \in [height : 0..ExportHeight, value : EntryValue \cup {Unstored}]
  BY <1>3
<1>5. Pending(dry.pending, saved, s) \in PendingType
  BY <1>4 DEF Pending, PendingType, DryType
<1>6. dry.count + Cardinality(saved) \in Nat
  BY <1>2 DEF DryType
<1> QED
  BY <1>5, <1>6 DEF DryRecord, DryType, saved

\* DryEvents is defined: its recursion ends.
LEMMA DryIs ==
  ASSUME ImportTypeOK, NEW rows \in RowsType
  PROVE  /\ DryEvents(rows)[0] = NothingPending
         /\ \A h \in 1..ExportHeight :
                DryEvents(rows)[h] = IF h \in snapshots THEN DryRecord(rows, DryEvents(rows)[h - 1], h)
                                     ELSE DryEvents(rows)[h - 1]
         /\ \A h \in 0..ExportHeight : DryEvents(rows)[h] \in DryType
<1> DEFINE S == DryType
           c == NothingPending
           next == [i \in Nat \ {0} |-> i - 1]
           G == [i \in Nat \ {0} |-> [d \in S |-> IF i \in snapshots THEN DryRecord(rows, d, i) ELSE d]]
           D == 0..ExportHeight
           e == DryEvents(rows)
<1>1. c \in S
  BY ImportMarks DEF NothingPending, DryType, PendingType
<1>2. Smaller(next)
  BY DEF Smaller
<1>3. \A i \in Nat \ {0} : next[i] = i - 1
  OBVIOUS
<1>4. G \in [Nat \ {0} -> [S -> S]] /\ \A i \in Nat \ {0}, d \in S : G[i][d] = IF i \in snapshots THEN DryRecord(rows, d, i) ELSE d
  BY DryRecordType
<1> HIDE DEF S, c, next, G
<1>5. PICK f : Recurs(f, S, c, next, G)
  <2>1. G \in [Nat \ {0} -> [S -> S]]
    BY <1>4
  <2> QED
    BY <1>1, <1>2, <2>1, Recursion
<1>6. f \in [Nat -> S] /\ f[0] = NothingPending
  BY <1>5 DEF Recurs, c
<1>7. \A i \in Nat \ {0} : f[i] = IF i \in snapshots THEN DryRecord(rows, f[i - 1], i) ELSE f[i - 1]
  <2> SUFFICES ASSUME NEW i \in Nat \ {0}
               PROVE  f[i] = IF i \in snapshots THEN DryRecord(rows, f[i - 1], i) ELSE f[i - 1]
    OBVIOUS
  <2>1. f[i] = G[i][f[i - 1]]
    BY <1>3, <1>5 DEF Recurs
  <2>2. f[i - 1] \in S
    BY <1>6
  <2> QED
    BY <1>4, <2>1, <2>2
<1> DEFINE g == [h \in D |-> f[h]]
<1>8. D \subseteq Nat /\ 0 \in D /\ \A h \in D : h # 0 => h \in Nat \ {0} /\ h - 1 \in D
  BY ImportMarks
<1> HIDE DEF D
<1>9. g = [h \in D |-> IF h = 0 THEN NothingPending
                       ELSE IF h \in snapshots THEN DryRecord(rows, g[h - 1], h) ELSE g[h - 1]]
  BY <1>6, <1>7, <1>8
<1>10. e = CHOOSE x : x = [h \in D |-> IF h = 0 THEN NothingPending
                       ELSE IF h \in snapshots THEN DryRecord(rows, x[h - 1], h) ELSE x[h - 1]]
  BY DEF DryEvents, D
<1> HIDE DEF g, e
<1>11. e = [h \in D |-> IF h = 0 THEN NothingPending
                       ELSE IF h \in snapshots THEN DryRecord(rows, e[h - 1], h) ELSE e[h - 1]]
  BY <1>9, <1>10, Zenon
<1>12. e[0] = NothingPending
  BY <1>8, <1>11, Zenon
<1>13. \A h \in D : h # 0 => e[h] = IF h \in snapshots THEN DryRecord(rows, e[h - 1], h) ELSE e[h - 1]
  BY <1>11, Zenon
<1>14. \A n \in Nat : n \in {h \in Nat : h \in D => e[h] \in S}
  <2> DEFINE P == {h \in Nat : h \in D => e[h] \in S}
  <2>1. 0 \in P
    BY <1>1, <1>12 DEF c
  <2>2. ASSUME NEW n \in Nat, n \in P PROVE n + 1 \in P
    <3> SUFFICES ASSUME n + 1 \in D PROVE e[n + 1] \in S
      OBVIOUS
    <3>1. n \in D /\ n + 1 # 0 /\ (n + 1) - 1 = n
      BY ImportMarks DEF D
    <3>2. e[n] \in S
      BY <2>2, <3>1
    <3>3. e[n + 1] = IF n + 1 \in snapshots THEN DryRecord(rows, e[n], n + 1) ELSE e[n]
      BY <1>13, <3>1
    <3> QED
      BY <3>2, <3>3, DryRecordType DEF S
  <2> HIDE DEF P
  <2>3. \A n \in Nat : n \in P
    BY <2>1, <2>2, Successors
  <2> QED
    BY <2>3 DEF P
<1>15. \A h \in 1..ExportHeight : h \in D /\ h # 0
  BY ImportMarks DEF D
<1> QED
  BY <1>8, <1>12, <1>13, <1>14, <1>15 DEF D, S, e

\* Between snapshots a dry run does nothing.
LEMMA DryStays ==
  ASSUME ImportTypeOK, NEW rows \in RowsType, NEW h \in 0..ExportHeight, NEW g \in 0..ExportHeight, h <= g,
         \A s \in snapshots : ~(h < s /\ s <= g)
  PROVE  DryEvents(rows)[g] = DryEvents(rows)[h]
<1> DEFINE e == DryEvents(rows)
           P == {d \in Nat : h + d <= g => e[h + d] = e[h]}
<1>1. h \in Nat /\ g \in Nat /\ ExportHeight \in Nat
  BY ImportMarks
<1>2. 0 \in P
  <2>1. h + 0 = h
    BY <1>1
  <2> QED
    BY <2>1
<1>3. ASSUME NEW d \in Nat, d \in P PROVE d + 1 \in P
  <2> SUFFICES ASSUME h + (d + 1) <= g PROVE e[h + (d + 1)] = e[h]
    OBVIOUS
  <2>1. /\ h + (d + 1) \in 1..ExportHeight /\ (h + (d + 1)) - 1 = h + d /\ h + d <= g
        /\ h < h + (d + 1)
    BY <1>1
  <2>2. h + (d + 1) \notin snapshots
    BY <2>1
  <2>3. e[h + (d + 1)] = e[h + d]
    BY <2>1, <2>2, DryIs
  <2> QED
    BY <1>3, <2>1, <2>3
<1> HIDE DEF P
<1>4. \A d \in Nat : d \in P
  BY <1>2, <1>3, Successors
<1>5. g - h \in Nat /\ h + (g - h) = g
  BY <1>1
<1> QED
  BY <1>4, <1>5 DEF P

\* Where the import is as the dry run, both compare a later snapshot with the same value.
LEMMA DryCompares ==
  ASSUME ImportTypeOK, NEW rows \in RowsType, NEW h \in 0..ExportHeight, AsDry(rows, h),
         NEW s \in snapshots, h < s, NEW k \in EntryKeys
  PROVE  DryStored(rows, DryEvents(rows)[h].pending, k, s) = StoredAt(entries, k, s)
<1> DEFINE pending == DryEvents(rows)[h].pending
           p == pending[k]
           at == {b \in Blocks : b <= s /\ rows[k][b] # Unstored}
<1>1. p.height \in 0..ExportHeight /\ p.value \in EntryValue \cup {Unstored}
  BY DryIs DEF DryType, PendingType
<1>2. /\ p.height <= h
      /\ p.height > 0 => entries[k][p.height] = p.value /\ p.value # Unstored
      /\ \A b \in Blocks : b > p.height => entries[k][b] = rows[k][b]
  BY DEF AsDry
<1>3. DryStored(rows, pending, k, s) = IF p.height > 0 /\ (at = {} \/ p.height >= Max(at)) THEN p.value
                                       ELSE StoredAt(rows, k, s)
  BY DEF DryStored
<1> HIDE DEF p, pending
<1>4. s \in Blocks /\ s \in Nat /\ ExportHeight \in Nat /\ Blocks = 1..ExportHeight /\ entries \in RowsType
  BY ImportMarks DEF ImportTypeOK
<1>5. CASE p.height = 0
  <2>1. \A b \in Blocks : b <= s => entries[k][b] = rows[k][b]
    BY <1>2, <1>4, <1>5
  <2>2. StoredAt(entries, k, s) = StoredAt(rows, k, s)
    BY <2>1, StoredAlike
  <2> QED
    BY <1>3, <1>5, <2>2 DEF pending
<1>6. CASE p.height > 0 /\ \A b \in at : b <= p.height
  <2>1. p.height \in 1..s
    BY <1>1, <1>2, <1>4, <1>6
  <2>2. at = {} \/ p.height >= Max(at)
    <3>1. at \in SUBSET (1..ExportHeight)
      BY <1>4
    <3> HIDE DEF at
    <3>2. at # {} => Max(at) \in at
      BY <1>4, <3>1, MaxIs
    <3>3. \A b \in at : p.height >= b
      BY <1>1, <1>4, <1>6, <3>1
    <3> QED
      BY <3>2, <3>3
  <2>3. \A d \in (p.height + 1)..s : entries[k][d] = Unstored
    <3> SUFFICES ASSUME NEW d \in (p.height + 1)..s PROVE entries[k][d] = Unstored
      OBVIOUS
    <3>1. d \in Blocks /\ d > p.height /\ d <= s /\ ~(d <= p.height)
      BY <1>4, <2>1
    <3> QED
      BY <1>2, <1>6, <3>1
  <2>4. StoredAt(entries, k, s) = p.value
    BY <1>2, <1>4, <1>6, <2>1, <2>3, StoredLast
  <2> QED
    BY <1>3, <1>6, <2>2, <2>4 DEF pending
<1>7. CASE p.height > 0 /\ \E b \in at : ~(b <= p.height)
  <2>1. at \in SUBSET (1..ExportHeight) /\ at # {}
    BY <1>4, <1>7
  <2> DEFINE m == Max(at)
  <2>2. m \in at /\ \A b \in at : b <= m
    <3> HIDE DEF at
    <3> QED
      BY <1>4, <2>1, MaxIs
  <2>3. StoredAt(rows, k, s) = rows[k][m]
    BY <2>1 DEF StoredAt
  <2> HIDE DEF m
  <2>4. m \in 1..s /\ m > p.height /\ rows[k][m] # Unstored
    BY <1>1, <1>4, <1>7, <2>2
  <2>5. ~(p.height >= m)
    BY <1>1, <2>4
  <2>6. entries[k][m] = rows[k][m]
    BY <1>2, <1>4, <2>4
  <2>7. \A d \in (m + 1)..s : entries[k][d] = Unstored
    <3> SUFFICES ASSUME NEW d \in (m + 1)..s PROVE entries[k][d] = Unstored
      OBVIOUS
    <3>1. d \in Blocks /\ d > p.height /\ d <= s /\ ~(d <= m)
      BY <1>1, <1>4, <2>4
    <3> QED
      BY <1>2, <2>2, <3>1
  <2>8. StoredAt(entries, k, s) = rows[k][m]
    BY <1>4, <2>4, <2>6, <2>7, StoredLast
  <2> QED
    BY <1>3, <2>1, <2>3, <2>5, <2>8 DEF pending, m
<1> QED
  BY <1>1, <1>5, <1>6, <1>7

\* The next snapshot of an import that is as the dry run: it saves the same keys.
LEMMA DrySaves ==
  ASSUME ImportTypeOK, NEW rows \in RowsType, NEW h \in 0..ExportHeight, AsDry(rows, h),
         NEW s \in script.left, \A t \in script.left : s <= t
  PROVE  /\ h < s /\ s \in 1..ExportHeight
         /\ DryEvents(rows)[s] = DryRecord(rows, DryEvents(rows)[h], s)
         /\ DrySaved(rows, DryEvents(rows)[h].pending, s) = ToSave(entries, s)
<1>1. s \in snapshots /\ s \in 1..ExportHeight /\ snapshots \subseteq Nat /\ ExportHeight \in Nat
  BY ImportMarks DEF ImportTypeOK, ScriptType
<1>2. snapshots \ script.left = {t \in snapshots : t <= h}
  BY DEF AsDry
<1>3. h < s
  BY <1>1, <1>2
<1>4. \A t \in snapshots : ~(h < t /\ t <= s - 1)
  <2> SUFFICES ASSUME NEW t \in snapshots, h < t, t <= s - 1 PROVE FALSE
    OBVIOUS
  <2>1. t \in Nat /\ ~(t <= h) /\ ~(s <= t)
    BY <1>1
  <2> QED
    BY <1>2, <2>1
<1>5. s - 1 \in 0..ExportHeight /\ h <= s - 1
  BY <1>1, <1>3
<1>6. DryEvents(rows)[s - 1] = DryEvents(rows)[h]
  <2> DEFINE g == s - 1
  <2>1. g \in 0..ExportHeight /\ h <= g /\ \A t \in snapshots : ~(h < t /\ t <= g)
    BY <1>4, <1>5
  <2> HIDE DEF g
  <2>2. DryEvents(rows)[g] = DryEvents(rows)[h]
    BY <2>1, DryStays
  <2> QED
    BY <2>2 DEF g
<1>7. DryEvents(rows)[s] = DryRecord(rows, DryEvents(rows)[h], s)
  BY <1>1, <1>6, DryIs
<1>8. \A k \in EntryKeys : DryStored(rows, DryEvents(rows)[h].pending, k, s) = StoredAt(entries, k, s)
  BY <1>1, <1>3, DryCompares
<1>9. DrySaved(rows, DryEvents(rows)[h].pending, s) = ToSave(entries, s)
  BY <1>8 DEF DrySaved, ToSave, getStoredEventsAtHeight
<1> QED
  BY <1>1, <1>3, <1>7, <1>9

-----------------------------------------------------------------------------
(* Every step keeps the invariant of the import.                           *)

LEMMA ImportFirst == ImportInit => ImportInv
<1> SUFFICES ASSUME ImportInit PROVE ImportInv
  OBVIOUS
<1>1. PICK x \in Exports : history = x.history /\ snapshots = x.snapshots
  BY DEF ImportInit
<1>2. /\ history \in [Blocks -> [EntryKeys -> EntryValue]]
      /\ snapshots \in SUBSET Blocks /\ snapshots # {}
  <2>1. x \in [history : [1..ExportHeight -> [EntryKeys -> EntryValue]], snapshots : (SUBSET (1..ExportHeight)) \ {{}},
              reported : BOOLEAN, tracked : BOOLEAN]
    BY ImportAssumption DEF EntryValue
  <2>2. x.history \in [Blocks -> [EntryKeys -> EntryValue]] /\ x.snapshots \in SUBSET Blocks /\ x.snapshots # {}
    BY <2>1 DEF Blocks
  <2> QED
    BY <1>1, <2>2
<1>3. PICK known \in SUBSET Blocks :
          entries = [k \in EntryKeys |-> [h \in Blocks |->
                         IF h \in known /\ history[h][k] # Before(h)[k] THEN history[h][k] ELSE Unstored]]
  BY DEF ImportInit
<1>4. entries \in RowsType /\ RowsAreTrue(entries)
  BY <1>2, <1>3 DEF RowsType, RowsAreTrue
<1>5. /\ script = Idle /\ told = {} /\ ranges = {} /\ computing = {}
      /\ script.phase = "idle" /\ script.again = FALSE
  BY DEF ImportInit, Idle
<1>6. ImportTypeOK
  BY <1>2, <1>4, <1>5 DEF ImportTypeOK, ScriptType, Idle, EndedPhases
<1>7. ImportRunInv /\ ToldInv /\ RangesInv /\ NamesInv /\ FailureHasACause
  BY <1>5 DEF ImportRunInv, ToldInv, RangesInv, NamesInv, FailureHasACause, EndedPhases, CleanPhases
<1> QED
  BY <1>4, <1>6, <1>7 DEF ImportInv

\* What does not depend on the run of the script stays when only the script changes.
LEMMA QuietScript ==
  ASSUME ImportInv, UNCHANGED <<history, snapshots, entries>>
  PROVE  /\ RowsAreTrue(entries)' /\ (validateExport' <=> validateExport)
         /\ \A s : IsStored(entries, s)' <=> IsStored(entries, s)
         /\ \A rows : DryEvents(rows)' = DryEvents(rows)
         /\ \A c, b : RightAt(entries, c, b)' <=> RightAt(entries, c, b)
         /\ \A k, b : ChangedBelow(entries, k, b)' <=> ChangedBelow(entries, k, b)
         /\ \A k, h : StoredAt(entries, k, h)' = StoredAt(entries, k, h)
<1>1. RowsAreTrue(entries)' /\ (validateExport' <=> validateExport)
  BY DEF ImportInv, RowsAreTrue, validateExport
<1>2. \A k, h : StoredAt(entries, k, h)' = StoredAt(entries, k, h)
  BY DEF StoredAt
<1>3. \A s : IsStored(entries, s)' <=> IsStored(entries, s)
  BY <1>2 DEF IsStored
<1>4. \A rows : DryEvents(rows)' = DryEvents(rows)
  BY DEF DryEvents, DryRecord, DrySaved, DryStored, StoredAt, Pending
<1>5. \A c, b : RightAt(entries, c, b)' <=> RightAt(entries, c, b)
  BY <1>2 DEF RightAt
<1>6. \A k, b : ChangedBelow(entries, k, b)' <=> ChangedBelow(entries, k, b)
  BY DEF ChangedBelow
<1> QED
  BY <1>1, <1>2, <1>3, <1>4, <1>5, <1>6

\* What a failure is about stays as well.
LEMMA QuietFailure ==
  ASSUME ImportInv, UNCHANGED <<exportVars, entries>>, script'.phase = "failed" => script.phase = "failed"
  PROVE  FailureHasACause'
<1>1. UNCHANGED <<history, snapshots, reported, tracked, entries>>
  BY DEF exportVars
<1>2. \A k, h : LastMissed(k, h)' <=> LastMissed(k, h)
  BY <1>1 DEF LastMissed, Before
<1>3. authenticatorIdentities' = authenticatorIdentities
  BY <1>1, QuietScript DEF authenticatorIdentities
<1>4. \A k : Decoded(history[ExportHeight][k])' = Decoded(history[ExportHeight][k])
  BY <1>1 DEF Decoded
<1> QED
  BY <1>1, <1>2, <1>3, <1>4 DEF ImportInv, FailureHasACause

LEMMA DryRunInv == ASSUME ImportInv, DryRun PROVE ImportInv'
<1>1. /\ script.phase = "idle" /\ told' = {DryEvents(entries)[ExportHeight].count}
      /\ UNCHANGED <<history, snapshots, tracked, entries, names, script, runsLeft, ranges, computing>>
      /\ FailureHasACause'
  BY QuietFailure DEF DryRun, exportVars
<1>2. ImportTypeOK' /\ RowsAreTrue(entries)' /\ ImportRunInv' /\ RangesInv' /\ NamesInv'
  <2>1. ImportTypeOK'
    BY <1>1 DEF ImportInv, ImportTypeOK, ScriptType
  <2>2. ImportRunInv' /\ RangesInv' /\ NamesInv'
    BY <1>1, QuietScript DEF ImportInv, ImportRunInv, RangesInv, NamesInv, Nameable
  <2> QED
    BY <1>1, <2>1, <2>2, QuietScript
<1>3. ToldInv'
  <2>1. PICK rows \in RowsType : rows = entries
    BY DEF ImportInv, ImportTypeOK
  <2>2. DryEvents(rows)' = DryEvents(rows) /\ told' = {DryEvents(rows)[ExportHeight].count}
    BY <1>1, <2>1, QuietScript
  <2> QED
    BY <1>1, <2>1, <2>2 DEF ToldInv, EndedPhases
<1> QED
  BY <1>1, <1>2, <1>3 DEF ImportInv

LEMMA StartImportInv == ASSUME ImportInv, StartImport PROVE ImportInv'
<1>1. script.phase = "idle" /\ UNCHANGED <<history, snapshots, tracked, entries, names, told, ranges, computing>>
  BY DEF StartImport, exportVars
<1>4. FailureHasACause'
  <2>1. UNCHANGED <<exportVars, entries>> /\ (script'.phase = "failed" => script.phase = "failed")
    BY <1>1 DEF StartImport, ImportInv, ImportTypeOK, ScriptType
  <2> QED
    BY <2>1, QuietFailure
<1>2. CASE ~validateExport
  <2>1. script' = script
    BY <1>2 DEF StartImport
  <2>2. ImportTypeOK' /\ ImportRunInv' /\ ToldInv' /\ RangesInv' /\ NamesInv'
    BY <1>1, <2>1, QuietScript DEF ImportInv, ImportTypeOK, ScriptType, ImportRunInv, ToldInv, RangesInv, NamesInv, Nameable,
                                   RangeType, EndedPhases, CleanPhases
  <2> QED
    BY <1>1, <1>4, <2>2, QuietScript DEF ImportInv
<1>3. CASE validateExport
  <2>1. script' = [script EXCEPT !.phase = "import", !.left = snapshots, !.written = 0, !.fresh = {}]
    BY <1>3 DEF StartImport
  <2>2. ImportTypeOK
    BY DEF ImportInv
  <2>3. /\ script'.phase = "import" /\ script'.left = snapshots /\ script'.written = 0
        /\ script'.again = script.again
        /\ script' \in ScriptType
    BY <2>1, <2>2 DEF ImportTypeOK, ScriptType
  <2>4. ImportTypeOK'
    BY <1>1, <2>2, <2>3 DEF ImportTypeOK, ScriptType, RangeType
  <2>5. ImportRunInv' /\ RangesInv' /\ NamesInv'
    BY <1>1, <1>3, <2>3, QuietScript DEF ImportInv, ImportRunInv, RangesInv, NamesInv, EndedPhases, CleanPhases
  <2>6. ToldInv'
    <3> SUFFICES ASSUME ~script.again, NEW n \in told
                 PROVE  \E rows \in RowsType : /\ n = DryEvents(rows)[ExportHeight].count
                                               /\ \E h \in 0..ExportHeight : AsDry(rows, h)'
      BY <1>1, <2>3, QuietScript DEF ToldInv, EndedPhases
    <3>1. PICK rows \in RowsType : n = DryEvents(rows)[ExportHeight].count /\ rows = entries
      BY <1>1 DEF ImportInv, ToldInv
    <3>2. 0 \in 0..ExportHeight
      BY ImportMarks
    <3>3. DryEvents(rows)[0] = NothingPending
      BY <2>2, DryIs
    <3>4. DryEvents(rows)'[0] = NothingPending /\ entries' = rows /\ snapshots' = snapshots
      BY <1>1, <3>1, <3>3, QuietScript
    <3>5. snapshots \ script'.left = {} /\ {s \in snapshots : s <= 0} = {}
      <4>1. \A s \in snapshots : ~(s <= 0)
        BY <2>2, ImportMarks DEF ImportTypeOK
      <4> QED
        BY <2>3, <4>1
    <3>6. NothingPending.count = 0 /\ \A k \in EntryKeys : NothingPending.pending[k].height = 0
      BY DEF NothingPending
    <3>7. AsDry(rows, 0)'
      BY <2>3, <3>2, <3>4, <3>5, <3>6 DEF AsDry
    <3> QED
      BY <3>1, <3>2, <3>7
  <2> QED
    BY <1>1, <1>4, <2>4, <2>5, <2>6, QuietScript DEF ImportInv
<1> QED
  BY <1>2, <1>3

LEMMA ImportRecordInv == ASSUME ImportInv, importRecord PROVE ImportInv'
<1> DEFINE s == Min(script.left)
           new == SaveSnapshot(entries, s)
           saved == ToSave(entries, s)
<1>1. /\ script.phase = "import" /\ script.left # {}
      /\ entries' = new
      /\ script' = [script EXCEPT !.left = @ \ {s}, !.written = @ + Cardinality(saved),
                                  !.fresh = @ \cup {<<k, s>> : k \in saved},
                                  !.toName = {history[s][k] : k \in saved}]
      /\ computing' = {[c EXCEPT !.raced = TRUE] : c \in computing}
      /\ UNCHANGED <<history, snapshots, told, ranges>>
  BY DEF importRecord, Rows, exportVars
<1>2. ImportTypeOK /\ RowsAreTrue(entries) /\ entries \in RowsType /\ snapshots \subseteq Blocks
  BY DEF ImportInv, ImportTypeOK
<1>3. s \in script.left /\ \A t \in script.left : s <= t
  <2>1. script.left \in SUBSET Nat
    BY <1>2, ImportMarks DEF ImportTypeOK, ScriptType
  <2> QED
    BY <1>1, <2>1, MinIs
<1>4. s \in snapshots /\ s \in Blocks
  BY <1>2, <1>3 DEF ImportTypeOK, ScriptType
<1> HIDE DEF s
<1>5. /\ new \in RowsType /\ RowsAreTrue(new)
      /\ \A k \in EntryKeys, b \in Blocks : b # s => new[k][b] = entries[k][b]
      /\ \A k \in EntryKeys : new[k][s] = IF k \in saved THEN history[s][k] ELSE entries[k][s]
      /\ \A k \in EntryKeys, b \in Blocks : b < s => StoredAt(new, k, b) = StoredAt(entries, k, b)
      /\ IsStored(new, s)
  BY <1>2, <1>4, SavedIs
<1>6. saved \in SUBSET EntryKeys /\ Cardinality(saved) \in Nat
  <2>1. saved \in SUBSET EntryKeys
    BY DEF ToSave
  <2> HIDE DEF saved
  <2> QED
    BY <2>1, ImportMarks, FS_Subset, FS_CardinalityType
<1>7. /\ script'.phase = "import" /\ script'.left = script.left \ {s} /\ script'.written = script.written + Cardinality(saved)
      /\ script'.again = script.again
      /\ script' \in ScriptType
  <2>1. script \in ScriptType
    BY <1>2 DEF ImportTypeOK
  <2>2. script.written + Cardinality(saved) \in Nat
    BY <1>6, <2>1 DEF ScriptType
  <2>3. {<<k, s>> : k \in saved} \in SUBSET (EntryKeys \X Blocks)
    BY <1>4, <1>6
  <2>4. {history[s][k] : k \in saved} \in SUBSET EntryValue
    BY <1>2, <1>4, <1>6 DEF ImportTypeOK
  <2> DEFINE count == script.written + Cardinality(saved)
             fresh == script.fresh \cup {<<k, s>> : k \in saved}
             toName == {history[s][k] : k \in saved}
  <2>5. count \in Nat /\ fresh \in SUBSET (EntryKeys \X Blocks) /\ toName \in SUBSET EntryValue
    BY <2>1, <2>2, <2>3, <2>4 DEF ScriptType
  <2>6. script' = [script EXCEPT !.left = @ \ {s}, !.written = count, !.fresh = fresh, !.toName = toName]
    BY <1>1
  <2> HIDE DEF count, fresh, toName
  <2>7. /\ script'.phase = "import" /\ script'.left = script.left \ {s} /\ script'.written = count
        /\ script'.again = script.again /\ script' \in ScriptType
    <3>1. script.phase = "import"
      BY <1>1
    <3> QED
      BY <2>1, <2>5, <2>6, <3>1 DEF ScriptType
  <2> QED
    BY <2>7 DEF count
<1>8. computing' \in SUBSET RangeType /\ \A c \in computing' : c.raced
  <2>1. computing \in SUBSET RangeType
    BY <1>2 DEF ImportTypeOK
  <2> QED
    BY <1>1, <2>1 DEF RangeType
<1>9. ImportTypeOK'
  <2>1. entries' \in RowsType /\ ranges' \in SUBSET RangeType
    BY <1>1, <1>2, <1>5 DEF ImportTypeOK
  <2> QED
    <3>1. UNCHANGED <<history, snapshots>>
      BY <1>1
    <3>2. (script \in ScriptType)'
      BY <1>7, <3>1 DEF ScriptType
    <3> QED
      BY <1>2, <1>8, <2>1, <3>1, <3>2 DEF ImportTypeOK
<1>10. RowsAreTrue(entries)'
  BY <1>1, <1>5 DEF RowsAreTrue
<1> HIDE DEF new
<1>11. ASSUME NEW t \in snapshots, t < s, IsStored(entries, t) PROVE IsStored(new, t)
  BY <1>2, <1>5, <1>11 DEF IsStored
<1>12. script.again => saved = {} /\ new = entries
  <2> SUFFICES ASSUME script.again PROVE saved = {} /\ new = entries
    OBVIOUS
  <2>1. IsStored(entries, s)
    BY <1>4 DEF ImportInv, ImportRunInv
  <2>2. saved = {}
    BY <2>1 DEF ToSave, getStoredEventsAtHeight, IsStored
  <2>3. new = entries
    BY <1>2, <2>2 DEF new, SaveSnapshot, RowsType
  <2> QED
    BY <2>2, <2>3
<1>13. ImportRunInv'
  <2>1. validateExport'
    BY <1>1 DEF ImportInv, ImportRunInv, validateExport
  <2>2. ASSUME NEW t \in snapshots \ script'.left PROVE IsStored(new, t) /\ \A u \in script'.left : t < u
    <3>1. CASE t = s
      <4>1. \A u \in script'.left : u \in Nat /\ s <= u /\ s # u /\ s \in Nat
        BY <1>2, <1>3, <1>4, <1>7, ImportMarks DEF ImportTypeOK, ScriptType
      <4>2. \A u \in script'.left : s < u
        BY <4>1
      <4> QED
        BY <1>5, <3>1, <4>2
    <3>2. CASE t # s
      <4>1. t \in snapshots \ script.left
        BY <1>7, <3>2
      <4>2. IsStored(entries, t) /\ \A u \in script.left : t < u
        BY <1>1, <4>1 DEF ImportInv, ImportRunInv
      <4> QED
        BY <1>3, <1>7, <1>11, <4>1, <4>2
    <3> QED
      BY <3>1, <3>2
  <2>3. script.again => script'.written = 0 /\ \A t \in snapshots : IsStored(new, t)
    <3> SUFFICES ASSUME script.again PROVE script'.written = 0 /\ \A t \in snapshots : IsStored(new, t)
      OBVIOUS
    <3>1. script.written = 0 /\ \A t \in snapshots : IsStored(entries, t)
      BY DEF ImportInv, ImportRunInv
    <3>2. Cardinality(saved) = 0
      BY <1>12, FS_EmptySet
    <3> QED
      BY <1>7, <1>12, <3>1, <3>2
  <2>4. \A t : IsStored(entries, t)' <=> IsStored(new, t)
    <3>1. \A k, t : StoredAt(entries, k, t)' = StoredAt(new, k, t)
      BY <1>1 DEF StoredAt
    <3> QED
      BY <1>1, <3>1 DEF IsStored
  <2> QED
    BY <1>1, <1>7, <2>1, <2>2, <2>3, <2>4 DEF ImportRunInv, EndedPhases
<1>14. ToldInv'
  <2> SUFFICES ASSUME ~script.again, NEW n \in told
               PROVE  \E rows \in RowsType : /\ n = DryEvents(rows)'[ExportHeight].count
                                             /\ \E h \in 0..ExportHeight : AsDry(rows, h)'
    BY <1>1, <1>7 DEF ToldInv, EndedPhases
  <2>1. PICK rows \in RowsType : n = DryEvents(rows)[ExportHeight].count /\ \E h \in 0..ExportHeight : AsDry(rows, h)
    BY <1>1 DEF ImportInv, ToldInv
  <2>2. PICK h \in 0..ExportHeight : AsDry(rows, h)
    BY <2>1
  <2>3. DryEvents(rows)' = DryEvents(rows)
    BY <1>1 DEF DryEvents, DryRecord, DrySaved, DryStored, StoredAt, Pending
  <2> DEFINE old == DryEvents(rows)[h]
             dry == DryEvents(rows)[s]
  <2>4. /\ h < s /\ s \in 1..ExportHeight
        /\ dry = DryRecord(rows, old, s)
        /\ DrySaved(rows, old.pending, s) = saved
    BY <1>2, <1>3, <2>2, DrySaves
  <2>5. old \in DryType
    BY <1>2, DryIs
  <2> HIDE DEF saved
  <2>6. /\ dry.count = old.count + Cardinality(saved)
        /\ \A k \in EntryKeys : dry.pending[k] = IF k \in saved THEN [height |-> s, value |-> history[s][k]]
                                                ELSE old.pending[k]
    BY <2>4 DEF DryRecord, Pending
  <2>7. /\ snapshots \ script.left = {t \in snapshots : t <= h}
        /\ script.written = old.count
        /\ \A k \in EntryKeys :
              /\ old.pending[k].height <= h
              /\ old.pending[k].height > 0 => /\ entries[k][old.pending[k].height] = old.pending[k].value
                                              /\ old.pending[k].value # Unstored
              /\ \A b \in Blocks : b > old.pending[k].height => entries[k][b] = rows[k][b]
    BY <2>2 DEF AsDry
  <2>8. \A k \in EntryKeys : old.pending[k].height \in 0..ExportHeight
    BY <2>5 DEF DryType, PendingType
  <2> HIDE DEF old, dry
  <2>9. snapshots \ script'.left = {t \in snapshots : t <= s}
    <3>1. ASSUME NEW t \in snapshots PROVE t \notin script'.left <=> t <= s
      <4>1. t \in Nat /\ s \in Nat /\ h \in Nat
        BY <1>2, <1>4, ImportMarks
      <4>2. t \notin script.left => t <= h
        BY <2>7
      <4>3. t \in script.left => s <= t
        BY <1>3
      <4> QED
        BY <1>7, <2>4, <4>1, <4>2, <4>3
    <3> QED
      BY <3>1
  <2>10. ASSUME NEW k \in EntryKeys
         PROVE  /\ dry.pending[k].height <= s
                /\ dry.pending[k].height > 0 => /\ new[k][dry.pending[k].height] = dry.pending[k].value
                                                /\ dry.pending[k].value # Unstored
                /\ \A b \in Blocks : b > dry.pending[k].height => new[k][b] = rows[k][b]
    <3>1. s \in Nat /\ h \in Nat /\ Blocks \subseteq Nat
      BY <1>4, ImportMarks
    <3>2. CASE k \in saved
      <4>1. dry.pending[k] = [height |-> s, value |-> history[s][k]]
        BY <2>6, <3>2
      <4>2. dry.pending[k].height = s /\ dry.pending[k].value = history[s][k]
        BY <4>1
      <4>3. new[k][s] = history[s][k] /\ history[s][k] # Unstored
        BY <1>2, <1>4, <1>5, <3>2, ImportMarks DEF ImportTypeOK
      <4>4. \A b \in Blocks : b > s => b # s /\ b > old.pending[k].height
        <5>1. old.pending[k].height \in Nat /\ old.pending[k].height < s
          <6>1. old.pending[k].height \in Nat /\ old.pending[k].height <= h
            BY <2>7, <2>8
          <6> QED
            BY <2>4, <3>1, <6>1
        <5>2. ASSUME NEW b \in Blocks, b > s PROVE b # s /\ b > old.pending[k].height
          <6>1. PICK g : g = old.pending[k].height
            OBVIOUS
          <6>2. b \in Nat
            BY <3>1
          <6>3. b # s /\ b > g
            BY ONLY <3>1, <5>1, <5>2, <6>1, <6>2
          <6> QED
            BY ONLY <6>1, <6>3
        <5> QED
          BY ONLY <5>2
      <4>5. \A b \in Blocks : b > s => new[k][b] = rows[k][b]
        BY <1>5, <2>7, <4>4
      <4> QED
        BY <3>1, <4>2, <4>3, <4>5
    <3>3. CASE k \notin saved
      <4>1. dry.pending[k] = old.pending[k]
        BY <2>6, <3>3
      <4>2. \A b \in Blocks : new[k][b] = entries[k][b]
        BY <1>5, <3>3
      <4>3. old.pending[k].height <= s
        BY <2>4, <2>7, <2>8, <3>1
      <4>4. old.pending[k].height > 0 => old.pending[k].height \in Blocks
        BY <2>8, ImportMarks
      <4> QED
        BY <2>7, <4>1, <4>2, <4>3, <4>4
    <3> QED
      BY <3>2, <3>3
  <2>11. PICK t \in 0..ExportHeight : t = s
    BY <2>4
  <2>12. AsDry(rows, t)'
    <3>1. script'.written = dry.count
      BY <1>7, <2>6, <2>7
    <3>2. DryEvents(rows)'[t] = dry
      BY <2>3, <2>11 DEF dry
    <3>3. snapshots' \ script'.left = {u \in snapshots' : u <= t}
      BY <1>1, <2>9, <2>11
    <3> QED
      BY <1>1, <2>10, <2>11, <3>1, <3>2, <3>3 DEF AsDry
  <2> QED
    BY <2>1, <2>3, <2>12
<1>15. RangesInv'
  <2> SUFFICES ASSUME NEW c \in ranges, ~c.raced, NEW b \in c.from..c.upTo
               PROVE  RightAt(entries, c, b)' \/ ChangedBelow(entries, c.key, b)'
    BY <1>1, <1>7, <1>8 DEF RangesInv, CleanPhases
  <2>1. c \in RangeType
    BY <1>2 DEF ImportTypeOK
  <2>2. c.key \in EntryKeys /\ b \in Blocks
    BY <2>1, ImportMarks DEF RangeType
  <2>3. RightAt(entries, c, b) \/ ChangedBelow(entries, c.key, b)
    BY DEF ImportInv, RangesInv
  <2>4. ASSUME NEW t \in Blocks, entries[c.key][t] # Unstored PROVE new[c.key][t] # Unstored
    <3>1. \A k \in EntryKeys : history[s][k] # Unstored
      BY <1>2, <1>4, ImportMarks DEF ImportTypeOK
    <3> QED
      BY <1>4, <1>5, <2>2, <2>4, <3>1
  <2>5. CASE ChangedBelow(entries, c.key, b)
    <3>1. ChangedBelow(new, c.key, b)
      BY <1>2, <2>4, <2>5 DEF ChangedBelow
    <3> QED
      BY <1>1, <3>1 DEF ChangedBelow
  <2>6. CASE RightAt(entries, c, b) /\ b < s
    <3>1. StoredAt(new, c.key, b) = c.value
      BY <1>5, <2>2, <2>6 DEF RightAt
    <3> QED
      BY <1>1, <3>1 DEF RightAt, StoredAt
  <2>7. CASE RightAt(entries, c, b) /\ c.key \notin saved
    <3>1. \A d \in Blocks : new[c.key][d] = entries[c.key][d]
      BY <1>5, <2>2, <2>7
    <3>2. StoredAt(new, c.key, b) = c.value
      BY <2>7, <3>1, StoredAlike DEF RightAt
    <3> QED
      BY <1>1, <3>2 DEF RightAt, StoredAt
  <2>8. CASE c.key \in saved /\ s <= b
    <3>1. history[s][c.key] # NoEntry
      BY <2>8 DEF ToSave
    <3>2. new[c.key][s] # Unstored
      BY <1>2, <1>4, <1>5, <2>2, <2>8, ImportMarks DEF ImportTypeOK
    <3>3. ChangedBelow(new, c.key, b)
      BY <1>4, <2>8, <3>1, <3>2 DEF ChangedBelow
    <3> QED
      BY <1>1, <3>3 DEF ChangedBelow
  <2>9. b < s \/ s <= b
    BY <1>4, <2>2, ImportMarks
  <2> QED
    BY <2>3, <2>5, <2>6, <2>7, <2>8, <2>9
<1>16. NamesInv' /\ FailureHasACause'
  BY <1>7 DEF NamesInv, FailureHasACause, EndedPhases
<1> QED
  BY <1>7, <1>9, <1>10, <1>13, <1>14, <1>15, <1>16 DEF ImportInv

LEMMA TransformEventsInv == ASSUME ImportInv, transformEvents PROVE ImportInv'
<1>1. /\ names' = names \cup (script.toName \cap Named) /\ script' = [script EXCEPT !.toName = {}]
      /\ UNCHANGED <<history, snapshots, reported, tracked, entries, told, ranges, computing>>
      /\ UNCHANGED <<exportVars, entries>>
  BY DEF transformEvents, exportVars
<1>2. /\ script'.phase = script.phase /\ script'.left = script.left /\ script'.written = script.written
      /\ script'.again = script.again /\ script' \in ScriptType
  BY <1>1 DEF ImportInv, ImportTypeOK, ScriptType
<1>3. ImportTypeOK'
  BY <1>1, <1>2 DEF ImportInv, ImportTypeOK, ScriptType, RangeType
<1>4. ImportRunInv' /\ RangesInv' /\ NamesInv'
  BY <1>1, <1>2, QuietScript DEF ImportInv, ImportRunInv, RangesInv, NamesInv, Nameable
<1>5. ToldInv'
  <2>1. \A rows, h : AsDry(rows, h)' <=> AsDry(rows, h)
    BY <1>1, <1>2, QuietScript DEF AsDry
  <2> QED
    BY <1>1, <1>2, <2>1, QuietScript DEF ImportInv, ToldInv
<1>6. FailureHasACause'
  BY <1>1, <1>2, QuietFailure
<1> QED
  BY <1>1, <1>3, <1>4, <1>5, <1>6, QuietScript DEF ImportInv

LEMMA TransformContractsInv == ASSUME ImportInv, transformContracts PROVE ImportInv'
<1>1. /\ script.phase = "import" /\ script.left = {}
      /\ names' = (IF tracked THEN names \cup Nameable ELSE names)
      /\ script' = [script EXCEPT !.phase = "invalidate"]
      /\ UNCHANGED <<history, snapshots, reported, tracked, entries, told, ranges, computing>>
      /\ UNCHANGED <<exportVars, entries>>
  BY DEF transformContracts, exportVars
<1>2. /\ script'.phase = "invalidate" /\ script'.left = script.left /\ script'.written = script.written
      /\ script'.again = script.again /\ script' \in ScriptType
  BY <1>1 DEF ImportInv, ImportTypeOK, ScriptType, EndedPhases
<1>3. ImportTypeOK /\ ImportTypeOK'
  BY <1>1, <1>2 DEF ImportInv, ImportTypeOK, ScriptType, RangeType
<1>4. RangesInv' /\ NamesInv'
  BY <1>1, <1>2, QuietScript DEF ImportInv, RangesInv, NamesInv, Nameable, CleanPhases
<1>5. ImportRunInv'
  <2>1. \A s \in snapshots : IsStored(entries, s)
    BY <1>1 DEF ImportInv, ImportRunInv
  <2>2. script.again => script.written = 0
    BY DEF ImportInv, ImportRunInv
  <2>3. validateExport
    BY <1>1 DEF ImportInv, ImportRunInv
  <2> QED
    BY <1>1, <1>2, <2>1, <2>2, <2>3, QuietScript DEF ImportRunInv
<1>6. ToldInv'
  <2> SUFFICES ASSUME ~script.again, NEW n \in told
               PROVE  \E rows \in RowsType : n = DryEvents(rows)[ExportHeight].count /\ script.written = n
    BY <1>1, <1>2, QuietScript DEF ToldInv
  <2>1. PICK rows \in RowsType : n = DryEvents(rows)[ExportHeight].count /\ \E h \in 0..ExportHeight : AsDry(rows, h)
    BY <1>1 DEF ImportInv, ToldInv
  <2>2. PICK h \in 0..ExportHeight : AsDry(rows, h)
    BY <2>1
  <2>3. ExportHeight \in 0..ExportHeight /\ h <= ExportHeight
    BY ImportMarks
  <2>4. \A s \in snapshots : ~(h < s /\ s <= ExportHeight)
    <3>1. \A s \in snapshots : s <= h /\ s \in Nat /\ h \in Nat
      BY <1>1, <1>3, <2>2, ImportMarks DEF AsDry, ImportTypeOK
    <3> QED
      BY <3>1
  <2>5. DryEvents(rows)[ExportHeight] = DryEvents(rows)[h]
    BY <1>3, <2>3, <2>4, DryStays
  <2>6. script.written = DryEvents(rows)[h].count
    BY <2>2 DEF AsDry
  <2> QED
    BY <2>1, <2>5, <2>6
<1>7. FailureHasACause'
  BY <1>2 DEF FailureHasACause
<1> QED
  BY <1>1, <1>3, <1>4, <1>5, <1>6, <1>7, QuietScript DEF ImportInv

\* A row of the record, as invalidateImportedComputations finds it.
LEMMA ChangesAre ==
  ASSUME ImportTypeOK
  PROVE  /\ \A x \in Changes : x[1] \in EntryKeys /\ x[2] \in snapshots
         /\ \A k \in EntryKeys, s \in snapshots :
                entries[k][s] # Unstored /\ (\E t \in snapshots : history[t][k] # NoEntry) => <<k, s>> \in Changes
BY DEF Changes

LEMMA InvalidateInv == ASSUME ImportInv, invalidateImportedComputations PROVE ImportInv'
<1> DEFINE heights == {x[2] : x \in Changes}
           first == Min(heights)
           Depends(c) == \E x \in Changes : x[1] = c.key
           kept == {d \in ranges : ~(Depends(d) /\ d.from >= first)}
           Cut(c) == IF Depends(c) /\ c.upTo >= first THEN [c EXCEPT !.upTo = first - 1] ELSE c
<1>1. /\ script.phase = "invalidate"
      /\ ranges' = {Cut(c) : c \in kept}
      /\ script' = [script EXCEPT !.phase = "verify", !.fresh = {}]
      /\ computing' = {[c EXCEPT !.raced = TRUE] : c \in computing}
      /\ UNCHANGED <<history, snapshots, tracked, entries, names, told>>
  BY DEF invalidateImportedComputations, exportVars
<1>2. ImportTypeOK /\ ranges \in SUBSET RangeType /\ computing \in SUBSET RangeType
  BY DEF ImportInv, ImportTypeOK
<1>3. \A x \in Changes : /\ x[1] \in EntryKeys /\ x[2] \in snapshots /\ x[2] \in Nat \ {0}
                         /\ first \in Nat \ {0} /\ first <= x[2]
  <2>1. \A x \in Changes : x[1] \in EntryKeys /\ x[2] \in snapshots /\ x[2] \in Nat \ {0}
    <3>1. \A t \in snapshots : t \in Nat \ {0}
      BY <1>2, ImportMarks DEF ImportTypeOK
    <3> QED
      BY <1>2, <3>1, ChangesAre
  <2>2. heights \in SUBSET Nat
    BY <2>1
  <2>3. \A x \in Changes : x[2] \in heights
    OBVIOUS
  <2>4. \A m \in heights : m \in Nat \ {0}
    BY <2>1
  <2> HIDE DEF heights
  <2>5. heights # {} => Min(heights) \in heights /\ \A m \in heights : Min(heights) <= m
    BY <2>2, MinIs
  <2> QED
    BY <2>1, <2>3, <2>4, <2>5
<1> HIDE DEF first
<1>4. /\ script'.phase = "verify" /\ script'.written = script.written /\ script'.again = script.again
      /\ script' \in ScriptType /\ script.phase \in EndedPhases
  BY <1>1, <1>2 DEF ImportTypeOK, ScriptType, EndedPhases
<1>5. computing' \in SUBSET RangeType /\ \A c \in computing' : c.raced
  BY <1>1, <1>2 DEF RangeType
<1>6. ASSUME NEW c \in kept
      PROVE  /\ Cut(c) \in RangeType
             /\ Cut(c).raced \/ \A b \in Cut(c).from..Cut(c).upTo : RightAt(entries, Cut(c), b)
  <2>1. c \in ranges /\ c \in RangeType /\ ~(Depends(c) /\ c.from >= first)
    BY <1>2
  <2>2. c.from \in Blocks /\ c.upTo \in 0..ExportHeight /\ c.key \in EntryKeys /\ ExportHeight \in Nat /\ Blocks = 1..ExportHeight
    BY <2>1, ImportMarks DEF RangeType
  <2>3. ASSUME ~c.raced, NEW b \in c.from..c.upTo PROVE RightAt(entries, c, b) \/ (Depends(c) /\ first <= b)
    <3>1. RightAt(entries, c, b) \/ ChangedBelow(entries, c.key, b)
      BY <2>1, <2>3 DEF ImportInv, RangesInv
    <3>2. CASE ChangedBelow(entries, c.key, b)
      <4>1. PICK s \in snapshots : /\ s <= b /\ entries[c.key][s] # Unstored
                                   /\ \E t \in snapshots : history[t][c.key] # NoEntry
        BY <3>2 DEF ChangedBelow
      <4>2. <<c.key, s>> \in Changes
        BY <1>2, <2>2, <4>1, ChangesAre
      <4>3. first \in Nat /\ first <= s /\ s \in Nat
        BY <1>3, <4>2
      <4>4. Depends(c)
        BY <4>2
      <4> QED
        BY <2>2, <4>1, <4>3, <4>4
    <3> QED
      BY <3>1, <3>2
  <2>4. CASE ~Depends(c)
    BY <2>1, <2>3, <2>4
  <2>5. CASE Depends(c)
    <3>1. first \in Nat \ {0} /\ c.from < first
      BY <1>3, <2>1, <2>2, <2>5
    <3>2. CASE ~(c.upTo >= first)
      <4>1. Cut(c) = c
        BY <3>2
      <4>2. \A b \in c.from..c.upTo : ~(first <= b)
        BY <2>2, <3>1, <3>2
      <4> QED
        BY <2>1, <2>3, <4>1, <4>2
    <3>3. CASE c.upTo >= first
      <4>1. Cut(c) = [c EXCEPT !.upTo = first - 1]
        BY <2>5, <3>3
      <4>2. first - 1 \in 0..ExportHeight
        BY <2>2, <3>1, <3>3
      <4>3. /\ Cut(c) \in RangeType /\ Cut(c).raced = c.raced /\ Cut(c).from = c.from /\ Cut(c).upTo = first - 1
            /\ Cut(c).key = c.key /\ Cut(c).value = c.value
        BY <2>1, <4>1, <4>2 DEF RangeType
      <4>4. \A b \in c.from..(first - 1) : b \in c.from..c.upTo /\ ~(first <= b)
        BY <2>2, <3>1, <3>3
      <4>5. c.raced \/ \A b \in c.from..(first - 1) : RightAt(entries, c, b)
        BY <2>3, <4>4
      <4> HIDE DEF Cut
      <4> QED
        BY <4>3, <4>5 DEF RightAt
    <3> QED
      BY <3>2, <3>3
  <2> QED
    BY <2>4, <2>5
<1> HIDE DEF Cut, kept
<1>7. /\ ranges' \in SUBSET RangeType
      /\ \A c \in ranges' : c.raced \/ \A b \in c.from..c.upTo : RightAt(entries, c, b)
  BY <1>1, <1>6
<1>8. ImportTypeOK'
  <2>1. entries' \in RowsType
    BY <1>1, <1>2 DEF ImportTypeOK
  <2> QED
    BY <1>1, <1>2, <1>4, <1>5, <1>7, <2>1 DEF ImportTypeOK, ScriptType
<1>9. RangesInv'
  BY <1>1, <1>4, <1>5, <1>7, QuietScript DEF RangesInv, CleanPhases
<1>10. ImportRunInv' /\ ToldInv' /\ NamesInv' /\ FailureHasACause'
  <2>1. ImportRunInv'
    BY <1>1, <1>4, QuietScript DEF ImportInv, ImportRunInv
  <2>2. ToldInv'
    BY <1>1, <1>4, QuietScript DEF ImportInv, ToldInv
  <2>3. NamesInv' /\ FailureHasACause'
    BY <1>1, <1>4 DEF ImportInv, NamesInv, Nameable, FailureHasACause
  <2> QED
    BY <2>1, <2>2, <2>3
<1> QED
  BY <1>1, <1>8, <1>9, <1>10, QuietScript DEF ImportInv

\* The last change of a key, if it has one.
LEMMA LastChangeOf ==
  ASSUME ImportTypeOK, NEW k \in EntryKeys
  PROVE  \/ \A d \in Blocks : history[d][k] = NoEntry
         \/ \E h \in Blocks : /\ history[h][k] # Before(h)[k]
                              /\ \A d \in (h + 1)..ExportHeight : history[d][k] = Before(d)[k]
                              /\ \A d \in h..ExportHeight : history[d][k] = history[ExportHeight][k]
<1> DEFINE changed == {d \in Blocks : history[d][k] # Before(d)[k]}
           f == [d \in 0..ExportHeight |-> IF d = 0 THEN NoEntry ELSE history[d][k]]
<1>1. ExportHeight \in Nat /\ Blocks = 1..ExportHeight
  BY ImportMarks
<1>2. \A d \in Blocks : f[d] = history[d][k] /\ f[d - 1] = Before(d)[k]
  <2> SUFFICES ASSUME NEW d \in Blocks PROVE f[d] = history[d][k] /\ f[d - 1] = Before(d)[k]
    OBVIOUS
  <2>1. d \in 0..ExportHeight /\ d - 1 \in 0..ExportHeight /\ d # 0 /\ (d - 1 = 0 <=> d = 1)
    BY <1>1
  <2>2. Before(d)[k] = IF d = 1 THEN NoEntry ELSE history[d - 1][k]
    BY DEF Before
  <2> QED
    BY <2>1, <2>2
<1>3. f[0] = NoEntry
  BY <1>1
<1> HIDE DEF f
<1>4. CASE changed = {}
  <2>1. \A d \in (0 + 1)..ExportHeight : f[d] = f[d - 1]
    BY <1>1, <1>2, <1>4
  <2>2. \A d \in 0..ExportHeight : f[d] = f[ExportHeight]
    BY <1>1, <2>1, NoneChanged
  <2>3. \A d \in Blocks : d \in 0..ExportHeight /\ 0 \in 0..ExportHeight
    BY <1>1
  <2> QED
    BY <1>2, <1>3, <2>2, <2>3
<1>5. CASE changed # {}
  <2>1. changed \in SUBSET (1..ExportHeight)
    BY <1>1
  <2> DEFINE h == Max(changed)
  <2>2. h \in changed /\ \A d \in changed : d <= h
    <3> HIDE DEF changed
    <3> QED
      BY <1>1, <1>5, <2>1, MaxIs
  <2> HIDE DEF h
  <2>3. h \in Blocks /\ h \in Nat
    BY <1>1, <2>2
  <2>4. ASSUME NEW d \in (h + 1)..ExportHeight PROVE d \in Blocks /\ history[d][k] = Before(d)[k]
    <3>1. d \in Blocks /\ ~(d <= h)
      BY <1>1, <2>3
    <3> QED
      BY <2>2, <3>1
  <2>5. \A d \in (h + 1)..ExportHeight : f[d] = f[d - 1]
    BY <1>2, <2>4
  <2>6. \A d \in h..ExportHeight : f[d] = f[ExportHeight]
    BY <1>1, <2>3, <2>5, NoneChanged
  <2>7. \A d \in h..ExportHeight : d \in Blocks /\ ExportHeight \in Blocks
    BY <1>1, <2>3
  <2> QED
    BY <1>2, <2>2, <2>3, <2>4, <2>6, <2>7
<1> QED
  BY <1>4, <1>5

\* A key that an import with its snapshots stored shows wrongly at the export height: its
\* last change was missed.
LEMMA ShownWrongly ==
  ASSUME ImportTypeOK, RowsAreTrue(entries), \A s \in snapshots : IsStored(entries, s), NEW k \in EntryKeys,
         Decoded(StoredAt(entries, k, ExportHeight)) # Decoded(history[ExportHeight][k])
  PROVE  \E h \in Blocks : LastMissed(k, h)
<1> DEFINE m == Max(snapshots)
<1>1. /\ m \in snapshots /\ m \in Blocks /\ m \in Nat /\ ExportHeight \in Blocks /\ ExportHeight \in Nat
      /\ Blocks = 1..ExportHeight /\ entries \in RowsType
  <2>1. snapshots \in SUBSET (1..ExportHeight) /\ snapshots # {}
    BY ImportMarks DEF ImportTypeOK
  <2>2. m \in snapshots
    BY <2>1, ImportMarks, MaxIs
  <2> HIDE DEF m
  <2>3. entries \in RowsType
    BY DEF ImportTypeOK
  <2> QED
    BY <2>1, <2>2, <2>3, ImportMarks
<1> HIDE DEF m
<1>2. Decoded(Unstored) = NoEntry /\ Decoded(NoEntry) = NoEntry
  BY ImportAssumption DEF Decoded
\* A row at or above the last change is right.
<1>3. ASSUME NEW h \in Blocks, NEW b \in h..ExportHeight, entries[k][b] # Unstored,
             \A d \in h..ExportHeight : history[d][k] = history[ExportHeight][k]
      PROVE  FALSE
  <2>1. b \in 1..ExportHeight /\ h \in Nat
    BY <1>1
  <2>2. PICK c \in 1..ExportHeight : /\ StoredAt(entries, k, ExportHeight) = entries[k][c] /\ entries[k][c] # Unstored
                                     /\ \A d \in (c + 1)..ExportHeight : entries[k][d] = Unstored
    BY <1>1, <1>3, <2>1, StoredIs
  <2>3. ~(c < b)
    <3>1. c < b => b \in (c + 1)..ExportHeight
      BY <1>1, <2>1
    <3> QED
      BY <1>3, <2>2, <3>1
  <2>4. c \in h..ExportHeight /\ c \in Blocks
    BY <1>1, <2>1, <2>3
  <2>5. entries[k][c] = history[c][k]
    BY <2>2, <2>4 DEF RowsAreTrue
  <2> QED
    BY <1>3, <2>2, <2>4, <2>5
<1>4. CASE \A d \in Blocks : history[d][k] = NoEntry
  <2>1. history[ExportHeight][k] = NoEntry
    BY <1>1, <1>4
  <2>2. StoredAt(entries, k, ExportHeight) = Unstored \/ StoredAt(entries, k, ExportHeight) = NoEntry
    <3>1. \A b \in 1..ExportHeight : entries[k][b] # Unstored => entries[k][b] = NoEntry
      BY <1>1, <1>4 DEF RowsAreTrue
    <3> QED
      BY <1>1, <3>1, StoredIs
  <2> QED
    BY <1>2, <2>1, <2>2
<1>5. ASSUME NEW h \in Blocks, history[h][k] # Before(h)[k],
             \A d \in (h + 1)..ExportHeight : history[d][k] = Before(d)[k],
             \A d \in h..ExportHeight : history[d][k] = history[ExportHeight][k]
      PROVE  LastMissed(k, h)
  <2>1. h \in h..ExportHeight /\ h \in Nat
    BY <1>1
  <2>2. entries[k][h] = Unstored
    BY <1>3, <1>5, <2>1
  <2>3. ASSUME ~(h > m), history[h][k] # NoEntry PROVE FALSE
    <3>1. m \in h..ExportHeight
      BY <1>1, <2>1, <2>3
    <3>2. history[m][k] = history[ExportHeight][k] /\ history[m][k] # NoEntry
      BY <1>5, <2>1, <2>3, <3>1
    <3>3. StoredAt(entries, k, m) = history[m][k]
      BY <1>1, <3>2 DEF IsStored
    <3>4. \A d \in (m + 1)..ExportHeight : entries[k][d] = Unstored
      <4> SUFFICES ASSUME NEW d \in (m + 1)..ExportHeight, entries[k][d] # Unstored PROVE FALSE
        OBVIOUS
      <4>1. d \in h..ExportHeight
        BY <1>1, <2>1, <3>1
      <4> QED
        BY <1>3, <1>5, <4>1
    <3>5. StoredAt(entries, k, ExportHeight) = StoredAt(entries, k, m)
      BY <1>1, <3>4, StoredStays
    <3> QED
      BY <3>2, <3>3, <3>5
  <2> QED
    BY <1>5, <2>2, <2>3 DEF LastMissed, m
<1> QED
  BY <1>4, <1>5, LastChangeOf

\* The stored value is one of the rows.
LEMMA ShownIsStored ==
  ASSUME ImportTypeOK, NEW k \in EntryKeys, StoredAt(entries, k, ExportHeight) \in Named
  PROVE  StoredAt(entries, k, ExportHeight) \in Nameable
<1>1. ExportHeight \in Blocks /\ Blocks = 1..ExportHeight /\ entries \in RowsType
  BY ImportMarks DEF ImportTypeOK
<1>2. StoredAt(entries, k, ExportHeight) # Unstored
  BY ImportAssumption
<1>3. PICK b \in 1..ExportHeight : StoredAt(entries, k, ExportHeight) = entries[k][b]
  BY <1>1, <1>2, StoredIs
<1> QED
  BY <1>1, <1>3 DEF Nameable

\* Why the verification of an import fails whose snapshots are stored and whose events are
\* transformed.
LEMMA VerifyFails ==
  ASSUME ImportTypeOK, RowsAreTrue(entries), \A s \in snapshots : IsStored(entries, s),
         tracked => Nameable \subseteq names, ~Verifies
  PROVE  \/ ~reported \/ ~tracked
         \/ \A k \in EntryKeys : history[ExportHeight][k] \notin Identities
         \/ \E k \in EntryKeys : history[ExportHeight][k] \in Identities \ Named
         \/ \E k \in EntryKeys : /\ authenticatorIdentities[k] # Decoded(history[ExportHeight][k])
                                /\ \E h \in Blocks : LastMissed(k, h)
<1> SUFFICES ASSUME reported, tracked, NEW e \in EntryKeys, history[ExportHeight][e] \in Identities,
                    \A k \in EntryKeys : history[ExportHeight][k] \in Identities => history[ExportHeight][k] \in Named,
                    \A k \in EntryKeys : authenticatorIdentities[k] = Decoded(history[ExportHeight][k])
             PROVE  FALSE
  <2>1. ASSUME NEW k \in EntryKeys, authenticatorIdentities[k] # Decoded(history[ExportHeight][k])
        PROVE  \E h \in Blocks : LastMissed(k, h)
    BY <2>1, ShownWrongly DEF authenticatorIdentities
  <2> QED
    BY <2>1
<1>1. expectedIdentities = authenticatorIdentities
  BY DEF expectedIdentities, authenticatorIdentities
<1>2. NoEntry \notin Identities
  BY ImportAssumption
<1>3. expectedIdentities[e] # NoEntry
  BY <1>2 DEF expectedIdentities, Decoded
<1>4. ASSUME NEW k \in EntryKeys, expectedIdentities[k] # NoEntry PROVE Resolves(expectedIdentities[k])
  <2>1. history[ExportHeight][k] \in Named /\ authenticatorIdentities[k] = history[ExportHeight][k]
    BY <1>4 DEF expectedIdentities, Decoded
  <2>2. StoredAt(entries, k, ExportHeight) = history[ExportHeight][k]
    BY <1>2, <1>4, <2>1, <1>1 DEF authenticatorIdentities, Decoded
  <2>3. history[ExportHeight][k] \in names
    BY <2>1, <2>2, ShownIsStored
  <2> QED
    BY <1>1, <2>1, <2>3 DEF Resolves
<1> QED
  BY <1>1, <1>3, <1>4 DEF Verifies

LEMMA VerifyInv == ASSUME ImportInv, verifyRecord PROVE ImportInv'
<1>1. /\ script.phase = "verify" /\ script' = [script EXCEPT !.phase = IF Verifies THEN "ok" ELSE "failed"]
      /\ UNCHANGED <<history, snapshots, reported, tracked, entries, names, told, ranges, computing>>
  BY DEF verifyRecord, exportVars
<1>2. /\ script'.phase \in EndedPhases /\ script'.again = script.again /\ script'.written = script.written
      /\ (script'.phase = "failed" => ~Verifies) /\ script'.phase # "idle" /\ script'.phase # "import"
      /\ script' \in ScriptType
  BY <1>1 DEF ImportInv, ImportTypeOK, ScriptType, EndedPhases
<1>3. ImportTypeOK'
  BY <1>1, <1>2 DEF ImportInv, ImportTypeOK, ScriptType, RangeType
<1>4. script.phase \in EndedPhases /\ script.phase \in CleanPhases /\ script.phase # "idle"
  BY <1>1 DEF EndedPhases, CleanPhases
<1>5. ImportRunInv' /\ RangesInv' /\ NamesInv'
  BY <1>1, <1>2, <1>4, QuietScript DEF ImportInv, ImportRunInv, RangesInv, NamesInv, Nameable
<1>6. ToldInv'
  BY <1>1, <1>2, <1>4, QuietScript DEF ImportInv, ToldInv
<1>7. FailureHasACause'
  <2> SUFFICES ASSUME script'.phase = "failed" PROVE FailureHasACause'
    BY DEF FailureHasACause
  <2>1. \/ ~reported \/ ~tracked
        \/ \A k \in EntryKeys : history[ExportHeight][k] \notin Identities
        \/ \E k \in EntryKeys : history[ExportHeight][k] \in Identities \ Named
        \/ \E k \in EntryKeys : /\ authenticatorIdentities[k] # Decoded(history[ExportHeight][k])
                               /\ \E h \in Blocks : LastMissed(k, h)
    <3>1. tracked => Nameable \subseteq names
      BY <1>4 DEF ImportInv, NamesInv
    <3>2. ImportTypeOK /\ RowsAreTrue(entries) /\ \A s \in snapshots : IsStored(entries, s)
      BY <1>4 DEF ImportInv, ImportRunInv
    <3> QED
      BY <1>2, <3>1, <3>2, VerifyFails
  <2>2. \A k, h : LastMissed(k, h)' <=> LastMissed(k, h)
    BY <1>1 DEF LastMissed, Before
  <2>3. authenticatorIdentities' = authenticatorIdentities
    BY <1>1, QuietScript DEF authenticatorIdentities
  <2>4. \A k : Decoded(history[ExportHeight][k])' = Decoded(history[ExportHeight][k])
    BY <1>1 DEF Decoded
  <2> QED
    BY <1>1, <2>1, <2>2, <2>3, <2>4 DEF FailureHasACause
<1> QED
  BY <1>1, <1>3, <1>5, <1>6, <1>7, QuietScript DEF ImportInv

LEMMA RerunInv == ASSUME ImportInv, Rerun PROVE ImportInv'
<1>1. /\ script.phase \in {"ok", "failed"} /\ script' = [Idle EXCEPT !.again = TRUE]
      /\ UNCHANGED <<history, snapshots, entries, told, ranges, computing>>
  BY DEF Rerun, exportVars
<1>2. /\ script'.phase = "idle" /\ script'.again = TRUE /\ script'.written = 0 /\ "idle" \notin EndedPhases
      /\ script' \in ScriptType
  BY <1>1 DEF Idle, ScriptType, EndedPhases
<1>3. ImportTypeOK'
  BY <1>1, <1>2 DEF ImportInv, ImportTypeOK, ScriptType, RangeType
<1>4. script.phase \in EndedPhases
  BY <1>1 DEF EndedPhases
<1>5. ImportRunInv' /\ RangesInv' /\ ToldInv' /\ NamesInv' /\ FailureHasACause'
  BY <1>1, <1>2, <1>4, QuietScript DEF ImportInv, ImportRunInv, RangesInv, ToldInv, NamesInv, FailureHasACause,
                                       CleanPhases
<1> QED
  BY <1>1, <1>3, <1>5, QuietScript DEF ImportInv

LEMMA ImportDiesInv == ASSUME ImportInv, ImportDies PROVE ImportInv'
<1>1. /\ script' = [Idle EXCEPT !.again = script.again] /\ told' = {}
      /\ UNCHANGED <<history, snapshots, entries, ranges, computing>>
  BY DEF ImportDies, exportVars
<1>2. /\ script'.phase = "idle" /\ script'.again = script.again /\ script'.written = 0 /\ "idle" \notin EndedPhases
      /\ script' \in ScriptType
  BY <1>1 DEF ImportInv, ImportTypeOK, ScriptType, Idle, EndedPhases
<1>3. ImportTypeOK'
  BY <1>1, <1>2 DEF ImportInv, ImportTypeOK, ScriptType, RangeType
<1>4. ImportRunInv' /\ RangesInv' /\ ToldInv' /\ NamesInv' /\ FailureHasACause'
  BY <1>1, <1>2, QuietScript DEF ImportInv, ImportRunInv, RangesInv, ToldInv, NamesInv, FailureHasACause,
                                 CleanPhases
<1> QED
  BY <1>1, <1>3, <1>4, QuietScript DEF ImportInv

\* The server's steps leave the script alone.
LEMMA ServerInv ==
  ASSUME ImportInv, UNCHANGED <<exportVars, entries, names, script, told>>,
         ranges' \in SUBSET RangeType, computing' \in SUBSET RangeType, RangesInv'
  PROVE  ImportInv'
<1>4. UNCHANGED <<history, snapshots, tracked, entries, names, script, told>>
  BY DEF exportVars
<1>1. ImportTypeOK'
  BY <1>4 DEF ImportInv, ImportTypeOK, ScriptType
<1>2. ImportRunInv' /\ NamesInv'
  BY <1>4, QuietScript DEF ImportInv, ImportRunInv, NamesInv, Nameable
<1>3. ToldInv'
  <2>1. \A rows, h : AsDry(rows, h)' <=> AsDry(rows, h)
    BY <1>4, QuietScript DEF AsDry
  <2> QED
    BY <1>4, <2>1, QuietScript DEF ImportInv, ToldInv
<1>5. FailureHasACause'
  BY <1>4, QuietFailure
<1> QED
  BY <1>1, <1>2, <1>3, <1>4, <1>5, QuietScript DEF ImportInv

LEMMA ComputeStoredInv == ASSUME ImportInv, ComputeStored PROVE ImportInv'
<1>1. /\ UNCHANGED <<history, snapshots, entries, script, told, ranges>>
      /\ UNCHANGED <<exportVars, entries, names, script, told>>
  BY DEF ComputeStored, exportVars
<1>2. PICK k \in EntryKeys, b \in Blocks :
          computing' = {[key |-> k, from |-> b,
                         upTo |-> Max({u \in b..ExportHeight : \A h \in (b + 1)..u : entries[k][h] = Unstored}),
                         value |-> StoredAt(entries, k, b), raced |-> FALSE]}
  BY DEF ComputeStored
<1> DEFINE same == {u \in b..ExportHeight : \A h \in (b + 1)..u : entries[k][h] = Unstored}
           m == Max(same)
           c == [key |-> k, from |-> b, upTo |-> m, value |-> StoredAt(entries, k, b), raced |-> FALSE]
<1>3. entries \in RowsType /\ b \in Nat /\ ExportHeight \in Nat /\ b <= ExportHeight /\ Blocks = 1..ExportHeight
  BY ImportMarks DEF ImportInv, ImportTypeOK
<1>4. m \in same /\ m \in b..ExportHeight
  <2>1. same \in SUBSET (1..ExportHeight)
    BY <1>3, ImportMarks
  <2>2. b \in same
    BY <1>3
  <2> HIDE DEF same
  <2>3. m \in same
    BY <1>3, <2>1, <2>2, MaxIs
  <2> QED
    BY <2>3 DEF same
<1>5. \A h \in (b + 1)..m : entries[k][h] = Unstored
  BY <1>4
<1> HIDE DEF m
<1>6. StoredAt(entries, k, b) \in EntryValue \cup {Unstored}
  <2>1. \A d \in 1..b : entries[k][d] \in EntryValue \cup {Unstored}
    BY <1>3 DEF RowsType
  <2> QED
    BY <1>3, <2>1, StoredIs
<1>7. m \in 0..ExportHeight
  BY <1>3, <1>4
<1>8. c \in RangeType
  BY <1>3, <1>6, <1>7 DEF RangeType
<1>9. ASSUME NEW d \in b..m PROVE StoredAt(entries, k, d) = StoredAt(entries, k, b)
  <2>1. d \in Blocks /\ b <= d /\ \A h \in (b + 1)..d : h \in (b + 1)..m
    BY <1>3, <1>4
  <2>2. \A h \in (b + 1)..d : entries[k][h] = Unstored
    BY <1>5, <2>1
  <2> QED
    BY <1>3, <2>1, <2>2, StoredStays
<1>10. computing' = {c}
  BY <1>2 DEF m
<1>11. \A d \in c.from..c.upTo : RightAt(entries, c, d)
  BY <1>9 DEF RightAt
<1> HIDE DEF c
<1>12. RangesInv'
  BY <1>1, <1>10, <1>11, QuietScript DEF ImportInv, RangesInv
<1>13. ranges' \in SUBSET RangeType /\ computing' \in SUBSET RangeType
  BY <1>1, <1>8, <1>10 DEF ImportInv, ImportTypeOK
<1> QED
  BY <1>1, <1>12, <1>13, ServerInv

LEMMA StoreComputedInv == ASSUME ImportInv, StoreComputed PROVE ImportInv'
<1>1. /\ ranges' = ranges \cup computing /\ computing' = {}
      /\ UNCHANGED <<history, snapshots, entries, script, told>>
      /\ UNCHANGED <<exportVars, entries, names, script, told>>
  BY DEF StoreComputed, exportVars
<1>2. RangesInv'
  BY <1>1, QuietScript DEF ImportInv, RangesInv
<1>3. ranges' \in SUBSET RangeType /\ computing' \in SUBSET RangeType
  BY <1>1 DEF ImportInv, ImportTypeOK
<1> QED
  BY <1>1, <1>2, <1>3, ServerInv

LEMMA ImportStep == ImportInv /\ [ImportNext]_importVars => ImportInv'
<1> SUFFICES ASSUME ImportInv, [ImportNext]_importVars PROVE ImportInv'
  OBVIOUS
<1>1. CASE UNCHANGED importVars
  <2>1. /\ UNCHANGED <<history, snapshots, entries, script, told>> /\ UNCHANGED <<ranges, computing>>
        /\ UNCHANGED <<exportVars, entries, names, script, told>>
    BY <1>1 DEF importVars, exportVars
  <2>2. RangesInv'
    BY <2>1, QuietScript DEF ImportInv, RangesInv
  <2>3. ranges' \in SUBSET RangeType /\ computing' \in SUBSET RangeType
    BY <2>1 DEF ImportInv, ImportTypeOK
  <2> QED
    BY <2>1, <2>2, <2>3, ServerInv
<1> QED
  BY <1>1, DryRunInv, StartImportInv, ImportRecordInv, TransformEventsInv, TransformContractsInv, InvalidateInv,
     VerifyInv, RerunInv, ImportDiesInv, ComputeStoredInv, StoreComputedInv DEF ImportNext

LEMMA ImportInvSound == ImportInv => ImportIsSound
<1> SUFFICES ASSUME ImportInv PROVE ImportIsSound
  OBVIOUS
<1>1. SnapshotsAreStored
  BY DEF ImportInv, ImportRunInv, SnapshotsAreStored, IsStored, EndedPhases
<1>2. ImportIsAsTold
  BY DEF ImportInv, ImportRunInv, ToldInv, ImportIsAsTold, EndedPhases
<1>3. ImportedRangesAreRight
  BY DEF ImportInv, RangesInv, ImportedRangesAreRight, RightAt, CleanPhases
<1> QED
  BY <1>1, <1>2, <1>3 DEF ImportInv, ImportIsSound

\* An import, however often it dies and is run again: once it ended, the state of every
\* snapshot is stored, it wrote what the dry run told, every stored computation that was
\* not racing it is right, and it failed only for want of something to compare with, under
\* another code id, on a name too long, or on a key whose last change was missed and is in
\* no snapshot (importContractState).
THEOREM ImportHolds == ImportSpec => []ImportIsSound
<1> QED
  BY ImportFirst, ImportStep, ImportInvSound, PTL DEF ImportSpec
=============================================================================
