--------------------------- MODULE AccountWebhooks ---------------------------
(***************************************************************************)
(* The webhooks of one account: code id sets, webhooks and their filters   *)
(* (server/routes/account), the events that match them (AccountWebhook),   *)
(* and their delivery (AccountWebhookEvent), by the script                 *)
(* accountWebhooks.ts and by hand.  A route reads rows, validates, and     *)
(* writes the columns and the code id sets of a webhook in separate steps, *)
(* without a transaction; firing reads the attempts made, posts the        *)
(* request, and stores the attempt and the status after it.                *)
(***************************************************************************)
EXTENDS Integers, Sequences, FiniteSets, FiniteSetsExt, SequencesExt

CONSTANTS
    CodeIdSets,     \* code id sets of the account
    Hooks,          \* its webhooks
    WasmEvents,     \* exported events, [contract, code, key, first]
    FilterContracts, FilterKeys, \* values of the other filters; NoFilter is none
    MAX_ATTEMPTS,   \* 3
    WebhookBatch,   \* pending events fetched at once
    WebhookBounds   \* bounds on the columns that bodies name, the edits, exports,
                    \* firings by hand and stops of the script; a behaviour has one

ASSUME WebhooksAssumption ==
    /\ IsFiniteSet(Hooks)
    /\ MAX_ATTEMPTS \in Nat \ {0} /\ WebhookBatch \in Nat \ {0}
    /\ WebhookBounds \subseteq [columns : SUBSET {"contracts", "key", "sets", "first"},
                         edits : Nat, exports : Nat, fires : Nat, stops : Nat]

NoFilter == {}

VARIABLES
    sets,       \* sets[s]: the code ids of an existing set, {} when there is none
    hook,       \* hook[w]: <<>> or <<webhook>>
    edit,       \* edit[w]: the calls of createWebhook and updateWebhook under way, with
                \* the writes they have left
    unsettled,  \* webhooks edited twice at once, that lost a set, or whose edit failed
                \* between two of its writes
    event,      \* the webhook events: [hook, status, attempts]
    firing,     \* the firings under way
    bound,      \* the bounds of this behaviour
    counts,     \* edits, exports, firings by hand and stops so far
    autos       \* autos[e]: attempts of the script at an event

webhookVars == <<sets, hook, edit, unsettled, event, firing, bound, counts, autos>>

WebhooksInit ==
    /\ sets = [s \in CodeIdSets |-> {1}]
    /\ hook = [w \in Hooks |-> <<>>]
    /\ edit = [w \in Hooks |-> {}]
    /\ unsettled = {}
    /\ event = <<>> /\ firing = {} /\ autos = <<>>
    /\ bound \in WebhookBounds
    /\ counts = [edits |-> 0, exports |-> 0, fires |-> 0, stops |-> 0]

-----------------------------------------------------------------------------
(* Code id sets and webhooks.                                              *)

Filtered(h) == h.contracts # NoFilter \/ h.key # NoFilter \/ h.sets # {}

Filters == [contracts : FilterContracts \cup {NoFilter}, key : FilterKeys \cup {NoFilter},
            sets : SUBSET CodeIdSets, first : BOOLEAN]

\* The filters of a body that names columns of the bound.
Bodies == {f \in Filters : /\ \A c \in {"contracts", "key", "sets"} \ bound.columns : f[c] = {}
                          /\ f.first => "first" \in bound.columns}

Counted(what) ==
    /\ counts[what] < bound[what]
    /\ counts' = [counts EXCEPT ![what] = @ + 1]
    /\ UNCHANGED bound

Existing == {s \in CodeIdSets : sets[s] # {}}

\* The writes that a call has left: its columns, the sets to take out of the webhook,
\* and those to add.
Writes(columns, codeIdSets, left) == [columns |-> columns, sets |-> codeIdSets, left |-> left]

\* The calls at a webhook after u has made the write.
After(calls, u, write) ==
    (calls \ {u}) \cup (IF u.left = {write} THEN {} ELSE {[u EXCEPT !.left = @ \ {write}]})

\* createWebhook: the sets must exist and one filter must be there. The row is
\* created first, the sets are added to it later.
createWebhook(w) ==
    /\ hook[w] = <<>> /\ Counted("edits")
    /\ \E f \in Bodies :
           /\ f.sets \subseteq Existing
           /\ Filtered(f)
           /\ hook' = [hook EXCEPT ![w] = <<[f EXCEPT !.sets = {}]>>]
           /\ edit' = [edit EXCEPT ![w] = IF f.sets = {} THEN {} ELSE {Writes(<<>>, f.sets, {"add"})}]
    /\ UNCHANGED <<sets, unsettled, event, firing, autos>>

\* updateWebhook: any of the filters may be in the body. The webhook is checked
\* as read, and only the columns that changed are saved.
updateWebhook(w) ==
    /\ hook[w] # <<>> /\ Counted("edits")
    /\ \E f \in Bodies, cols \in SUBSET bound.columns :
           LET old == hook[w][1]
               changed == {c \in cols \ {"sets"} : f[c] # old[c]}
               given == IF "sets" \in cols THEN f.sets ELSE {}
               left == {"save"} \cup (IF "sets" \in cols THEN {"remove", "add"} ELSE {})
           IN  /\ "sets" \in cols => f.sets \subseteq Existing
               /\ Filtered([c \in DOMAIN f |-> IF c \in cols THEN f[c] ELSE old[c]])
               /\ edit' = [edit EXCEPT ![w] = @ \cup {Writes([c \in changed |-> f[c]], given, left)}]
    /\ unsettled' = IF edit[w] = {} THEN unsettled ELSE unsettled \cup {w}
    /\ UNCHANGED <<sets, hook, event, firing, autos>>

WithColumns(h, columns) == [c \in DOMAIN h |-> IF c \in DOMAIN columns THEN columns[c] ELSE h[c]]

\* save: the columns are written first.
SaveColumns(w) ==
    /\ \E u \in edit[w] :
           /\ "save" \in u.left
           /\ hook' = [hook EXCEPT ![w] = <<WithColumns(hook[w][1], u.columns)>>]
           /\ edit' = [edit EXCEPT ![w] = After(@, u, "save")]
    /\ UNCHANGED <<sets, unsettled, event, firing, bound, counts, autos>>

\* $set: the sets that are not in the body are taken out.
RemoveSets(w) ==
    /\ \E u \in edit[w] :
           /\ "save" \notin u.left /\ "remove" \in u.left
           /\ hook' = [hook EXCEPT ![w] = <<[hook[w][1] EXCEPT !.sets = @ \cap u.sets]>>]
           /\ edit' = [edit EXCEPT ![w] = After(@, u, "remove")]
    /\ UNCHANGED <<sets, unsettled, event, firing, bound, counts, autos>>

\* $add, and $set at the same time as it takes others out: the sets are added, or
\* none of them when one is gone.
AddSets(w) ==
    /\ \E u \in edit[w] :
           /\ "save" \notin u.left /\ "add" \in u.left
           /\ LET new == IF u.sets \subseteq Existing THEN u.sets ELSE {}
              IN  hook' = [hook EXCEPT ![w] = <<[hook[w][1] EXCEPT !.sets = @ \cup new]>>]
           /\ edit' = [edit EXCEPT ![w] = After(@, u, "add")]
    /\ UNCHANGED <<sets, unsettled, event, firing, bound, counts, autos>>

\* A write fails, or the server dies: what the call has left is not written.
CutShort(w) ==
    /\ \E u \in edit[w] :
           /\ edit' = [edit EXCEPT ![w] = @ \ {u}]
           /\ unsettled' = IF "save" \in u.left THEN unsettled ELSE unsettled \cup {w}
    /\ UNCHANGED <<sets, hook, event, firing, bound, counts, autos>>

\* The events of a webhook, and their attempts, go with it; an update that is
\* still to be saved finds no row.
deleteWebhook(w) ==
    /\ hook[w] # <<>> /\ Counted("edits")
    /\ hook' = [hook EXCEPT ![w] = <<>>]
    /\ edit' = [edit EXCEPT ![w] = {}]
    /\ event' = [e \in DOMAIN event |->
                    IF event[e].hook = w THEN [event[e] EXCEPT !.status = "gone"] ELSE event[e]]
    /\ unsettled' = unsettled \ {w}
    /\ UNCHANGED <<sets, firing, autos>>

\* createCodeIdSet and updateCodeIdSet need at least one code id.
createCodeIdSet(s) ==
    /\ sets[s] = {} /\ Counted("edits")
    /\ \E ids \in SUBSET {1, 2} : ids # {} /\ sets' = [sets EXCEPT ![s] = ids]
    /\ UNCHANGED <<hook, edit, unsettled, event, firing, autos>>

updateCodeIdSet(s) ==
    /\ sets[s] # {} /\ Counted("edits")
    /\ \E ids \in SUBSET {1, 2} : ids # {} /\ sets' = [sets EXCEPT ![s] = ids]
    /\ UNCHANGED <<hook, edit, unsettled, event, firing, autos>>

\* Destroying a set takes it out of every webhook; nothing looks at the filters
\* these are left with.
deleteCodeIdSet(s) ==
    LET users == {w \in Hooks : (hook[w] # <<>> /\ s \in hook[w][1].sets) \/ edit[w] # {}}
    IN  /\ sets[s] # {} /\ Counted("edits")
        /\ sets' = [sets EXCEPT ![s] = {}]
        /\ hook' = [w \in Hooks |-> IF hook[w] = <<>> THEN <<>>
                                    ELSE <<[hook[w][1] EXCEPT !.sets = @ \ {s}]>>]
        /\ unsettled' = unsettled \cup users
        /\ UNCHANGED <<edit, event, firing, autos>>

-----------------------------------------------------------------------------
(* Matching and queueing.                                                  *)

stateKeyMatches(h, ev) == h.key = NoFilter \/ ev.key \in h.key

\* AccountWebhook.matches.
Matches(h, ev) ==
    /\ h.contracts = NoFilter \/ ev.contract \in h.contracts
    /\ h.sets = {} \/ \E s \in h.sets : ev.code \in sets[s]
    /\ stateKeyMatches(h, ev)
    /\ ~h.first \/ ev.first

\* queueWebhooks: an event is created for every webhook that matches and whose
\* key pays for it (see Credits); a webhook whose key cannot pay gets none.
queueWebhooks ==
    /\ Counted("exports")
    /\ \E ev \in WasmEvents :
           LET matching == {w \in Hooks : hook[w] # <<>> /\ Matches(hook[w][1], ev)}
           IN  \E paid \in SUBSET matching :
                   event' = event \o SetToSeq(
                       {[hook |-> w, status |-> "pending", attempts |-> <<>>] : w \in paid})
    /\ autos' = autos \o [i \in 1 .. Len(event') - Len(event) |-> 0]
    /\ UNCHANGED <<sets, hook, edit, unsettled, firing>>

-----------------------------------------------------------------------------
(* Firing.                                                                 *)

Firing(e, by) ==
    [event |-> e, by |-> by, status |-> event[e].status, seen |-> Len(event[e].attempts),
     phase |-> "request", ok |-> FALSE]

ByScript == {f \in firing : f.by = "script"}

\* The script fetches pending events and fires them together; it starts again
\* when all of them are done.
FireBatch ==
    /\ ByScript = {}
    /\ LET pending == {e \in DOMAIN event : event[e].status \in {"pending", "retrying"}}
       IN  \E batch \in SUBSET pending :
               /\ Cardinality(batch) = Min({WebhookBatch, Cardinality(pending)}) /\ batch # {}
               /\ firing' = firing \cup {Firing(e, "script") : e \in batch}
    /\ UNCHANGED <<sets, hook, edit, unsettled, event, bound, counts, autos>>

\* fireWebhookEvent: by hand, whatever the status, unless an attempt was made in
\* the last 30 seconds.
fireWebhookEvent(e) ==
    /\ Counted("fires") /\ event[e].status # "gone"
    /\ \A f \in firing : ~(f.by = "hand" /\ f.event = e)
    /\ firing' = firing \cup {Firing(e, "hand")}
    /\ UNCHANGED <<sets, hook, edit, unsettled, event, autos>>

\* The endpoint answers, or the request fails, and the attempt is stored. With
\* its webhook gone the firing throws.
StoreAttempt(f) ==
    /\ f \in firing /\ f.phase = "request"
    /\ IF event[f.event].status = "gone"
       THEN firing' = firing \ {f} /\ UNCHANGED <<event, autos>>
       ELSE \E ok \in BOOLEAN :
                /\ event' = [event EXCEPT ![f.event].attempts = Append(@, ok)]
                /\ autos' = IF f.by = "script" THEN [autos EXCEPT ![f.event] = @ + 1] ELSE autos
                /\ firing' = (firing \ {f}) \cup {[f EXCEPT !.phase = "store", !.ok = ok]}
    /\ UNCHANGED <<sets, hook, edit, unsettled, bound, counts>>

\* Mutant: a failure is always retried.
StatusAfter_Forever(f) == IF f.ok THEN "success" ELSE "retrying"

\* The status after an attempt: the attempts are the ones read before it.
StatusAfter(f) ==
    IF f.ok THEN "success" ELSE IF f.seen < MAX_ATTEMPTS THEN "retrying" ELSE "failure"

\* Unless the event had succeeded when it was read, its status is saved.
StoreStatus(f) ==
    /\ f \in firing /\ f.phase = "store"
    /\ event' = IF f.status = "success" \/ event[f.event].status = "gone" THEN event
                ELSE [event EXCEPT ![f.event].status = StatusAfter(f)]
    /\ firing' = firing \ {f}
    /\ UNCHANGED <<sets, hook, edit, unsettled, bound, counts, autos>>

\* The script dies and is started again.
ScriptStops ==
    /\ Counted("stops") /\ ByScript # {}
    /\ firing' = firing \ ByScript
    /\ UNCHANGED <<sets, hook, edit, unsettled, event, autos>>

-----------------------------------------------------------------------------
Fire == FireBatch \/ \E f \in firing : StoreAttempt(f) \/ StoreStatus(f)

WebhooksNext ==
    \/ \E w \in Hooks :
           \/ createWebhook(w) \/ updateWebhook(w) \/ deleteWebhook(w)
           \/ SaveColumns(w) \/ RemoveSets(w) \/ AddSets(w) \/ CutShort(w)
    \/ \E s \in CodeIdSets : createCodeIdSet(s) \/ updateCodeIdSet(s) \/ deleteCodeIdSet(s)
    \/ queueWebhooks
    \/ \E e \in DOMAIN event : fireWebhookEvent(e)
    \/ Fire
    \/ ScriptStops

\* The script runs for ever and its requests end: axios settles, or fails.
WebhooksFairness == WF_webhookVars(Fire)

WebhooksSpec == WebhooksInit /\ [][WebhooksNext]_webhookVars /\ WebhooksFairness

-----------------------------------------------------------------------------
(* Properties.                                                             *)

\* A webhook of the account is only ever fired for events one of its filters
\* selects: a webhook without a filter, which would match everything, is left
\* only by deleting a code id set, by two edits at once, or by an edit that fails
\* between two of its writes; and until its code id sets are written, by the edit
\* that writes them (createWebhook and updateWebhook validate first and have no
\* transaction, deleteCodeIdSet does not validate).
UnfilteredNeedsRace ==
    \A w \in Hooks \ unsettled : hook[w] # <<>> =>
        \/ Filtered(hook[w][1])
        \/ \E u \in edit[w] : u.left \cap {"save", "add"} = {"add"} /\ u.sets # {}

\* An event is given up only when MAX_ATTEMPTS attempts were made before the
\* last one, however firings by hand and by the script overlap
\* (AccountWebhookEvent.fire).
FailureNeedsAttempts ==
    \A e \in DOMAIN event :
        event[e].status = "failure" => Len(event[e].attempts) > MAX_ATTEMPTS

\* The script stops trying: it makes at most MAX_ATTEMPTS + 1 attempts, one more
\* for each firing by hand that may have put the event back to retrying, and one
\* for each time it died before it saved the status.
AttemptsBounded ==
    \A e \in DOMAIN event :
        autos[e] <= MAX_ATTEMPTS + 1 + counts.fires + counts.stops

\* A delivered event stays delivered, unless a firing that started before the
\* delivery was saved fails after it.
SuccessIsKept ==
    [][\A e \in DOMAIN event :
           event[e].status = "success" /\ event'[e].status \notin {"success", "gone"} =>
               \E f \in firing : f.event = e /\ f.status # "success"]_webhookVars

\* Every event is delivered or given up in the end, whichever events the script
\* picks for its batches, and whatever fails.
Settled(i) == i \in DOMAIN event /\ event[i].status \in {"success", "failure", "gone"}

EventsSettle ==
    \A i \in 1 .. Max({b.exports : b \in WebhookBounds}) * Cardinality(Hooks) :
        i \in DOMAIN event ~> Settled(i)

\* What holds of webhooks and their events at all times: filters, the number of
\* attempts, and what it takes to give an event up.
WebhooksAreSound ==
    /\ UnfilteredNeedsRace
    /\ FailureNeedsAttempts
    /\ AttemptsBounded

\* Every event comes to its end, and a success is never taken back (fire, the
\* script).
EventsSettleForGood ==
    /\ SuccessIsKept
    /\ EventsSettle
=============================================================================
