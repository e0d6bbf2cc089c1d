-------------------------- MODULE ExportQueueProofs --------------------------
(***************************************************************************)
(* Proofs about ExportQueue for every sequence of jobs, number of attempts *)
(* and tries, and any failures, timeouts and crashes: types, that a        *)
(* completed job has been exported, and that no write goes back.           *)
(***************************************************************************)
EXTENDS ExportQueue, SequenceTheorems, TLAPS

\* The jobs that wait for the worker.
Waits(j) == \E p \in DOMAIN waiting : waiting[p] = j

\* A job that was added, has attempts left and has not stalled too often.
Left(j) == j <= added /\ attemptsMade[j] < Attempts /\ stalls[j] <= MaxStalled

\* A job is in one place, has attempts left while it is to be processed, and has
\* been attempted when it is delayed.
PlaceInv ==
  /\ \A p, q \in DOMAIN waiting : waiting[p] = waiting[q] => p = q
  /\ \A p \in DOMAIN waiting :
       /\ waiting[p] # active /\ waiting[p] \notin delayed /\ waiting[p] \notin stalled
       /\ Left(waiting[p])
  /\ active \notin delayed /\ active \notin stalled
  /\ active # 0 => Left(active)
  /\ \A j \in delayed : j \notin stalled /\ Left(j) /\ 0 < attemptsMade[j]
  /\ \A j \in stalled : Left(j)
  /\ \A j \in JobIds : j > added => attemptsMade[j] = 0 /\ stalls[j] = 0

\* A run of a job's current attempt is the only one, and its job is the one that
\* is being processed.  A handler without items has nothing to do, but for reading
\* the codes of new contracts.
Idle == {"codes", "done", "failed"}
RunInv ==
  /\ \A r, s \in runs : r.job = s.job /\ r.attempt = s.attempt => r = s
  /\ \A r \in runs : r.attempt <= attemptsMade[r.job] + 1
  /\ \A r \in runs : r.attempt = attemptsMade[r.job] + 1 => r.job = active
  /\ \A r \in runs : \A h \in Handlers : ItemsOf(r.job, h) = {} => r.stage[h] \in Idle

\* What the handlers do for a job, as facts about given tables.
Written(items, table) == \A x \in items : <<x.id, x.height>> \in DOMAIN table
WasmWritten(j, table, known, zero) ==
  \A x \in ItemsOf(j, "wasm") : <<x.id, x.height>> \in DOMAIN table \/ MayMiss(x, known, zero)
BankWritten(j, table, money) ==
  /\ \A x \in History(j) : <<x.id, x.height>> \in DOMAIN table
  /\ \A x \in ItemsOf(j, "bank") : x.id \in DOMAIN money /\ money[x.id].height >= x.height
CursorMoved(j, h, last, latest) ==
  \A x \in ItemsOf(j, h) : last[h] >= x.height /\ latest >= x.height
AccountsQueued(j, queued, made, halts, last, known, zero) ==
  \A x \in ItemsOf(j, "wasm") :
    \/ x \in queued \/ MayMiss(x, known, zero)
    \/ (made[j] > 0 \/ halts[j] > 0) /\ last["wasm"] > x.height

\* The events that a run has dropped are ones that may be missing.
KeptOK(r, known, zero) ==
  /\ r.kept \subseteq ItemsOf(r.job, "wasm")
  /\ \A x \in ItemsOf(r.job, "wasm") : x \in r.kept \/ MayMiss(x, known, zero)

\* What a run's handlers have done when they have come to a stage.
StageOK(r, table, money, last, latest, queued, made, halts, known, zero) ==
  /\ KeptOK(r, known, zero)
  /\ r.stage["wasm"] \in {"account", "cursor", "notify", "done"} => Written(r.kept, table)
  /\ r.stage["bank"] \in {"cursor", "notify", "done"} => BankWritten(r.job, table, money)
  /\ \A h \in Handlers : r.stage[h] \in {"notify", "done"} => CursorMoved(r.job, h, last, latest)
  /\ r.stage["wasm"] \in {"cursor", "notify", "done"} =>
       AccountsQueued(r.job, queued, made, halts, last, known, zero)

\* The same, of the tables as they are and of those after a step.
StageBefore(r) ==
  StageOK(r, rows, balances, lastExported, latestHeight, accountQueued, attemptsMade, stalls, identified, missed)
StageAfter(r) ==
  StageOK(r, rows', balances', lastExported', latestHeight', accountQueued', attemptsMade', stalls', identified', missed')
StageInv == \A r \in runs : StageBefore(r)

\* What has been done for a job that completed.
Handled(j, table, money, last, latest, queued, made, halts, known, zero) ==
  /\ WasmWritten(j, table, known, zero) /\ BankWritten(j, table, money)
  /\ \A h \in Handlers : CursorMoved(j, h, last, latest)
  /\ AccountsQueued(j, queued, made, halts, last, known, zero)
HandledBefore(j) ==
  Handled(j, rows, balances, lastExported, latestHeight, accountQueued, attemptsMade, stalls, identified, missed)
HandledAfter(j) ==
  Handled(j, rows', balances', lastExported', latestHeight', accountQueued', attemptsMade', stalls', identified', missed')
CompletedInv == \A j \in completed : HandledBefore(j)

\* A job that was neither rejected nor left by a worker that died.
Fresh(j) == attemptsMade[j] = 0 /\ stalls[j] = 0 /\ j \notin stalled

\* A job on its first attempt, or before it.
First(j) == Fresh(j) /\ (Waits(j) \/ j = active \/ j > added)

\* A job that the worker has never taken.
Untouched(j) == Fresh(j) /\ j # active /\ \A r \in runs : r.job # j

\* No job overtakes one that was neither rejected nor left by a worker that died,
\* so that what is in the tables and the cursors comes from jobs before it, or from
\* itself.
OrderInv ==
  \A j \in JobIds : First(j) =>
    /\ \A k \in JobIds : k > j => Untouched(k)
    /\ \A p, q \in DOMAIN waiting : waiting[p] = j /\ waiting[q] > j => q > p
Older(j, table, last) ==
  \A x \in Jobs[j] :
    /\ \A h \in Handlers : last[h] <= x.height
    /\ <<x.id, x.height>> \in DOMAIN table => table[<<x.id, x.height>>] <= x.n
OlderInv == \A j \in JobIds : First(j) => Older(j, rows, lastExported)

\* A stored balance is one that some job brought.
Brought(money) ==
  \A id \in DOMAIN money : \E j \in JobIds : \E x \in Jobs[j] :
    x.id = id /\ money[id] = [height |-> x.height, n |-> x.n]
BalanceInv == Brought(balances)

\* A cached code id of 0 came from a look-up.
CodesInv == unfound \subseteq missed

\* The inductive invariant.
ExportInv ==
  /\ TypeOK /\ PlaceInv /\ RunInv /\ StageInv /\ OrderInv /\ OlderInv /\ BalanceInv /\ CompletedInv
  /\ CodesInv

-------------------------------------------------------------------------------
\* Jobs and their items.

\* Jobs are numbered from 1 and their items have a number and a height.
LEMMA ItemTypes ==
  /\ JobIds = 1..Len(Jobs) /\ Len(Jobs) \in Nat /\ JobIds \subseteq Nat /\ 0 \notin JobIds
  /\ \A j \in JobIds : Jobs[j] \subseteq Item
  /\ \A x \in Item : x.n \in Nat /\ x.height \in Nat
  /\ \A j \in JobIds : History(j) \subseteq Jobs[j] /\ \A h \in Handlers : ItemsOf(j, h) \subseteq Jobs[j]
BY ExportQueueAssumption DEF JobIds, Item, History, ItemsOf

\* A job's items are all of one block, that of HeightOf.
LEMMA OneBlock ==
  ASSUME NEW j \in JobIds, NEW x \in Jobs[j]
  PROVE  HeightOf(j) = x.height
<1>1. (CHOOSE y \in Jobs[j] : TRUE) \in Jobs[j]
  OBVIOUS
<1> QED
  BY <1>1, ExportQueueAssumption DEF HeightOf

\* The items of a job are no newer than those of a later one, and a newer item of
\* the same id has a greater number.
LEMMA JobsInOrder ==
  ASSUME NEW j \in JobIds, NEW k \in JobIds, NEW x \in Jobs[j], NEW y \in Jobs[k]
  PROVE  /\ j <= k => x.height <= y.height
         /\ j <= k /\ x.id = y.id => x.n <= y.n
         /\ x.height < y.height /\ x.id = y.id => x.n <= y.n
<1>1. /\ j \in Nat /\ k \in Nat /\ x \in Item /\ y \in Item
      /\ x.n \in Nat /\ x.height \in Nat /\ y.n \in Nat /\ y.height \in Nat
  BY ItemTypes
<1>2. CASE j = k
  BY <1>1, <1>2, ExportQueueAssumption
<1>3. CASE j < k
  BY <1>1, <1>3, ExportQueueAssumption
<1>4. CASE k < j
  BY <1>1, <1>4, ExportQueueAssumption
<1> QED
  BY <1>1, <1>2, <1>3, <1>4

-------------------------------------------------------------------------------
\* The tables.

\* An upsert of items of one job writes their numbers and leaves other rows alone.
LEMMA RowsWritten ==
  ASSUME NEW j \in JobIds, NEW items, items \subseteq Jobs[j]
  PROVE  /\ DOMAIN rows \subseteq DOMAIN RowsWith(items)
         /\ \A x \in items : /\ <<x.id, x.height>> \in DOMAIN RowsWith(items)
                             /\ RowsWith(items)[<<x.id, x.height>>] = x.n
         /\ \A k \in DOMAIN RowsWith(items) :
              \/ k \in DOMAIN rows /\ RowsWith(items)[k] = rows[k]
              \/ \E x \in items : k = <<x.id, x.height>> /\ RowsWith(items)[k] = x.n
<1> DEFINE keys == {<<x.id, x.height>> : x \in items}
           item(k) == CHOOSE x \in items : <<x.id, x.height>> = k
           new == [k \in keys |-> item(k).n]
<1>1. RowsWith(items) = [k \in DOMAIN rows \cup keys |-> IF k \in keys THEN item(k).n ELSE rows[k]]
  BY DEF RowsWith, Upsert
<1>2. ASSUME NEW k \in keys
      PROVE  item(k) \in items /\ <<item(k).id, item(k).height>> = k
  OBVIOUS
<1>3. ASSUME NEW x \in items
      PROVE  <<x.id, x.height>> \in keys /\ item(<<x.id, x.height>>) = x
  <2>1. <<x.id, x.height>> \in keys
    OBVIOUS
  <2>2. item(<<x.id, x.height>>) \in items /\ item(<<x.id, x.height>>).id = x.id
    BY <1>2, <2>1
  <2> QED
    BY <2>1, <2>2, ExportQueueAssumption
<1> HIDE DEF keys, item
<1> QED
  BY <1>1, <1>2, <1>3

\* An upsert of balances of one job keeps what is newer.
LEMMA BalancesWritten ==
  ASSUME NEW j \in JobIds, NEW items, items \subseteq Jobs[j]
  PROVE  /\ DOMAIN balances \subseteq DOMAIN BalancesWith(items)
         /\ \A x \in items : x.id \in DOMAIN BalancesWith(items)
         /\ \A id \in DOMAIN BalancesWith(items) :
              \/ /\ id \in DOMAIN balances /\ BalancesWith(items)[id] = balances[id]
                 /\ \A x \in items : x.id = id => ~(x.height > balances[id].height)
              \/ \E x \in items :
                   /\ x.id = id
                   /\ BalancesWith(items)[id] = [height |-> x.height, n |-> x.n]
                   /\ id \in DOMAIN balances => x.height > balances[id].height
<1> DEFINE ids == {x.id : x \in items}
           item(id) == CHOOSE y \in items : y.id = id
           row(id) == [height |-> item(id).height, n |-> item(id).n]
           newer == {i \in ids : i \notin DOMAIN balances \/ item(i).height > balances[i].height}
<1>1. BalancesWith(items) =
        [id \in DOMAIN balances \cup newer |-> IF id \in newer THEN row(id) ELSE balances[id]]
  <2> DEFINE new == [id \in ids |-> row(id)]
  <2>1. BalancesWith(items) = Upsert(balances, NewBalances(new))
    BY DEF BalancesWith
  <2>2. NewBalances(new) = [id \in newer |-> row(id)]
    BY DEF NewBalances
  <2> QED
    BY <2>1, <2>2 DEF Upsert
<1>2. ASSUME NEW id \in ids
      PROVE  item(id) \in items /\ item(id).id = id
  OBVIOUS
<1>3. ASSUME NEW x \in items
      PROVE  x.id \in ids /\ item(x.id) = x
  <2>1. x.id \in ids
    OBVIOUS
  <2>2. item(x.id) \in items /\ item(x.id).id = x.id
    BY <1>2, <2>1
  <2> QED
    BY <2>1, <2>2, ExportQueueAssumption
<1>4. \A id \in newer : id \in ids /\ (id \in DOMAIN balances => item(id).height > balances[id].height)
  OBVIOUS
<1>5. \A x \in items : x.id \notin newer =>
        x.id \in DOMAIN balances /\ ~(x.height > balances[x.id].height)
  BY <1>3
<1>6. newer \subseteq ids
  OBVIOUS
<1> HIDE DEF ids, item, newer, row
<1>7. DOMAIN BalancesWith(items) = DOMAIN balances \cup newer
  BY <1>1
<1>8. ASSUME NEW id \in newer
      PROVE  BalancesWith(items)[id] = [height |-> item(id).height, n |-> item(id).n]
  BY <1>1, <1>7 DEF row
<1>9. ASSUME NEW id \in DOMAIN balances, id \notin newer
      PROVE  BalancesWith(items)[id] = balances[id]
  BY <1>1, <1>7, <1>9
<1> QED
  BY <1>2, <1>4, <1>5, <1>6, <1>7, <1>8, <1>9

-------------------------------------------------------------------------------
\* The tables and cursors grow.

\* The second state of the tables keeps what the first has.
Grown(table, money, last, latest, queued, made, halts, known, zero,
      table2, money2, last2, latest2, queued2, made2, halts2, known2, zero2) ==
  /\ DOMAIN table \subseteq DOMAIN table2
  /\ \A id \in DOMAIN money : id \in DOMAIN money2 /\ money2[id].height >= money[id].height
  /\ \A h \in Handlers : last2[h] >= last[h]
  /\ latest2 >= latest
  /\ queued \subseteq queued2
  /\ \A j \in JobIds : made2[j] >= made[j] /\ halts2[j] >= halts[j]
  /\ known \subseteq known2 /\ zero \subseteq zero2

\* The types of the tables.
Tables(money, last, latest, made, halts) ==
  /\ \A id \in DOMAIN money : money[id].height \in Nat
  /\ \A h \in Handlers : last[h] \in Nat
  /\ latest \in Nat
  /\ \A j \in JobIds : made[j] \in Nat /\ halts[j] \in Nat

\* What was done for a job stays done.
LEMMA DoneStays ==
  ASSUME NEW t, NEW m, NEW l, NEW lt, NEW q, NEW a, NEW h1, NEW k, NEW z,
         NEW t2, NEW m2, NEW l2, NEW lt2, NEW q2, NEW a2, NEW h2, NEW k2, NEW z2,
         Tables(m, l, lt, a, h1), Tables(m2, l2, lt2, a2, h2),
         Grown(t, m, l, lt, q, a, h1, k, z, t2, m2, l2, lt2, q2, a2, h2, k2, z2),
         NEW j \in JobIds
  PROVE  /\ WasmWritten(j, t, k, z) => WasmWritten(j, t2, k2, z2)
         /\ BankWritten(j, t, m) => BankWritten(j, t2, m2)
         /\ \A h \in Handlers : CursorMoved(j, h, l, lt) => CursorMoved(j, h, l2, lt2)
         /\ AccountsQueued(j, q, a, h1, l, k, z) => AccountsQueued(j, q2, a2, h2, l2, k2, z2)
         /\ \A r : KeptOK(r, k, z) => KeptOK(r, k2, z2)
         /\ \A items : Written(items, t) => Written(items, t2)
<1>1. \A h \in Handlers : \A x \in ItemsOf(j, h) : x.height \in Nat
  BY ItemTypes
<1>2. \A x : MayMiss(x, k, z) => MayMiss(x, k2, z2)
  BY DEF MayMiss, Grown
<1>3. WasmWritten(j, t, k, z) => WasmWritten(j, t2, k2, z2)
  BY <1>2 DEF WasmWritten, Grown
<1>4. BankWritten(j, t, m) => BankWritten(j, t2, m2)
  BY <1>1 DEF BankWritten, Grown, Tables, Handlers
<1>5. \A h \in Handlers : CursorMoved(j, h, l, lt) => CursorMoved(j, h, l2, lt2)
  BY <1>1 DEF CursorMoved, Grown, Tables
<1>6. AccountsQueued(j, q, a, h1, l, k, z) => AccountsQueued(j, q2, a2, h2, l2, k2, z2)
  <2>1. /\ a[j] \in Nat /\ a2[j] \in Nat /\ a2[j] >= a[j] /\ h1[j] \in Nat /\ h2[j] \in Nat /\ h2[j] >= h1[j]
        /\ l["wasm"] \in Nat /\ l2["wasm"] \in Nat /\ l2["wasm"] >= l["wasm"] /\ q \subseteq q2
    BY DEF Grown, Tables, Handlers
  <2>2. \A x \in ItemsOf(j, "wasm") : x.height \in Nat
    BY <1>1 DEF Handlers
  <2> QED
    BY <1>2, <2>1, <2>2 DEF AccountsQueued
<1>7. \A r : KeptOK(r, k, z) => KeptOK(r, k2, z2)
  BY <1>2 DEF KeptOK
<1>8. \A items : Written(items, t) => Written(items, t2)
  BY DEF Written, Grown
<1> QED
  BY <1>3, <1>4, <1>5, <1>6, <1>7, <1>8

\* The variables of the tables keep what they have.
DbGrows ==
  Grown(rows, balances, lastExported, latestHeight, accountQueued, attemptsMade, stalls, identified, missed,
        rows', balances', lastExported', latestHeight', accountQueued', attemptsMade', stalls', identified', missed')

\* What the type invariant says of the tables.
LEMMA TablesTyped == TypeOK => Tables(balances, lastExported, latestHeight, attemptsMade, stalls)
<1> SUFFICES ASSUME TypeOK PROVE Tables(balances, lastExported, latestHeight, attemptsMade, stalls)
  OBVIOUS
<1>1. \A j \in JobIds : attemptsMade[j] \in 0..Attempts /\ stalls[j] \in 0..2
  BY DEF TypeOK, MaxStalled
<1>2. \A j \in JobIds : attemptsMade[j] \in Nat /\ stalls[j] \in Nat
  BY <1>1, ExportQueueAssumption
<1>3. /\ \A id \in DOMAIN balances : balances[id].height \in Nat
      /\ \A h \in Handlers : lastExported[h] \in Nat
      /\ latestHeight \in Nat
  BY DEF TypeOK
<1> QED
  BY <1>2, <1>3 DEF Tables

\* A run that does not move keeps its stage's facts, and a completed job its own.
LEMMA StagesStay ==
  ASSUME TypeOK, TypeOK', DbGrows
  PROVE  /\ \A r \in runs :
              StageBefore(r) => StageAfter(r)
         /\ CompletedInv => \A j \in completed :
              HandledAfter(j)
<1>1. Tables(balances, lastExported, latestHeight, attemptsMade, stalls)
  BY TablesTyped
<1>2. Tables(balances', lastExported', latestHeight', attemptsMade', stalls')
  <2>1. Tables(balances, lastExported, latestHeight, attemptsMade, stalls)'
    BY TablesTyped, PTL
  <2> QED
    BY <2>1
<1>3. \A j \in JobIds :
        /\ WasmWritten(j, rows, identified, missed) => WasmWritten(j, rows', identified', missed')
        /\ BankWritten(j, rows, balances) => BankWritten(j, rows', balances')
        /\ \A h \in Handlers : CursorMoved(j, h, lastExported, latestHeight) =>
                                CursorMoved(j, h, lastExported', latestHeight')
        /\ AccountsQueued(j, accountQueued, attemptsMade, stalls, lastExported, identified, missed) =>
             AccountsQueued(j, accountQueued', attemptsMade', stalls', lastExported', identified', missed')
        /\ \A r : KeptOK(r, identified, missed) => KeptOK(r, identified', missed')
        /\ \A items : Written(items, rows) => Written(items, rows')
  BY <1>1, <1>2, DoneStays DEF DbGrows
<1>4. \A r \in runs : r.job \in JobIds
  BY DEF TypeOK, Run
<1>5. \A j \in completed : j \in JobIds
  BY DEF TypeOK
<1> QED
  BY <1>3, <1>4, <1>5 DEF StageBefore, StageAfter, StageOK, CompletedInv, HandledBefore, HandledAfter, Handled

\* When the tables stay as they are and no attempt is rejected, so do these facts.
LEMMA NothingGrows ==
  ASSUME TypeOK, UNCHANGED <<dbVars, attemptsMade, stalls, identified, missed>>
  PROVE  DbGrows
<1>1. Tables(balances, lastExported, latestHeight, attemptsMade, stalls)
  BY TablesTyped
<1>2. UNCHANGED <<rows, balances, lastExported, latestHeight, accountQueued, attemptsMade, stalls,
                  identified, missed>>
  BY DEF dbVars
<1> QED
  BY <1>1, <1>2 DEF DbGrows, Grown, Tables

-------------------------------------------------------------------------------
\* A handler moves its run from one stage to the next.

\* The run r after handler h has come to a stage, and after a new try, which goes
\* on with the events kept.
Moved(r, h, stage) == [r EXCEPT !.stage[h] = stage]
TriedAgain(r, h, kept) ==
  [r EXCEPT !.stage[h] = FirstStage(r.job, h), !.try[h] = @ + 1, !.kept = IF h = "wasm" THEN kept ELSE @]

\* r and s are the same call of process, except for what handler h does.
SameCall(r, s, h) ==
  /\ s \in Run /\ s.job = r.job /\ s.attempt = r.attempt
  /\ \A g \in Handlers : g # h => s.stage[g] = r.stage[g]
  /\ h = "bank" => s.kept = r.kept

\* A handler's move changes its stage and nothing else.
LEMMA MoveKeepsCall ==
  ASSUME NEW r \in Run, NEW h \in Handlers, NEW stage \in Stages
  PROVE  /\ SameCall(r, Moved(r, h, stage), h) /\ Moved(r, h, stage).stage[h] = stage
         /\ Moved(r, h, stage).kept = r.kept
<1>1. r.stage \in [Handlers -> Stages]
  BY DEF Run
<1>2. Moved(r, h, stage) = [r EXCEPT !.stage = [r.stage EXCEPT ![h] = stage]]
  BY DEF Moved, Run
<1>3. [r.stage EXCEPT ![h] = stage] \in [Handlers -> Stages]
  BY <1>1
<1>4. /\ Moved(r, h, stage) \in Run
      /\ Moved(r, h, stage).job = r.job /\ Moved(r, h, stage).attempt = r.attempt
      /\ Moved(r, h, stage).kept = r.kept
      /\ Moved(r, h, stage).stage = [r.stage EXCEPT ![h] = stage]
  BY <1>2, <1>3 DEF Run
<1> QED
  BY <1>1, <1>4 DEF SameCall

\* The first stage of a handler: nothing has been done then, or there is nothing to do.
LEMMA FirstStages ==
  ASSUME NEW j, NEW h \in Handlers
  PROVE  /\ FirstStage(j, h) \in Stages
         /\ FirstStage(j, h) \in {"codes", "write"} \/ (FirstStage(j, h) = "done" /\ ItemsOf(j, h) = {})
         /\ ItemsOf(j, h) = {} => FirstStage(j, h) \in Idle
<1>1. CASE h = "wasm"
  BY <1>1 DEF FirstStage, Stages, Idle
<1>2. CASE h = "bank"
  BY <1>2 DEF FirstStage, Stages, Idle
<1> QED
  BY <1>1, <1>2 DEF Handlers

\* A new try starts with the first stage.
LEMMA TryKeepsCall ==
  ASSUME NEW r \in Run, NEW h \in Handlers, r.try[h] < Tries, NEW kept \in SUBSET Item
  PROVE  /\ SameCall(r, TriedAgain(r, h, kept), h)
         /\ TriedAgain(r, h, kept).stage[h] = FirstStage(r.job, h)
         /\ h = "wasm" => TriedAgain(r, h, kept).kept = kept
<1> DEFINE first == FirstStage(r.job, h)
           items == IF h = "wasm" THEN kept ELSE r.kept
<1>1. r.stage \in [Handlers -> Stages] /\ r.try \in [Handlers -> 1..Tries] /\ r.kept \in SUBSET Item
  BY DEF Run
<1>2. first \in Stages
  BY FirstStages
<1>3. TriedAgain(r, h, kept) = [r EXCEPT !.stage = [r.stage EXCEPT ![h] = first],
                                         !.try = [r.try EXCEPT ![h] = r.try[h] + 1],
                                         !.kept = items]
  BY DEF TriedAgain, Run
<1> HIDE DEF first
<1>4. [r.stage EXCEPT ![h] = first] \in [Handlers -> Stages]
  BY <1>1, <1>2
<1>5. r.try[h] + 1 \in 1..Tries
  BY <1>1, ExportQueueAssumption
<1>6. [r.try EXCEPT ![h] = r.try[h] + 1] \in [Handlers -> 1..Tries]
  BY <1>1, <1>5
<1>7. items \in SUBSET Item /\ (h = "bank" => items = r.kept) /\ (h = "wasm" => items = kept)
  BY <1>1
<1> HIDE DEF items
<1>8. /\ TriedAgain(r, h, kept) \in Run
      /\ TriedAgain(r, h, kept).job = r.job /\ TriedAgain(r, h, kept).attempt = r.attempt
      /\ TriedAgain(r, h, kept).kept = items
      /\ TriedAgain(r, h, kept).stage = [r.stage EXCEPT ![h] = first]
  BY <1>3, <1>4, <1>6, <1>7 DEF Run
<1>9. \A g \in Handlers : TriedAgain(r, h, kept).stage[g] = IF g = h THEN first ELSE r.stage[g]
  BY <1>1, <1>8
<1> QED
  BY <1>7, <1>8, <1>9 DEF SameCall, first

-------------------------------------------------------------------------------
\* What the handlers write.

\* A job that has been taken does not come after one that was not rejected.
LEMMA TakenBefore ==
  ASSUME ExportInv, NEW r \in runs, NEW j \in JobIds, First(j)
  PROVE  r.job \in JobIds /\ r.job <= j
<1>1. r.job \in JobIds
  BY DEF ExportInv, TypeOK, Run
<1>2. ~(r.job > j)
  BY <1>1 DEF ExportInv, OrderInv, Untouched
<1> QED
  BY <1>1, <1>2, ItemTypes

\* A run of a job that was neither rejected nor put back is its first attempt.
LEMMA FirstAttempt ==
  ASSUME ExportInv, NEW r \in runs, attemptsMade[r.job] = 0, stalls[r.job] = 0
  PROVE  First(r.job)
<1>1. r.attempt \in 1..Attempts
  BY DEF ExportInv, TypeOK, Run
<1>2. r.attempt = attemptsMade[r.job] + 1
  BY <1>1, ExportQueueAssumption DEF ExportInv, RunInv
<1>3. r.job = active /\ active \notin stalled
  BY <1>2 DEF ExportInv, RunInv, PlaceInv
<1> QED
  BY <1>3 DEF First, Fresh

\* A write of rows adds to them, and leaves those of jobs that were not rejected
\* no newer than the jobs.
LEMMA RowsGrow ==
  ASSUME ExportInv, NEW r \in runs, NEW items, items \subseteq Jobs[r.job]
  PROVE  /\ DOMAIN rows \subseteq DOMAIN RowsWith(items)
         /\ \A x \in items : <<x.id, x.height>> \in DOMAIN RowsWith(items)
         /\ \A k \in DOMAIN RowsWith(items) : RowsWith(items)[k] \in Nat
         /\ \A j \in JobIds : First(j) => Older(j, RowsWith(items), lastExported)
<1>1. r.job \in JobIds
  BY DEF ExportInv, TypeOK, Run
<1>2. /\ DOMAIN rows \subseteq DOMAIN RowsWith(items)
      /\ \A x \in items : <<x.id, x.height>> \in DOMAIN RowsWith(items)
      /\ \A k \in DOMAIN RowsWith(items) :
           \/ k \in DOMAIN rows /\ RowsWith(items)[k] = rows[k]
           \/ \E x \in items : k = <<x.id, x.height>> /\ RowsWith(items)[k] = x.n
  BY <1>1, RowsWritten
<1>3. ASSUME NEW k \in DOMAIN RowsWith(items)
      PROVE  RowsWith(items)[k] \in Nat
  <2>1. \A x \in items : x.n \in Nat
    BY <1>1, ItemTypes
  <2>2. k \in DOMAIN rows => rows[k] \in Nat
    BY DEF ExportInv, TypeOK
  <2> QED
    BY <1>2, <2>1, <2>2
<1>4. ASSUME NEW j \in JobIds, First(j), NEW x \in Jobs[j],
             <<x.id, x.height>> \in DOMAIN RowsWith(items)
      PROVE  RowsWith(items)[<<x.id, x.height>>] <= x.n
  <2> DEFINE k == <<x.id, x.height>>
  <2>1. CASE k \in DOMAIN rows /\ RowsWith(items)[k] = rows[k]
    BY <1>4, <2>1 DEF ExportInv, OlderInv, Older
  <2>2. CASE \E y \in items : k = <<y.id, y.height>> /\ RowsWith(items)[k] = y.n
    <3>1. PICK y \in items : k = <<y.id, y.height>> /\ RowsWith(items)[k] = y.n
      BY <2>2
    <3>2. y.id = x.id /\ y \in Jobs[r.job] /\ r.job <= j
      BY <3>1, <1>4, TakenBefore
    <3>3. y.n <= x.n
      BY <1>1, <3>2, JobsInOrder
    <3> QED
      BY <3>1, <3>3
  <2> QED
    BY <1>2, <1>4, <2>1, <2>2
<1>5. \A j \in JobIds : First(j) => \A x \in Jobs[j] : \A h \in Handlers : lastExported[h] <= x.height
  BY DEF ExportInv, OlderInv, Older
<1> QED
  BY <1>2, <1>3, <1>4, <1>5 DEF Older

\* A write of balances only replaces older ones by newer ones, of some job.
LEMMA BalancesGrow ==
  ASSUME ExportInv, NEW j \in JobIds, NEW items, items \subseteq Jobs[j]
  PROVE  /\ \A id \in DOMAIN balances :
              /\ id \in DOMAIN BalancesWith(items)
              /\ BalancesWith(items)[id].height >= balances[id].height
              /\ BalancesWith(items)[id].n >= balances[id].n
         /\ \A x \in items : /\ x.id \in DOMAIN BalancesWith(items)
                             /\ BalancesWith(items)[x.id].height >= x.height
         /\ \A id \in DOMAIN BalancesWith(items) : BalancesWith(items)[id] \in [height : Nat, n : Nat]
         /\ Brought(BalancesWith(items))
<1> DEFINE new == BalancesWith(items)
<1>1. /\ DOMAIN balances \subseteq DOMAIN new
      /\ \A x \in items : x.id \in DOMAIN new
      /\ \A id \in DOMAIN new :
           \/ /\ id \in DOMAIN balances /\ new[id] = balances[id]
              /\ \A x \in items : x.id = id => ~(x.height > balances[id].height)
           \/ \E x \in items :
                /\ x.id = id
                /\ new[id] = [height |-> x.height, n |-> x.n]
                /\ id \in DOMAIN balances => x.height > balances[id].height
  BY BalancesWritten
<1> HIDE DEF new
<1>2. \A x \in items : x \in Jobs[j] /\ x.n \in Nat /\ x.height \in Nat
  BY ItemTypes
<1>3. \A id \in DOMAIN balances :
        balances[id] \in [height : Nat, n : Nat] /\ balances[id].height \in Nat /\ balances[id].n \in Nat
  BY DEF ExportInv, TypeOK
<1>4. ASSUME NEW id \in DOMAIN new
      PROVE  /\ new[id] \in [height : Nat, n : Nat]
             /\ id \in DOMAIN balances => new[id].height >= balances[id].height /\ new[id].n >= balances[id].n
             /\ \A x \in items : x.id = id => new[id].height >= x.height
             /\ \E k \in JobIds : \E x \in Jobs[k] : x.id = id /\ new[id] = [height |-> x.height, n |-> x.n]
  <2>1. CASE /\ id \in DOMAIN balances /\ new[id] = balances[id]
             /\ \A x \in items : x.id = id => ~(x.height > balances[id].height)
    <3>1. \E k \in JobIds : \E x \in Jobs[k] :
            x.id = id /\ balances[id] = [height |-> x.height, n |-> x.n]
      BY <2>1 DEF ExportInv, BalanceInv, Brought
    <3> QED
      BY <1>2, <1>3, <2>1, <3>1
  <2>2. CASE \E x \in items : /\ x.id = id
                              /\ new[id] = [height |-> x.height, n |-> x.n]
                              /\ id \in DOMAIN balances => x.height > balances[id].height
    <3>1. PICK x \in items : /\ x.id = id
                             /\ new[id] = [height |-> x.height, n |-> x.n]
                             /\ id \in DOMAIN balances => x.height > balances[id].height
      BY <2>2
    <3>2. x \in Jobs[j] /\ x.n \in Nat /\ x.height \in Nat
      BY <1>2
    <3>3. new[id].height = x.height /\ new[id].n = x.n /\ new[id] \in [height : Nat, n : Nat]
      BY <3>1, <3>2
    <3>4. ASSUME id \in DOMAIN balances
          PROVE  balances[id].n <= x.n
      <4>1. PICK k \in JobIds : \E y \in Jobs[k] :
              y.id = id /\ balances[id] = [height |-> y.height, n |-> y.n]
        BY <3>4 DEF ExportInv, BalanceInv, Brought
      <4>2. PICK y \in Jobs[k] : y.id = id /\ balances[id] = [height |-> y.height, n |-> y.n]
        BY <4>1
      <4>3. y.height < x.height /\ y.id = x.id /\ balances[id].n = y.n
        BY <3>1, <3>4, <4>2, <1>3, <3>2
      <4> QED
        BY <4>3, <3>2, JobsInOrder
    <3>5. \A y \in items : y.id = id => y.height = x.height
      BY <3>2, ExportQueueAssumption
    <3>6. id \in DOMAIN balances => new[id].height >= balances[id].height /\ new[id].n >= balances[id].n
      BY <1>3, <3>1, <3>2, <3>3, <3>4
    <3>7. \A y \in items : y.id = id => new[id].height >= y.height
      BY <3>2, <3>3, <3>5
    <3> QED
      BY <3>1, <3>2, <3>3, <3>6, <3>7
  <2> QED
    BY <1>1, <2>1, <2>2
<1>5. Brought(new)
  BY <1>4 DEF Brought
<1> QED
  BY <1>1, <1>4, <1>5 DEF new

-------------------------------------------------------------------------------
\* The steps of the handlers.

\* The part of the type invariant about the tables and the bounds.
DbTypeOK ==
  /\ \A k \in DOMAIN rows : rows[k] \in Nat
  /\ \A id \in DOMAIN balances : balances[id] \in [height : Nat, n : Nat]
  /\ lastExported \in [Handlers -> Nat] /\ latestHeight \in Nat
  /\ accountQueued \subseteq Item /\ notified \subseteq Item
  /\ failures \in 0..MaxFailures /\ timeouts \in 0..MaxTimeouts /\ crashes \in 0..MaxCrashes

\* A step of handler h of the run r, which becomes s.
HandlerMoves(r, s, h) ==
  /\ SameCall(r, s, h)
  /\ ItemsOf(r.job, h) # {} \/ s.stage[h] \in Idle
  /\ runs' = (runs \ {r}) \cup {s}
  /\ UNCHANGED <<added, bullVars>>

\* The queue and the order of the jobs are not affected by what handlers do.
LEMMA HandlersKeepOrder ==
  ASSUME ExportInv, NEW r \in runs, NEW s, NEW h \in Handlers, HandlerMoves(r, s, h)
  PROVE  runs' \subseteq Run /\ PlaceInv' /\ RunInv' /\ OrderInv' /\ \A j \in JobIds : First(j)' <=> First(j)
<1> USE DEF HandlerMoves
<1>1. UNCHANGED <<added, waiting, delayed, active, attemptsMade, completed, failed, stalled, stalls>>
  BY DEF bullVars
<1>2. runs \subseteq Run /\ s \in Run /\ s.job = r.job /\ s.attempt = r.attempt
  BY DEF ExportInv, TypeOK, SameCall
<1>3. runs' \subseteq Run
  BY <1>2
<1>4. PlaceInv'
  BY <1>1 DEF ExportInv, PlaceInv, Left
<1>5. RunInv'
  <2>1. ASSUME NEW a \in runs', NEW b \in runs', a.job = b.job, a.attempt = b.attempt
        PROVE  a = b
    BY <1>2, <2>1 DEF ExportInv, RunInv
  <2>2. ASSUME NEW a \in runs'
        PROVE  /\ a.attempt <= attemptsMade[a.job] + 1
               /\ a.attempt = attemptsMade[a.job] + 1 => a.job = active
    BY <1>2 DEF ExportInv, RunInv
  <2>3. ASSUME NEW a \in runs', NEW g \in Handlers, ItemsOf(a.job, g) = {}
        PROVE  a.stage[g] \in Idle
    <3>1. CASE a \in runs
      BY <2>3, <3>1 DEF ExportInv, RunInv
    <3>2. CASE a = s /\ g = h
      BY <1>2, <2>3, <3>2
    <3>3. CASE a = s /\ g # h
      BY <1>2, <2>3, <3>3 DEF ExportInv, RunInv, SameCall
    <3> QED
      BY <3>1, <3>2, <3>3
  <2> QED
    BY <1>1, <2>1, <2>2, <2>3 DEF RunInv
<1>6. \A j \in JobIds : First(j)' <=> First(j)
  BY <1>1 DEF First, Fresh, Waits
<1>7. ASSUME NEW k \in JobIds, Untouched(k)
      PROVE  Untouched(k)'
  BY <1>1, <1>2, <1>7 DEF Untouched, Fresh
<1>8. OrderInv'
  <2>1. ASSUME NEW j \in JobIds, First(j)'
        PROVE  /\ \A k \in JobIds : k > j => Untouched(k)'
               /\ \A p, q \in DOMAIN waiting : waiting[p] = j /\ waiting[q] > j => q > p
    BY <1>6, <1>7, <2>1 DEF ExportInv, OrderInv
  <2> QED
    BY <1>1, <2>1 DEF OrderInv
<1> QED
  BY <1>3, <1>4, <1>5, <1>6, <1>8

\* A handler's step keeps the invariant when what it writes adds to the tables,
\* is no newer than jobs that were not repeated, and is what its next stage says.
LEMMA HandlerKeeps ==
  ASSUME ExportInv, NEW r \in runs, NEW s, NEW h \in Handlers, HandlerMoves(r, s, h),
         DbTypeOK', DbGrows, Brought(balances'), CodesInv',
         \A j \in JobIds : First(j) => Older(j, rows', lastExported'),
         StageAfter(r) => StageAfter(s)
  PROVE  ExportInv'
<1>1. UNCHANGED <<added, waiting, delayed, active, attemptsMade, completed, failed, stalled, stalls>>
  BY DEF HandlerMoves, bullVars
<1>2. runs' \subseteq Run /\ PlaceInv' /\ RunInv' /\ OrderInv' /\ \A j \in JobIds : First(j)' <=> First(j)
  BY HandlersKeepOrder
<1>3. TypeOK /\ CompletedInv /\ StageInv
  BY DEF ExportInv
<1>4. TypeOK'
  BY <1>1, <1>2, <1>3 DEF TypeOK, DbTypeOK
<1>5. /\ \A a \in runs :
           StageAfter(a)
      /\ \A j \in completed :
           HandledAfter(j)
  BY <1>3, <1>4, StagesStay DEF StageInv
<1>6. StageInv'
  BY <1>5 DEF StageInv, StageBefore, StageAfter, HandlerMoves
<1>7. CompletedInv'
  BY <1>1, <1>5 DEF CompletedInv, HandledBefore, HandledAfter
<1>8. OlderInv' /\ BalanceInv'
  BY <1>2 DEF OlderInv, BalanceInv
<1> QED
  BY <1>2, <1>4, <1>6, <1>7, <1>8 DEF ExportInv

\* A move of a handler with items: the run after it.
LEMMA MoveMoves ==
  ASSUME ExportInv, NEW r \in runs, NEW h \in Handlers, NEW stage \in Stages,
         r.stage[h] \notin Idle \/ stage \in Idle, Move(r, h, stage), UNCHANGED <<added, bullVars>>
  PROVE  /\ HandlerMoves(r, Moved(r, h, stage), h) /\ Moved(r, h, stage).stage[h] = stage
         /\ Moved(r, h, stage).kept = r.kept
<1>1. r \in Run
  BY DEF ExportInv, TypeOK
<1>2. /\ SameCall(r, Moved(r, h, stage), h) /\ Moved(r, h, stage).stage[h] = stage
      /\ Moved(r, h, stage).kept = r.kept
  BY <1>1, MoveKeepsCall
<1>3. ItemsOf(r.job, h) # {} \/ stage \in Idle
  BY DEF ExportInv, RunInv
<1>4. runs' = (runs \ {r}) \cup {Moved(r, h, stage)}
  BY DEF Move, Moved
<1> QED
  BY <1>2, <1>3, <1>4 DEF HandlerMoves

\* The stages of a run after one handler's step.
LEMMA StagesOf ==
  ASSUME NEW r, NEW s, NEW h \in Handlers, SameCall(r, s, h)
  PROVE  /\ s.job = r.job
         /\ h = "wasm" => s.stage["bank"] = r.stage["bank"]
         /\ h = "bank" => s.stage["wasm"] = r.stage["wasm"] /\ s.kept = r.kept
BY DEF SameCall, Handlers

\* The events that a run keeps are its job's.
LEMMA KeptItems ==
  ASSUME ExportInv, NEW r \in runs
  PROVE  /\ r.job \in JobIds /\ KeptOK(r, identified, missed)
         /\ ItemsOf(r.job, "wasm") \subseteq Jobs[r.job] /\ r.kept \subseteq Jobs[r.job]
         /\ Jobs[r.job] \subseteq Item
<1>1. r.job \in JobIds
  BY DEF ExportInv, TypeOK, Run
<1>2. KeptOK(r, identified, missed)
  BY DEF ExportInv, StageInv, StageBefore, StageAfter, StageOK
<1> QED
  BY <1>1, <1>2, ItemTypes DEF KeptOK, Handlers

\* The codes are read: what is dropped then is what may be missing.
LEMMA ReadCodesKeeps ==
  ASSUME ExportInv, NEW r \in runs, ReadCodes(r)
  PROVE  ExportInv'
<1> DEFINE items == ItemsOf(r.job, "wasm")
           contracts == {ContractOf[x.id] : x \in items}
           stored == identified \cup NewContracts(r.job)
           asked == contracts \ (stored \cup unfound)
           next == IF items = {} THEN "done" ELSE "write"
           s == [r EXCEPT !.kept = Kept(r.kept, identified'), !.stage["wasm"] = next]
<1>1. PICK zero \in SUBSET asked :
        /\ identified' = stored \cup (asked \ zero)
        /\ unfound' = unfound \cup zero /\ missed' = missed \cup zero
        /\ failures' = failures \/ (failures < MaxFailures /\ failures' = failures + 1)
  BY DEF ReadCodes
<1>2. /\ r.stage["wasm"] = "codes" /\ runs' = (runs \ {r}) \cup {s}
      /\ UNCHANGED <<added, bullVars, dbVars, notified, timeouts, crashes>>
  BY DEF ReadCodes
<1>3. identified \subseteq identified' /\ missed \subseteq missed' /\ CodesInv'
  BY <1>1 DEF ExportInv, CodesInv
<1>4. r \in Run /\ r.kept \subseteq Item /\ r.stage \in [Handlers -> Stages]
  BY DEF ExportInv, TypeOK, Run
<1>5. r.kept \subseteq items /\ \A x \in items : x \in r.kept \/ MayMiss(x, identified, missed)
  BY KeptItems DEF KeptOK
<1>6. ASSUME NEW x \in items, x \notin Kept(r.kept, identified')
      PROVE  MayMiss(x, identified', missed')
  <2>1. CASE x \notin r.kept
    BY <1>3, <1>5, <2>1 DEF MayMiss
  <2>2. CASE ContractOf[x.id] \in identified' /\ x.id \in Unlisted
    BY <2>2 DEF MayMiss
  <2>3. CASE OnlyKnown /\ ContractOf[x.id] \notin identified'
    <3>1. ContractOf[x.id] \in unfound'
      BY <1>1, <2>3
    <3> QED
      BY <1>3, <2>3, <3>1 DEF MayMiss, CodesInv
  <2>4. CASE OnlyKnown /\ ContractOf[x.id] \notin KnownCode
    BY <2>4 DEF MayMiss
  <2> QED
    BY <1>6, <2>1, <2>2, <2>3, <2>4 DEF Kept
<1>7. Kept(r.kept, identified') \subseteq r.kept
  BY DEF Kept
<1> DEFINE kept == Kept(r.kept, identified')
<1>8. s = [r EXCEPT !.kept = kept, !.stage = [r.stage EXCEPT !["wasm"] = next]]
  BY <1>4 DEF Run
<1>9. next \in {"write", "done"} /\ (items = {} => next = "done") /\ (next = "done" => items = {})
  OBVIOUS
<1> HIDE DEF kept, next
<1>10. [r.stage EXCEPT !["wasm"] = next] \in [Handlers -> Stages]
  BY <1>4, <1>9 DEF Stages
<1>11. kept \subseteq Item
  BY <1>4, <1>7 DEF kept
<1>12. /\ s \in Run /\ s.job = r.job /\ s.attempt = r.attempt /\ s.kept = kept
       /\ s.stage = [r.stage EXCEPT !["wasm"] = next]
  BY <1>4, <1>8, <1>10, <1>11 DEF Run
<1> HIDE DEF s
<1>13. s.stage["wasm"] = next /\ s.stage["bank"] = r.stage["bank"]
  BY <1>4, <1>12 DEF Handlers
<1>14. HandlerMoves(r, s, "wasm")
  BY <1>2, <1>9, <1>12, <1>13 DEF HandlerMoves, SameCall, Handlers, Idle
<1>15. DbTypeOK'
  <2>1. failures' \in 0..MaxFailures
    BY <1>1, ExportQueueAssumption DEF ExportInv, TypeOK
  <2> QED
    BY <1>2, <2>1 DEF DbTypeOK, ExportInv, TypeOK, dbVars
<1>16. DbGrows
  <2>1. Tables(balances, lastExported, latestHeight, attemptsMade, stalls)
    BY TablesTyped DEF ExportInv
  <2> QED
    BY <1>2, <1>3, <2>1 DEF DbGrows, Grown, Tables, bullVars, dbVars
<1>17. KeptOK(s, identified', missed')
  BY <1>5, <1>6, <1>7, <1>12 DEF KeptOK, kept
<1>18. StageAfter(r) => StageAfter(s)
  <2>1. items = {} => s.kept = {}
    BY <1>5, <1>7, <1>12 DEF kept
  <2>2. CASE next = "write"
    BY <1>12, <1>13, <1>17, <2>2 DEF StageBefore, StageAfter, StageOK, Handlers
  <2>3. CASE next = "done"
    <3>1. /\ Written(s.kept, rows')
          /\ CursorMoved(r.job, "wasm", lastExported', latestHeight')
          /\ AccountsQueued(r.job, accountQueued', attemptsMade', stalls', lastExported', identified', missed')
      BY <1>9, <2>1, <2>3 DEF Written, CursorMoved, AccountsQueued
    <3> QED
      BY <1>12, <1>13, <1>17, <3>1 DEF StageBefore, StageAfter, StageOK, Handlers
  <2> QED
    BY <1>9, <2>2, <2>3
<1>19. Brought(balances') /\ \A j \in JobIds : First(j) => Older(j, rows', lastExported')
  BY <1>2 DEF ExportInv, BalanceInv, OlderInv, dbVars
<1> QED
  BY <1>3, <1>14, <1>15, <1>16, <1>18, <1>19, HandlerKeeps DEF Handlers

\* The code ids are left alone.
LEMMA CodesKept ==
  ASSUME ExportInv, UNCHANGED codeVars
  PROVE  CodesInv' /\ identified' = identified /\ missed' = missed
BY DEF ExportInv, CodesInv, codeVars

\* The rows are written.
LEMMA WriteRowsKeeps ==
  ASSUME ExportInv, NEW r \in runs, WriteRows(r)
  PROVE  ExportInv'
<1> DEFINE s == Moved(r, "wasm", "account")
<1>1. r.job \in JobIds /\ r.kept \subseteq Jobs[r.job]
  BY KeptItems
<1>2. /\ rows' = RowsWith(r.kept)
      /\ UNCHANGED <<added, bullVars, codeVars, balances, lastExported, latestHeight, accountQueued, notified, boundVars>>
      /\ r.stage["wasm"] = "write" /\ Move(r, "wasm", "account")
  BY DEF WriteRows
<1>3. HandlerMoves(r, s, "wasm") /\ s.stage["wasm"] = "account" /\ s.kept = r.kept
  BY <1>2, MoveMoves DEF Handlers, Stages, Idle
<1>4. /\ DOMAIN rows \subseteq DOMAIN rows'
      /\ Written(r.kept, rows')
      /\ \A k \in DOMAIN rows' : rows'[k] \in Nat
      /\ \A j \in JobIds : First(j) => Older(j, rows', lastExported)
  BY <1>1, <1>2, RowsGrow DEF Written
<1>5. CodesInv' /\ identified' = identified /\ missed' = missed
  BY <1>2, CodesKept
<1>6. DbTypeOK'
  BY <1>2, <1>4 DEF DbTypeOK, ExportInv, TypeOK, boundVars
<1>7. DbGrows
  <2>1. Tables(balances, lastExported, latestHeight, attemptsMade, stalls)
    BY TablesTyped DEF ExportInv
  <2> QED
    BY <1>2, <1>4, <1>5, <2>1 DEF DbGrows, Grown, Tables, bullVars
<1>8. StageAfter(r) => StageAfter(s)
  <2>1. s.job = r.job /\ s.stage["bank"] = r.stage["bank"]
    BY <1>3, StagesOf DEF HandlerMoves, Handlers
  <2> HIDE DEF s
  <2> QED
    BY <1>3, <1>4, <2>1 DEF StageBefore, StageAfter, StageOK, KeptOK, Handlers
<1>9. Brought(balances')
  BY <1>2 DEF ExportInv, BalanceInv
<1> HIDE DEF s
<1> QED
  BY <1>2, <1>3, <1>4, <1>5, <1>6, <1>7, <1>8, <1>9, HandlerKeeps DEF Handlers

\* bank's first stage: history and balances are written.
LEMMA WriteBalancesKeeps ==
  ASSUME ExportInv, NEW r \in runs, WriteBalances(r)
  PROVE  ExportInv'
<1> DEFINE s == Moved(r, "bank", "cursor")
<1>1. r.job \in JobIds /\ ItemsOf(r.job, "bank") \subseteq Jobs[r.job] /\ History(r.job) \subseteq Jobs[r.job]
  BY ItemTypes DEF ExportInv, TypeOK, Run, Handlers
<1>2. /\ rows' = RowsWith(History(r.job))
      /\ balances' = BalancesWith(ItemsOf(r.job, "bank"))
      /\ UNCHANGED <<added, bullVars, codeVars, lastExported, latestHeight, accountQueued, notified, boundVars>>
      /\ r.stage["bank"] = "write" /\ Move(r, "bank", "cursor")
  BY DEF WriteBalances
<1>3. HandlerMoves(r, s, "bank") /\ s.stage["bank"] = "cursor" /\ s.kept = r.kept
  BY <1>2, MoveMoves DEF Handlers, Stages, Idle
<1>4. /\ DOMAIN rows \subseteq DOMAIN rows'
      /\ \A x \in History(r.job) : <<x.id, x.height>> \in DOMAIN rows'
      /\ \A k \in DOMAIN rows' : rows'[k] \in Nat
      /\ \A j \in JobIds : First(j) => Older(j, rows', lastExported)
  BY <1>1, <1>2, RowsGrow
<1>5. /\ \A id \in DOMAIN balances :
           id \in DOMAIN balances' /\ balances'[id].height >= balances[id].height
      /\ \A x \in ItemsOf(r.job, "bank") :
           x.id \in DOMAIN balances' /\ balances'[x.id].height >= x.height
      /\ \A id \in DOMAIN balances' : balances'[id] \in [height : Nat, n : Nat]
      /\ Brought(balances')
  BY <1>1, <1>2, BalancesGrow
<1>6. DbTypeOK'
  BY <1>2, <1>4, <1>5 DEF DbTypeOK, ExportInv, TypeOK, boundVars
<1>9. CodesInv' /\ identified' = identified /\ missed' = missed
  BY <1>2, CodesKept
<1>7. DbGrows
  <2>1. Tables(balances, lastExported, latestHeight, attemptsMade, stalls)
    BY TablesTyped DEF ExportInv
  <2> QED
    BY <1>2, <1>4, <1>5, <1>9, <2>1 DEF DbGrows, Grown, Tables, bullVars
<1>8. StageAfter(r) => StageAfter(s)
  <2>1. s.job = r.job /\ s.stage["wasm"] = r.stage["wasm"]
    BY <1>3, StagesOf DEF HandlerMoves, Handlers
  <2>2. BankWritten(r.job, rows', balances')
    BY <1>4, <1>5 DEF BankWritten
  <2> HIDE DEF s
  <2> QED
    BY <1>3, <2>1, <2>2 DEF StageBefore, StageAfter, StageOK, KeptOK, Handlers
<1> HIDE DEF s
<1> QED
  BY <1>2, <1>3, <1>4, <1>5, <1>6, <1>7, <1>8, <1>9, HandlerKeeps DEF Handlers

\* Account webhooks are queued for every event that was kept, or the job was
\* rejected or put back before and a newer block was exported.
LEMMA QueueAccountWebhooksKeeps ==
  ASSUME ExportInv, NEW r \in runs, QueueAccountWebhooks(r)
  PROVE  ExportInv'
<1> DEFINE s == Moved(r, "wasm", "cursor")
<1>1. r.job \in JobIds /\ r.kept \subseteq Jobs[r.job] /\ KeptOK(r, identified, missed) /\ Jobs[r.job] \subseteq Item
  BY KeptItems
<1>2. /\ accountQueued' = accountQueued \cup Unsent(r)
      /\ UNCHANGED <<added, bullVars, codeVars, rows, balances, lastExported, latestHeight, notified, boundVars>>
      /\ r.stage["wasm"] = "account" /\ Move(r, "wasm", "cursor")
  BY DEF QueueAccountWebhooks
<1>3. HandlerMoves(r, s, "wasm") /\ s.stage["wasm"] = "cursor" /\ s.kept = r.kept
  BY <1>2, MoveMoves DEF Handlers, Stages, Idle
<1>4. CodesInv' /\ identified' = identified /\ missed' = missed
  BY <1>2, CodesKept
<1>5. AccountsQueued(r.job, accountQueued', attemptsMade, stalls, lastExported, identified, missed)
  <2>1. SUFFICES ASSUME NEW x \in r.kept, x \notin Unsent(r)
                 PROVE  /\ attemptsMade[r.job] > 0 \/ stalls[r.job] > 0
                        /\ lastExported["wasm"] > x.height
    BY <1>1, <1>2 DEF AccountsQueued, KeptOK
  <2>2. /\ x \in Jobs[r.job] /\ x.height \in Nat /\ lastExported["wasm"] \in Nat
        /\ attemptsMade[r.job] \in Nat /\ stalls[r.job] \in Nat
    BY <1>1, ItemTypes, TablesTyped DEF ExportInv, Tables, Handlers
  <2>3. lastExported["wasm"] > x.height
    BY <2>1, <2>2 DEF Unsent
  <2>4. ASSUME attemptsMade[r.job] = 0, stalls[r.job] = 0
        PROVE  FALSE
    <3>1. First(r.job)
      BY <2>4, FirstAttempt
    <3>2. lastExported["wasm"] <= x.height
      BY <1>1, <2>2, <3>1 DEF ExportInv, OlderInv, Older, Handlers
    <3> QED
      BY <2>2, <2>3, <3>2
  <2> QED
    BY <2>2, <2>3, <2>4
<1>6. DbTypeOK'
  <2>1. Unsent(r) \subseteq Item
    BY <1>1 DEF Unsent
  <2> QED
    BY <1>2, <2>1 DEF DbTypeOK, ExportInv, TypeOK, boundVars
<1>7. DbGrows
  <2>1. Tables(balances, lastExported, latestHeight, attemptsMade, stalls)
    BY TablesTyped DEF ExportInv
  <2> QED
    BY <1>2, <1>4, <2>1 DEF DbGrows, Grown, Tables, bullVars
<1>8. StageAfter(r) => StageAfter(s)
  <2>1. s.job = r.job /\ s.stage["bank"] = r.stage["bank"]
    BY <1>3, StagesOf DEF HandlerMoves, Handlers
  <2>2. AccountsQueued(r.job, accountQueued', attemptsMade', stalls', lastExported', identified', missed')
    BY <1>2, <1>5, <1>4 DEF bullVars
  <2> HIDE DEF s
  <2> QED
    BY <1>2, <1>3, <2>1, <2>2 DEF StageBefore, StageAfter, StageOK, KeptOK, Handlers
<1>9. Brought(balances') /\ \A j \in JobIds : First(j) => Older(j, rows', lastExported')
  BY <1>2 DEF ExportInv, BalanceInv, OlderInv
<1> HIDE DEF s
<1> QED
  BY <1>3, <1>6, <1>7, <1>8, <1>4, <1>9, HandlerKeeps DEF Handlers

\* The cursors move to the job's block, unless they are past it.
LEMMA MoveCursorKeeps ==
  ASSUME ExportInv, NEW r \in runs, NEW h \in Handlers, MoveCursor(r, h)
  PROVE  ExportInv'
<1> DEFINE s == Moved(r, h, "notify")
           top == HeightOf(r.job)
<1>1. r.job \in JobIds /\ ItemsOf(r.job, h) \subseteq Jobs[r.job]
  BY ItemTypes DEF ExportInv, TypeOK, Run
<1>2. /\ latestHeight' = Greatest(latestHeight, top)
      /\ lastExported' = [lastExported EXCEPT ![h] = Greatest(lastExported[h], top)]
      /\ UNCHANGED <<added, bullVars, codeVars, rows, balances, accountQueued, notified, boundVars>>
      /\ r.stage[h] = "cursor" /\ Move(r, h, "notify")
  BY DEF MoveCursor
<1>3. HandlerMoves(r, s, h) /\ s.stage[h] = "notify" /\ s.kept = r.kept
  BY <1>2, MoveMoves DEF Handlers, Stages, Idle
<1>4. PICK y \in ItemsOf(r.job, h) : TRUE
  BY <1>2 DEF ExportInv, RunInv, Idle
<1>5. \A x \in Jobs[r.job] : x.height = top
  BY <1>1, OneBlock
<1>6. top \in Nat
  BY <1>1, <1>4, <1>5, ItemTypes
<1>7. latestHeight \in Nat /\ lastExported \in [Handlers -> Nat]
  BY DEF ExportInv, TypeOK
<1> HIDE DEF top, s
<1>8. /\ Greatest(latestHeight, top) \in Nat
      /\ Greatest(latestHeight, top) >= latestHeight /\ Greatest(latestHeight, top) >= top
  BY <1>6, <1>7 DEF Greatest
<1>9. /\ Greatest(lastExported[h], top) \in Nat
      /\ Greatest(lastExported[h], top) >= lastExported[h] /\ Greatest(lastExported[h], top) >= top
  BY <1>6, <1>7 DEF Greatest
<1>10. DbTypeOK'
  <2>1. latestHeight' \in Nat /\ lastExported' \in [Handlers -> Nat]
    BY <1>2, <1>7, <1>8, <1>9
  <2> QED
    BY <1>2, <2>1 DEF DbTypeOK, ExportInv, TypeOK, boundVars
<1>15. CodesInv' /\ identified' = identified /\ missed' = missed
  BY <1>2, CodesKept
<1>11. DbGrows
  <2>1. Tables(balances, lastExported, latestHeight, attemptsMade, stalls)
    BY TablesTyped DEF ExportInv
  <2>2. \A g \in Handlers : lastExported'[g] >= lastExported[g]
    BY <1>2, <1>7, <1>9
  <2>3. latestHeight' >= latestHeight
    BY <1>2, <1>8
  <2> QED
    BY <1>2, <1>15, <2>1, <2>2, <2>3 DEF DbGrows, Grown, Tables, bullVars
<1>12. StageAfter(r) => StageAfter(s)
  <2>1. /\ s.job = r.job
        /\ h = "wasm" => s.stage["bank"] = r.stage["bank"]
        /\ h = "bank" => s.stage["wasm"] = r.stage["wasm"]
    BY <1>3, StagesOf DEF HandlerMoves
  <2>2. lastExported'[h] = Greatest(lastExported[h], top)
    BY <1>2, <1>7
  <2>3. CursorMoved(r.job, h, lastExported', latestHeight')
    BY <1>1, <1>2, <1>5, <1>8, <1>9, <2>2 DEF CursorMoved
  <2> QED
    BY <1>2, <1>3, <2>1, <2>3 DEF StageBefore, StageAfter, StageOK, KeptOK, Handlers
<1>13. \A j \in JobIds : First(j) => Older(j, rows', lastExported')
  <2>1. SUFFICES ASSUME NEW j \in JobIds, First(j), NEW x \in Jobs[j]
                 PROVE  \A g \in Handlers : lastExported'[g] <= x.height
    BY <1>2 DEF Older, ExportInv, OlderInv
  <2>2. /\ \A g \in Handlers : lastExported[g] <= x.height
        /\ x.height \in Nat
    BY <2>1, ItemTypes DEF ExportInv, OlderInv, Older
  <2>3. r.job <= j
    BY <2>1, TakenBefore
  <2>4. top <= x.height
    BY <1>1, <1>4, <1>5, <2>3, JobsInOrder
  <2>5. Greatest(lastExported[h], top) <= x.height
    BY <2>2, <2>4 DEF Greatest
  <2> QED
    BY <1>2, <1>7, <2>2, <2>5
<1>14. Brought(balances')
  BY <1>2 DEF ExportInv, BalanceInv
<1> QED
  BY <1>3, <1>10, <1>11, <1>12, <1>13, <1>14, <1>15, HandlerKeeps

\* Configured webhooks are queued, or their error is logged.
LEMMA NotifyKeeps ==
  ASSUME ExportInv, NEW r \in runs, NEW h \in Handlers, Notify(r, h)
  PROVE  ExportInv'
<1> DEFINE s == Moved(r, h, "done")
<1>1. Exported(r, h) \subseteq Item
  BY KeptItems, ItemTypes DEF Exported
<1>2. UNCHANGED <<added, bullVars, codeVars, dbVars, timeouts, crashes>> /\ r.stage[h] = "notify" /\ Move(r, h, "done")
  BY DEF Notify
<1>3. HandlerMoves(r, s, h) /\ s.stage[h] = "done" /\ s.kept = r.kept
  BY <1>2, MoveMoves DEF Handlers, Stages, Idle
<1>4. DbTypeOK'
  <2>1. notified' \subseteq Item
    BY <1>1 DEF Notify, ExportInv, TypeOK
  <2>2. failures' \in 0..MaxFailures
    BY ExportQueueAssumption DEF Notify, ExportInv, TypeOK
  <2> QED
    BY <1>2, <2>1, <2>2 DEF DbTypeOK, ExportInv, TypeOK, dbVars
<1>8. CodesInv' /\ identified' = identified /\ missed' = missed
  BY <1>2, CodesKept
<1>5. DbGrows
  BY <1>2, <1>8, NothingGrows DEF ExportInv, bullVars
<1>6. StageAfter(r) => StageAfter(s)
  <2>1. /\ s.job = r.job
        /\ h = "wasm" => s.stage["bank"] = r.stage["bank"]
        /\ h = "bank" => s.stage["wasm"] = r.stage["wasm"]
    BY <1>3, StagesOf DEF HandlerMoves
  <2> HIDE DEF s
  <2> QED
    BY <1>2, <1>3, <2>1 DEF StageBefore, StageAfter, StageOK, KeptOK, Handlers
<1>7. Brought(balances') /\ \A j \in JobIds : First(j) => Older(j, rows', lastExported')
  BY <1>2 DEF ExportInv, BalanceInv, OlderInv, dbVars
<1> HIDE DEF s
<1> QED
  BY <1>3, <1>4, <1>5, <1>6, <1>7, <1>8, HandlerKeeps

\* A handler that has failed, or tries again, has done nothing that a stage says.
LEMMA ThrownStage ==
  ASSUME NEW r, NEW s, NEW h \in Handlers, SameCall(r, s, h), KeptOK(s, identified', missed'),
         \/ s.stage[h] \in {"codes", "write", "failed"}
         \/ s.stage[h] = "done" /\ ItemsOf(r.job, h) = {} /\ (h = "bank" => History(r.job) = {})
  PROVE  StageAfter(r) => StageAfter(s)
<1>1. CASE s.stage[h] \in {"codes", "write", "failed"}
  BY <1>1, StagesOf DEF StageBefore, StageAfter, StageOK, Handlers
<1>2. CASE h = "wasm" /\ s.stage[h] = "done" /\ ItemsOf(r.job, h) = {}
  <2>1. s.job = r.job /\ s.kept = {} /\ s.stage["bank"] = r.stage["bank"]
    BY <1>2, StagesOf DEF KeptOK
  <2>2. /\ Written(s.kept, rows')
        /\ CursorMoved(r.job, "wasm", lastExported', latestHeight')
        /\ AccountsQueued(r.job, accountQueued', attemptsMade', stalls', lastExported', identified', missed')
    BY <1>2, <2>1 DEF Written, CursorMoved, AccountsQueued
  <2> QED
    BY <1>2, <2>1, <2>2 DEF StageBefore, StageAfter, StageOK, Handlers
<1>3. CASE h = "bank" /\ s.stage[h] = "done" /\ ItemsOf(r.job, h) = {} /\ History(r.job) = {}
  <2>1. s.job = r.job /\ s.kept = r.kept /\ s.stage["wasm"] = r.stage["wasm"]
    BY <1>3, StagesOf
  <2>2. BankWritten(r.job, rows', balances') /\ CursorMoved(r.job, "bank", lastExported', latestHeight')
    BY <1>3 DEF BankWritten, CursorMoved
  <2> QED
    BY <1>3, <2>1, <2>2 DEF StageBefore, StageAfter, StageOK, Handlers
<1> QED
  BY <1>1, <1>2, <1>3 DEF Handlers

\* A job without bank items has no balances whose history is kept.
LEMMA NoHistory ==
  ASSUME NEW j \in JobIds, ItemsOf(j, "bank") = {}
  PROVE  History(j) = {}
BY ExportQueueAssumption DEF ItemsOf, History

\* A handler's call fails, after one of bank's two writes perhaps.
LEMMA ThrowsKeeps ==
  ASSUME ExportInv, NEW r \in runs, NEW h \in Handlers, Throws(r, h)
  PROVE  ExportInv'
<1>1. /\ r \in Run /\ r.job \in JobIds /\ KeptOK(r, identified, missed)
      /\ History(r.job) \subseteq Jobs[r.job] /\ ItemsOf(r.job, "bank") \subseteq Jobs[r.job]
      /\ ItemsOf(r.job, "wasm") \subseteq Item /\ r.kept \subseteq Item
  BY KeptItems, ItemTypes DEF ExportInv, TypeOK, Handlers
<1>2. /\ UNCHANGED <<added, bullVars, unfound, missed, lastExported, latestHeight, accountQueued, notified,
                     timeouts, crashes>>
      /\ r.stage[h] \in {"codes", "write", "account", "cursor"}
      /\ failures < MaxFailures /\ failures' = failures + 1
      /\ PartlyStored(r, h) /\ PartlyWritten(r, h)
  BY DEF Throws
<1>3. identified \subseteq identified' /\ missed' = missed /\ CodesInv'
  BY <1>2 DEF PartlyStored, ExportInv, CodesInv
<1>4. ASSUME NEW s, s.kept = r.kept \/ s.kept = ItemsOf(r.job, "wasm"), s.job = r.job
      PROVE  KeptOK(s, identified', missed')
  <2>1. \A x : MayMiss(x, identified, missed) => MayMiss(x, identified', missed')
    BY <1>3 DEF MayMiss
  <2> QED
    BY <1>1, <1>4, <2>1 DEF KeptOK
<1>5. PICK s :
        /\ HandlerMoves(r, s, h) /\ KeptOK(s, identified', missed')
        /\ \/ s.stage[h] \in {"codes", "write", "failed"}
           \/ s.stage[h] = "done" /\ ItemsOf(r.job, h) = {}
  <2>1. CASE r.try[h] < Tries
    <3>1. TryAgain(r, h)
      BY <2>1 DEF Throws
    <3>2. PICK items \in {r.kept, ItemsOf(r.job, "wasm")} :
            runs' = (runs \ {r}) \cup {TriedAgain(r, h, items)}
      BY <3>1 DEF TryAgain, TriedAgain
    <3> DEFINE s == TriedAgain(r, h, items)
    <3>3. /\ SameCall(r, s, h) /\ s.stage[h] = FirstStage(r.job, h)
          /\ h = "wasm" => s.kept = items
      BY <1>1, <2>1, TryKeepsCall
    <3>4. /\ FirstStage(r.job, h) \in {"codes", "write"} \/ (FirstStage(r.job, h) = "done" /\ ItemsOf(r.job, h) = {})
          /\ ItemsOf(r.job, h) = {} => FirstStage(r.job, h) \in Idle
      BY FirstStages
    <3> HIDE DEF s
    <3>5. s.job = r.job /\ (s.kept = r.kept \/ s.kept = items)
      BY <3>3, StagesOf DEF Handlers
    <3>6. KeptOK(s, identified', missed')
      BY <1>4, <3>5
    <3>7. HandlerMoves(r, s, h)
      BY <1>2, <3>2, <3>3, <3>4 DEF HandlerMoves, s
    <3> QED
      BY <3>3, <3>4, <3>6, <3>7
  <2>2. CASE ~(r.try[h] < Tries)
    <3>1. Move(r, h, "failed")
      BY <2>2 DEF Throws
    <3>2. /\ HandlerMoves(r, Moved(r, h, "failed"), h) /\ Moved(r, h, "failed").stage[h] = "failed"
          /\ Moved(r, h, "failed").kept = r.kept
      BY <1>2, <3>1, MoveMoves DEF Stages, Idle
    <3>3. KeptOK(Moved(r, h, "failed"), identified', missed')
      BY <1>4, <3>2 DEF HandlerMoves, SameCall
    <3> QED
      BY <3>2, <3>3
  <2> QED
    BY <2>1, <2>2
<1>6. /\ DOMAIN rows \subseteq DOMAIN rows'
      /\ \A k \in DOMAIN rows' : rows'[k] \in Nat
      /\ \A j \in JobIds : First(j) => Older(j, rows', lastExported)
  <2>1. CASE rows' = rows
    BY <2>1 DEF ExportInv, TypeOK, OlderInv
  <2>2. CASE rows' = RowsWith(History(r.job))
    BY <1>1, <2>2, RowsGrow
  <2> QED
    BY <1>2, <2>1, <2>2 DEF PartlyWritten
<1>7. /\ \A id \in DOMAIN balances :
           id \in DOMAIN balances' /\ balances'[id].height >= balances[id].height
      /\ \A id \in DOMAIN balances' : balances'[id] \in [height : Nat, n : Nat]
      /\ Brought(balances')
  <2>1. CASE balances' = balances
    BY <2>1 DEF ExportInv, TypeOK, BalanceInv
  <2>2. CASE balances' = BalancesWith(ItemsOf(r.job, "bank"))
    BY <1>1, <2>2, BalancesGrow
  <2> QED
    BY <1>2, <2>1, <2>2 DEF PartlyWritten
<1>8. DbTypeOK'
  <2>1. failures' \in 0..MaxFailures
    BY <1>2, ExportQueueAssumption DEF ExportInv, TypeOK
  <2> QED
    BY <1>2, <1>6, <1>7, <2>1 DEF DbTypeOK, ExportInv, TypeOK
<1>9. DbGrows
  <2>1. Tables(balances, lastExported, latestHeight, attemptsMade, stalls)
    BY TablesTyped DEF ExportInv
  <2> QED
    BY <1>2, <1>3, <1>6, <1>7, <2>1 DEF DbGrows, Grown, Tables, bullVars
<1>10. StageAfter(r) => StageAfter(s)
  <2>1. h = "bank" /\ ItemsOf(r.job, h) = {} => History(r.job) = {}
    BY <1>1, NoHistory
  <2> QED
    BY <1>5, <2>1, ThrownStage DEF HandlerMoves
<1> QED
  BY <1>2, <1>3, <1>5, <1>6, <1>7, <1>8, <1>9, <1>10, HandlerKeeps

\* Every step of a handler keeps the invariant.
LEMMA HandlerStepKeeps ==
  ASSUME ExportInv, NEW r \in runs, HandlerStep(r)
  PROVE  ExportInv'
BY ReadCodesKeeps, WriteRowsKeeps, WriteBalancesKeeps, QueueAccountWebhooksKeeps, MoveCursorKeeps, NotifyKeeps,
   ThrowsKeeps DEF HandlerStep

-------------------------------------------------------------------------------
\* The steps of the queue.

\* A step of the queue that leaves the tables alone keeps what is known of them.
LEMMA QueueKeeps ==
  ASSUME ExportInv, TypeOK', PlaceInv', RunInv', OrderInv', UNCHANGED <<dbVars, identified, missed>>,
         CodesInv',
         \A j \in JobIds : attemptsMade'[j] >= attemptsMade[j] /\ stalls'[j] >= stalls[j],
         \A j \in JobIds : First(j)' => First(j),
         \A r \in runs' \ runs :
           StageOK(r, rows, balances, lastExported, latestHeight, accountQueued, attemptsMade', stalls', identified, missed),
         \A j \in completed' \ completed :
           Handled(j, rows, balances, lastExported, latestHeight, accountQueued, attemptsMade', stalls', identified, missed)
  PROVE  ExportInv'
<1>1. UNCHANGED <<rows, balances, lastExported, latestHeight, accountQueued, identified, missed>>
  BY DEF dbVars
<1>2. DbGrows
  <2>1. Tables(balances, lastExported, latestHeight, attemptsMade, stalls)
    BY TablesTyped DEF ExportInv
  <2> QED
    BY <1>1, <2>1 DEF DbGrows, Grown, Tables
<1>3. /\ \A r \in runs :
           StageAfter(r)
      /\ \A j \in completed :
           HandledAfter(j)
  BY <1>2, StagesStay DEF ExportInv, StageInv
<1>4. StageInv' /\ CompletedInv'
  BY <1>1, <1>3 DEF StageInv, CompletedInv, StageBefore, StageAfter, HandledBefore, HandledAfter
<1>5. OlderInv' /\ BalanceInv'
  BY <1>1 DEF ExportInv, OlderInv, BalanceInv
<1> QED
  BY <1>4, <1>5 DEF ExportInv

\* The elements of a sequence with one more at its end, without its first, and
\* with one more in front.
LEMMA AtEnd ==
  ASSUME NEW S, NEW s \in Seq(S), NEW e \in S
  PROVE  /\ Append(s, e) \in Seq(S) /\ Len(s) \in Nat
         /\ DOMAIN s = 1..Len(s) /\ DOMAIN Append(s, e) = 1..(Len(s) + 1)
         /\ \A p \in 1..Len(s) : Append(s, e)[p] = s[p]
         /\ Append(s, e)[Len(s) + 1] = e
BY AppendProperties

LEMMA WithoutFirst ==
  ASSUME NEW S, NEW s \in Seq(S), s # <<>>
  PROVE  /\ Tail(s) \in Seq(S) /\ Len(s) \in Nat \ {0} /\ DOMAIN s = 1..Len(s)
         /\ DOMAIN Tail(s) = 1..(Len(s) - 1)
         /\ \A p \in 1..(Len(s) - 1) : Tail(s)[p] = s[p + 1]
         /\ Head(s) = s[1] /\ Head(s) \in S
BY HeadTailProperties, EmptySeq

LEMMA InFront ==
  ASSUME NEW S, NEW s \in Seq(S), NEW e \in S
  PROVE  /\ <<e>> \o s \in Seq(S) /\ Len(s) \in Nat
         /\ DOMAIN s = 1..Len(s) /\ DOMAIN (<<e>> \o s) = 1..(Len(s) + 1)
         /\ (<<e>> \o s)[1] = e
         /\ \A p \in 1..Len(s) : (<<e>> \o s)[p + 1] = s[p]
<1>1. <<e>> \in Seq(S) /\ Len(<<e>>) = 1 /\ <<e>>[1] = e
  OBVIOUS
<1>2. Len(s) \in Nat /\ DOMAIN s = 1..Len(s)
  OBVIOUS
<1>3. <<e>> \o s \in Seq(S) /\ Len(<<e>> \o s) = 1 + Len(s)
  BY <1>1, ConcatProperties
<1>4. \A i \in 1..(1 + Len(s)) : (<<e>> \o s)[i] = IF i <= 1 THEN <<e>>[i] ELSE s[i - 1]
  BY <1>1, <1>3, ConcatProperties
<1>5. (<<e>> \o s)[1] = e
  BY <1>1, <1>2, <1>4
<1>6. ASSUME NEW p \in 1..Len(s)
      PROVE  (<<e>> \o s)[p + 1] = s[p]
  <2>1. p + 1 \in 1..(1 + Len(s)) /\ ~(p + 1 <= 1) /\ (p + 1) - 1 = p
    BY <1>2
  <2> QED
    BY <1>4, <2>1
<1> QED
  BY <1>2, <1>3, <1>5, <1>6

\* The jobs that wait after one more is appended, and their places.
LEMMA Appended ==
  ASSUME ExportInv, NEW e \in JobIds, waiting' = Append(waiting, e)
  PROVE  /\ waiting' \in Seq(JobIds) /\ Len(waiting) \in Nat /\ DOMAIN waiting = 1..Len(waiting)
         /\ DOMAIN waiting' = 1..(Len(waiting) + 1)
         /\ \A p \in DOMAIN waiting' :
              \/ p \in DOMAIN waiting /\ waiting'[p] = waiting[p]
              \/ p = Len(waiting) + 1 /\ waiting'[p] = e
<1>1. waiting \in Seq(JobIds)
  BY DEF ExportInv, TypeOK
<1>2. \A p \in 1..(Len(waiting) + 1) : p \in 1..Len(waiting) \/ p = Len(waiting) + 1
  BY <1>1
<1> QED
  BY <1>1, <1>2, AtEnd

\* Numbers in the queue.
LEMMA Numbers ==
  ASSUME ExportInv
  PROVE  /\ active \in Nat /\ added \in Nat /\ JobIds \subseteq Nat /\ 0 \notin JobIds
         /\ \A p \in DOMAIN waiting : waiting[p] \in JobIds
         /\ \A j \in JobIds : attemptsMade[j] \in Nat /\ stalls[j] \in Nat
         /\ \A r \in runs : r.job \in JobIds /\ r.attempt \in Nat
<1>1. TypeOK
  BY DEF ExportInv
<1>2. JobIds \subseteq Nat /\ 0 \notin JobIds /\ Len(Jobs) \in Nat
  BY ItemTypes
<1>3. active \in Nat /\ added \in Nat
  BY <1>1, <1>2 DEF TypeOK
<1>4. \A p \in DOMAIN waiting : waiting[p] \in JobIds
  BY <1>1 DEF TypeOK
<1>5. \A j \in JobIds : attemptsMade[j] \in Nat /\ stalls[j] \in Nat
  BY <1>1, TablesTyped DEF Tables
<1>6. \A r \in runs : r.job \in JobIds /\ r.attempt \in Nat
  BY <1>1, ExportQueueAssumption DEF TypeOK, Run
<1> QED
  BY <1>2, <1>3, <1>4, <1>5, <1>6

\* The tracer adds a job.
LEMMA AddJobKeeps ==
  ASSUME ExportInv, AddJob
  PROVE  ExportInv'
<1> DEFINE e == added + 1
<1>1. /\ added < Len(Jobs) /\ added' = e /\ waiting' = Append(waiting, e)
      /\ UNCHANGED <<delayed, active, attemptsMade, completed, failed, stalled, stalls, runs, codeVars, dbVars, notified, boundVars>>
  BY DEF AddJob
<1>2. e \in JobIds /\ added \in Nat /\ e > added /\ e \in 0..Len(Jobs)
  BY <1>1, Numbers, ItemTypes
<1>3. /\ waiting' \in Seq(JobIds) /\ Len(waiting) \in Nat /\ DOMAIN waiting = 1..Len(waiting)
      /\ DOMAIN waiting' = 1..(Len(waiting) + 1)
      /\ \A p \in DOMAIN waiting' :
           \/ p \in DOMAIN waiting /\ waiting'[p] = waiting[p]
           \/ p = Len(waiting) + 1 /\ waiting'[p] = e
  BY <1>1, <1>2, Appended
<1>4. \A p \in DOMAIN waiting : waiting[p] <= added /\ waiting[p] \in Nat /\ waiting[p] < e
  BY <1>2, Numbers DEF ExportInv, PlaceInv, Left
<1>5. active # e /\ e \notin delayed /\ e \notin stalled /\ attemptsMade[e] = 0 /\ stalls[e] = 0
  BY <1>2, Numbers DEF ExportInv, PlaceInv, Left
<1> HIDE DEF e
<1>6. TypeOK'
  BY <1>1, <1>2, <1>3 DEF ExportInv, TypeOK, dbVars, boundVars
<1>7. PlaceInv'
  <2>1. ASSUME NEW p \in DOMAIN waiting', NEW q \in DOMAIN waiting', waiting'[p] = waiting'[q]
        PROVE  p = q
    BY <1>2, <1>3, <1>4, <2>1 DEF ExportInv, PlaceInv
  <2>2. ASSUME NEW p \in DOMAIN waiting'
        PROVE  /\ waiting'[p] # active /\ waiting'[p] \notin delayed /\ waiting'[p] \notin stalled
               /\ waiting'[p] <= e /\ attemptsMade[waiting'[p]] < Attempts
               /\ stalls[waiting'[p]] <= MaxStalled
    BY <1>2, <1>3, <1>4, <1>5, ExportQueueAssumption DEF ExportInv, PlaceInv, Left, MaxStalled
  <2>3. \A j \in Nat : (Left(j) => j <= e) /\ (j > e => j > added)
    BY <1>2 DEF Left, e
  <2>4. delayed \subseteq Nat /\ stalled \subseteq Nat /\ active \in Nat /\ JobIds \subseteq Nat
    BY Numbers DEF ExportInv, TypeOK
  <2>5. \A j \in Nat : Left(j) => Left(j)'
    BY <1>1, <2>3 DEF Left
  <2>6. (\A p \in DOMAIN waiting : Left(waiting[p]))'
    BY <1>1, <2>2 DEF Left
  <2>7. /\ active \notin delayed /\ active \notin stalled
        /\ active # 0 => Left(active)'
        /\ \A j \in delayed : j \notin stalled /\ Left(j)' /\ 0 < attemptsMade[j]
        /\ \A j \in stalled : Left(j)'
        /\ \A j \in JobIds : j > e => attemptsMade[j] = 0 /\ stalls[j] = 0
    <3>1. active # 0 => Left(active)'
      <4>1. active # 0 => /\ active <= added /\ attemptsMade[active] < Attempts /\ stalls[active] <= MaxStalled
        BY DEF ExportInv, PlaceInv, Left
      <4> QED
        BY <1>1, <1>2, <2>4, <4>1 DEF Left, e
    <3> QED
      BY <2>3, <2>4, <2>5, <3>1 DEF ExportInv, PlaceInv
  <2> QED
    BY <1>1, <2>1, <2>2, <2>6, <2>7 DEF PlaceInv
<1>8. RunInv'
  BY <1>1 DEF ExportInv, RunInv
<1>9. \A j \in JobIds : First(j)' => First(j)
  <2>1. ASSUME NEW j \in JobIds, Waits(j)'
        PROVE  Waits(j) \/ j = e
    BY <1>3, <2>1 DEF Waits
  <2>2. ASSUME NEW j \in JobIds, j > e
        PROVE  j > added
    BY <1>2, <2>2, Numbers
  <2> QED
    BY <1>1, <1>2, <2>1, <2>2 DEF First, Fresh
<1>10. OrderInv'
  <2>1. ASSUME NEW j \in JobIds, First(j)'
        PROVE  /\ \A k \in JobIds : k > j => Untouched(k)'
               /\ \A p, q \in DOMAIN waiting' : waiting'[p] = j /\ waiting'[q] > j => q > p
    <3>1. First(j)
      BY <1>9, <2>1
    <3>2. \A k \in JobIds : k > j => Untouched(k)'
      BY <1>1, <3>1 DEF ExportInv, OrderInv, Untouched, Fresh
    <3>3. ASSUME NEW p \in DOMAIN waiting', NEW q \in DOMAIN waiting', waiting'[p] = j, waiting'[q] > j
          PROVE  q > p
      <4>1. CASE q = Len(waiting) + 1 /\ p \in DOMAIN waiting
        BY <1>3, <4>1
      <4>2. CASE q \in DOMAIN waiting /\ waiting'[q] = waiting[q] /\ p \in DOMAIN waiting /\ waiting'[p] = waiting[p]
        BY <3>1, <3>3, <4>2 DEF ExportInv, OrderInv
      <4>3. CASE p = Len(waiting) + 1 /\ waiting'[p] = e
        <5>1. waiting'[q] <= e
          BY <1>2, <1>3, <1>4
        <5>2. waiting'[q] \in Nat
          BY <1>2, <1>3, <1>4, Numbers
        <5> QED
          BY <3>3, <4>3, <5>1, <5>2, <1>2, Numbers
      <4> QED
        BY <1>3, <4>1, <4>2, <4>3
    <3> QED
      BY <3>2, <3>3
  <2> QED
    BY <2>1 DEF OrderInv
<1>11. \A j \in JobIds : attemptsMade'[j] >= attemptsMade[j] /\ stalls'[j] >= stalls[j]
  BY <1>1, Numbers
<1>12. CodesInv' /\ identified' = identified /\ missed' = missed
  BY <1>1, CodesKept
<1> QED
  BY <1>1, <1>6, <1>7, <1>8, <1>9, <1>10, <1>11, <1>12, QueueKeeps

\* The delay of a retry is over.
LEMMA DelayOverKeeps ==
  ASSUME ExportInv, NEW e \in JobIds, DelayOver(e)
  PROVE  ExportInv'
<1>1. /\ e \in delayed /\ delayed' = delayed \ {e} /\ waiting' = Append(waiting, e)
      /\ UNCHANGED <<added, active, attemptsMade, completed, failed, stalled, stalls, runs, codeVars, dbVars, notified, boundVars>>
  BY DEF DelayOver
<1>2. /\ waiting' \in Seq(JobIds) /\ Len(waiting) \in Nat /\ DOMAIN waiting = 1..Len(waiting)
      /\ DOMAIN waiting' = 1..(Len(waiting) + 1)
      /\ \A p \in DOMAIN waiting' :
           \/ p \in DOMAIN waiting /\ waiting'[p] = waiting[p]
           \/ p = Len(waiting) + 1 /\ waiting'[p] = e
  BY <1>1, Appended
<1>3. Left(e) /\ e # active /\ e \notin stalled /\ attemptsMade[e] # 0
  BY <1>1, Numbers DEF ExportInv, PlaceInv
<1>4. TypeOK'
  BY <1>1, <1>2 DEF ExportInv, TypeOK, dbVars, boundVars
<1>5. PlaceInv'
  <2>1. ASSUME NEW p \in DOMAIN waiting', NEW q \in DOMAIN waiting', waiting'[p] = waiting'[q]
        PROVE  p = q
    BY <1>1, <1>2, <2>1 DEF ExportInv, PlaceInv
  <2>2. ASSUME NEW p \in DOMAIN waiting'
        PROVE  /\ waiting'[p] # active /\ waiting'[p] \notin delayed' /\ waiting'[p] \notin stalled
               /\ Left(waiting'[p])
    BY <1>1, <1>2, <1>3 DEF ExportInv, PlaceInv
  <2>3. \A j : Left(j)' <=> Left(j)
    BY <1>1 DEF Left
  <2> QED
    BY <1>1, <2>1, <2>2, <2>3 DEF ExportInv, PlaceInv
<1>6. RunInv'
  BY <1>1 DEF ExportInv, RunInv
<1>7. \A j \in JobIds : First(j)' => First(j)
  <2>1. ASSUME NEW j \in JobIds, Waits(j)'
        PROVE  Waits(j) \/ j = e
    BY <1>2, <2>1 DEF Waits
  <2> QED
    BY <1>1, <1>3, <2>1 DEF First, Fresh
<1>8. OrderInv'
  <2>1. ASSUME NEW j \in JobIds, First(j)'
        PROVE  /\ \A k \in JobIds : k > j => Untouched(k)'
               /\ \A p, q \in DOMAIN waiting' : waiting'[p] = j /\ waiting'[q] > j => q > p
    <3>1. First(j) /\ j # e
      BY <1>1, <1>3, <1>7, <2>1 DEF First, Fresh
    <3>2. \A k \in JobIds : k > j => Untouched(k)'
      BY <1>1, <3>1 DEF ExportInv, OrderInv, Untouched, Fresh
    <3>3. ASSUME NEW p \in DOMAIN waiting', NEW q \in DOMAIN waiting', waiting'[p] = j, waiting'[q] > j
          PROVE  q > p
      <4>1. CASE q = Len(waiting) + 1 /\ p \in DOMAIN waiting
        BY <1>2, <4>1
      <4>2. CASE q \in DOMAIN waiting /\ waiting'[q] = waiting[q] /\ p \in DOMAIN waiting /\ waiting'[p] = waiting[p]
        BY <3>1, <3>3, <4>2 DEF ExportInv, OrderInv
      <4> QED
        BY <1>2, <3>1, <3>3, <4>1, <4>2
    <3> QED
      BY <3>2, <3>3
  <2> QED
    BY <2>1 DEF OrderInv
<1>9. \A j \in JobIds : attemptsMade'[j] >= attemptsMade[j] /\ stalls'[j] >= stalls[j]
  BY <1>1, Numbers
<1>10. CodesInv' /\ identified' = identified /\ missed' = missed
  BY <1>1, CodesKept
<1> QED
  BY <1>1, <1>4, <1>5, <1>6, <1>7, <1>8, <1>9, <1>10, QueueKeeps

\* A new run starts with its handlers' first stages and all state events.
LEMMA NewRunStage ==
  ASSUME ExportInv, NEW j \in JobIds, attemptsMade[j] < Attempts
  PROVE  /\ NewRun(j) \in Run /\ NewRun(j).job = j /\ NewRun(j).attempt = attemptsMade[j] + 1
         /\ \A h \in Handlers : ItemsOf(j, h) = {} => NewRun(j).stage[h] \in Idle
         /\ StageBefore(NewRun(j))
<1> DEFINE stage == [h \in Handlers |-> FirstStage(j, h)]
           try == [h \in Handlers |-> 1]
           kept == ItemsOf(j, "wasm")
<1>1. stage \in [Handlers -> Stages]
  BY FirstStages
<1>2. try \in [Handlers -> 1..Tries]
  BY ExportQueueAssumption
<1>3. attemptsMade[j] + 1 \in 1..Attempts /\ kept \in SUBSET Item
  BY Numbers, ItemTypes, ExportQueueAssumption DEF Handlers
<1>4. NewRun(j) = [job |-> j, attempt |-> attemptsMade[j] + 1, kept |-> kept, stage |-> stage, try |-> try]
  BY DEF NewRun
<1>5. \A h \in Handlers : stage[h] = FirstStage(j, h)
  OBVIOUS
<1> HIDE DEF stage, try, kept
<1>6. /\ NewRun(j) \in Run /\ NewRun(j).job = j /\ NewRun(j).attempt = attemptsMade[j] + 1
      /\ NewRun(j).stage = stage /\ NewRun(j).kept = kept
  BY <1>1, <1>2, <1>3, <1>4 DEF Run
<1>7. \A h \in Handlers : /\ stage[h] \in {"codes", "write"} \/ (stage[h] = "done" /\ ItemsOf(j, h) = {})
                          /\ ItemsOf(j, h) = {} => stage[h] \in Idle
  BY <1>5, FirstStages
<1>8. StageBefore(NewRun(j))
  <2>1. ItemsOf(j, "bank") = {} => History(j) = {}
    BY NoHistory
  <2>2. KeptOK(NewRun(j), identified, missed)
    BY <1>6 DEF KeptOK, kept
  <2>3. ASSUME NEW h \in Handlers, stage[h] \notin {"codes", "write"}
        PROVE  /\ CursorMoved(j, h, lastExported, latestHeight)
               /\ h = "bank" => BankWritten(j, rows, balances)
               /\ h = "wasm" => /\ Written(kept, rows)
                                /\ AccountsQueued(j, accountQueued, attemptsMade, stalls, lastExported, identified, missed)
    BY <1>7, <2>1, <2>3 DEF CursorMoved, BankWritten, Written, AccountsQueued, kept
  <2> QED
    BY <1>6, <2>2, <2>3 DEF StageBefore, StageAfter, StageOK, Handlers
<1> QED
  BY <1>6, <1>7, <1>8

\* The worker takes a job.
LEMMA TakeJobKeeps ==
  ASSUME ExportInv, TakeJob
  PROVE  ExportInv'
<1> DEFINE e == Head(waiting)
           new == NewRun(e)
<1>1. /\ active = 0 /\ waiting # <<>> /\ active' = e /\ waiting' = Tail(waiting) /\ runs' = runs \cup {new}
      /\ UNCHANGED <<added, delayed, attemptsMade, completed, failed, stalled, stalls, codeVars, dbVars, notified, boundVars>>
  BY DEF TakeJob
<1>2. waiting \in Seq(JobIds)
  BY DEF ExportInv, TypeOK
<1>3. /\ waiting' \in Seq(JobIds) /\ Len(waiting) \in Nat \ {0} /\ DOMAIN waiting = 1..Len(waiting)
      /\ DOMAIN waiting' = 1..(Len(waiting) - 1)
      /\ \A p \in 1..(Len(waiting) - 1) : waiting'[p] = waiting[p + 1]
      /\ e = waiting[1] /\ e \in JobIds
  BY <1>1, <1>2, WithoutFirst
<1>4. \A p \in DOMAIN waiting' : p \in Nat /\ p + 1 \in DOMAIN waiting /\ p + 1 # 1 /\ waiting'[p] = waiting[p + 1]
  BY <1>3
<1>5. 1 \in DOMAIN waiting
  BY <1>3
<1> HIDE DEF e
<1>6. Left(e) /\ e <= added /\ attemptsMade[e] < Attempts /\ e \notin delayed /\ e \notin stalled /\ e # active
  BY <1>3, <1>5 DEF ExportInv, PlaceInv, Left
<1>7. \A p \in DOMAIN waiting' : waiting'[p] # e
  BY <1>3, <1>4, <1>5 DEF ExportInv, PlaceInv
<1>8. /\ new \in Run /\ new.job = e /\ new.attempt = attemptsMade[e] + 1
      /\ \A h \in Handlers : ItemsOf(e, h) = {} => new.stage[h] \in Idle
      /\ StageBefore(new)
  BY <1>3, <1>6, NewRunStage
<1> HIDE DEF new
<1>9. TypeOK'
  BY <1>1, <1>3, <1>8 DEF ExportInv, TypeOK, dbVars, boundVars
<1>10. PlaceInv'
  <2>1. ASSUME NEW p \in DOMAIN waiting', NEW q \in DOMAIN waiting', waiting'[p] = waiting'[q]
        PROVE  p = q
    <3>1. p + 1 = q + 1
      BY <1>4, <2>1 DEF ExportInv, PlaceInv
    <3> QED
      BY <1>4, <3>1
  <2>2. ASSUME NEW p \in DOMAIN waiting'
        PROVE  /\ waiting'[p] # e /\ waiting'[p] \notin delayed /\ waiting'[p] \notin stalled
               /\ Left(waiting'[p])
    BY <1>4, <1>7 DEF ExportInv, PlaceInv
  <2>3. \A j : Left(j)' <=> Left(j)
    BY <1>1 DEF Left
  <2> QED
    BY <1>1, <1>6, <2>1, <2>2, <2>3 DEF ExportInv, PlaceInv
<1>11. RunInv'
  <2>1. \A r \in runs : r.attempt <= attemptsMade[r.job] /\ r.job \in JobIds
    BY <1>1, Numbers DEF ExportInv, RunInv
  <2>2. \A r \in runs : r.job = e => r.attempt # attemptsMade[e] + 1
    BY <1>3, <2>1, Numbers
  <2>3. ASSUME NEW r \in runs', NEW s \in runs', r.job = s.job, r.attempt = s.attempt
        PROVE  r = s
    BY <1>1, <1>8, <2>2, <2>3 DEF ExportInv, RunInv
  <2>4. ASSUME NEW r \in runs'
        PROVE  /\ r.attempt <= attemptsMade[r.job] + 1
               /\ r.attempt = attemptsMade[r.job] + 1 => r.job = e
               /\ \A h \in Handlers : ItemsOf(r.job, h) = {} => r.stage[h] \in Idle
    <3>1. CASE r \in runs
      BY <2>1, <3>1, Numbers DEF ExportInv, RunInv
    <3>2. CASE r = new
      BY <1>3, <1>8, <3>2, Numbers
    <3> QED
      BY <1>1, <3>1, <3>2
  <2> QED
    BY <1>1, <2>3, <2>4 DEF RunInv
<1>12. \A j \in JobIds : First(j)' => First(j)
  BY <1>1, <1>3, <1>4, <1>5 DEF First, Fresh, Waits
<1>13. OrderInv'
  <2>1. ASSUME NEW j \in JobIds, First(j)'
        PROVE  /\ \A k \in JobIds : k > j => Untouched(k)'
               /\ \A p, q \in DOMAIN waiting' : waiting'[p] = j /\ waiting'[q] > j => q > p
    <3>1. First(j)
      BY <1>12, <2>1
    <3>2. ~(e > j)
      <4>1. CASE j = e
        BY <1>3, <4>1, Numbers
      <4>2. CASE j > added
        BY <1>3, <1>6, <4>2, Numbers
      <4>3. ASSUME NEW p \in DOMAIN waiting', waiting'[p] = j
            PROVE  ~(e > j)
        <5>1. e > j => 1 > p + 1
          BY <1>3, <1>4, <1>5, <3>1, <4>3 DEF ExportInv, OrderInv
        <5> QED
          BY <1>4, <5>1
      <4> QED
        BY <1>1, <2>1, <4>1, <4>2, <4>3 DEF First, Waits
    <3>3. ASSUME NEW k \in JobIds, k > j
          PROVE  Untouched(k)'
      <4>1. Untouched(k) /\ k # e
        BY <3>1, <3>2, <3>3 DEF ExportInv, OrderInv
      <4> QED
        BY <1>1, <1>8, <4>1 DEF Untouched, Fresh
    <3>4. ASSUME NEW p \in DOMAIN waiting', NEW q \in DOMAIN waiting', waiting'[p] = j, waiting'[q] > j
          PROVE  q > p
      <4>1. q + 1 > p + 1
        BY <1>4, <3>1, <3>4 DEF ExportInv, OrderInv
      <4> QED
        BY <1>4, <4>1
    <3> QED
      BY <3>3, <3>4
  <2> QED
    BY <2>1 DEF OrderInv
<1>14. \A j \in JobIds : attemptsMade'[j] >= attemptsMade[j] /\ stalls'[j] >= stalls[j]
  BY <1>1, Numbers
<1>15. CodesInv' /\ identified' = identified /\ missed' = missed
  BY <1>1, CodesKept
<1> QED
  BY <1>1, <1>8, <1>9, <1>10, <1>11, <1>12, <1>13, <1>14, <1>15, QueueKeeps DEF StageBefore

\* The process dies: its runs are gone and its job is locked.
LEMMA CrashKeeps ==
  ASSUME ExportInv, Crash
  PROVE  ExportInv'
<1>1. /\ crashes < MaxCrashes /\ crashes' = crashes + 1 /\ runs' = {} /\ active' = 0
      /\ stalled' = stalled \cup ({active} \ {0}) /\ unfound' = {}
      /\ UNCHANGED <<added, waiting, delayed, attemptsMade, completed, failed, stalls, identified, missed,
                     dbVars, notified, failures, timeouts>>
  BY DEF Crash
<1>2. active \in JobIds \cup {0} /\ stalled \subseteq JobIds /\ stalled' \subseteq JobIds /\ delayed \subseteq JobIds
  BY <1>1 DEF ExportInv, TypeOK
<1>3. TypeOK'
  <2>1. crashes' \in 0..MaxCrashes
    BY <1>1, ExportQueueAssumption DEF ExportInv, TypeOK
  <2> QED
    BY <1>1, <1>2, <2>1 DEF ExportInv, TypeOK, dbVars
<1>4. RunInv'
  BY <1>1 DEF RunInv
<1>5. PlaceInv'
  <2>1. \A j : Left(j)' <=> Left(j)
    BY <1>1 DEF Left
  <2>2. 0 \notin delayed /\ 0 \notin stalled' /\ \A p \in DOMAIN waiting : waiting[p] # 0
    BY <1>1, <1>2, Numbers
  <2> QED
    BY <1>1, <2>1, <2>2 DEF ExportInv, PlaceInv
<1>6. \A j \in JobIds : First(j)' => First(j)
  BY <1>1, Numbers DEF First, Fresh, Waits
<1>7. OrderInv'
  <2>1. ASSUME NEW j \in JobIds, First(j)'
        PROVE  /\ \A k \in JobIds : k > j => Untouched(k)'
               /\ \A p, q \in DOMAIN waiting : waiting[p] = j /\ waiting[q] > j => q > p
    <3>1. First(j)
      BY <1>6, <2>1
    <3>2. ASSUME NEW k \in JobIds, k > j
          PROVE  Untouched(k)'
      <4>1. Untouched(k)
        BY <3>1, <3>2 DEF ExportInv, OrderInv
      <4> QED
        BY <1>1, <4>1, Numbers DEF Untouched, Fresh
    <3> QED
      BY <3>1, <3>2 DEF ExportInv, OrderInv
  <2> QED
    BY <1>1, <2>1 DEF OrderInv
<1>8. \A j \in JobIds : attemptsMade'[j] >= attemptsMade[j] /\ stalls'[j] >= stalls[j]
  BY <1>1, Numbers
<1>9. CodesInv'
  BY <1>1 DEF CodesInv
<1> QED
  BY <1>1, <1>3, <1>4, <1>5, <1>6, <1>7, <1>8, <1>9, QueueKeeps

\* The queue after a job is put in front of it.
LEMMA PutBack ==
  ASSUME ExportInv, NEW e \in JobIds, waiting' = <<e>> \o waiting
  PROVE  /\ waiting' \in Seq(JobIds)
         /\ \A p \in DOMAIN waiting' :
              \/ p = 1 /\ waiting'[p] = e
              \/ p \in Nat /\ p > 1 /\ p - 1 \in DOMAIN waiting /\ waiting'[p] = waiting[p - 1]
<1>1. waiting \in Seq(JobIds)
  BY DEF ExportInv, TypeOK
<1>2. /\ waiting' \in Seq(JobIds) /\ Len(waiting) \in Nat /\ DOMAIN waiting = 1..Len(waiting)
      /\ DOMAIN waiting' = 1..(Len(waiting) + 1)
      /\ waiting'[1] = e
      /\ \A p \in 1..Len(waiting) : waiting'[p + 1] = waiting[p]
  BY <1>1, InFront
<1>3. ASSUME NEW p \in 1..(Len(waiting) + 1), p # 1
      PROVE  p - 1 \in 1..Len(waiting) /\ (p - 1) + 1 = p /\ p \in Nat /\ p > 1
  BY <1>2, <1>3
<1> QED
  BY <1>2, <1>3

\* The lock of a stalled job has expired: it is put in front, or has failed.
LEMMA FindStalledKeeps ==
  ASSUME ExportInv, NEW e \in JobIds, FindStalled(e)
  PROVE  ExportInv'
<1> DEFINE back == /\ stalls[e] < MaxStalled
                   /\ waiting' = <<e>> \o waiting /\ failed' = failed
           over == waiting' = waiting /\ failed' = failed \cup {e}
<1>1. /\ e \in stalled /\ stalled' = stalled \ {e}
      /\ stalls' = [stalls EXCEPT ![e] = stalls[e] + 1]
      /\ UNCHANGED <<added, delayed, active, attemptsMade, completed, runs, codeVars, dbVars, notified, boundVars>>
      /\ back \/ over
  BY DEF FindStalled
<1>2. /\ Left(e) /\ e # active /\ e \notin delayed /\ e \notin stalled'
      /\ \A p \in DOMAIN waiting : waiting[p] # e
  BY <1>1 DEF ExportInv, PlaceInv
<1>3. /\ stalls \in [JobIds -> 0..MaxStalled + 1] /\ stalls[e] \in Nat /\ stalls[e] <= MaxStalled
      /\ MaxStalled \in Nat
  BY <1>2, Numbers DEF ExportInv, TypeOK, Left, MaxStalled
<1>4. /\ stalls'[e] = stalls[e] + 1 /\ stalls'[e] # 0
      /\ \A j \in JobIds : j # e => stalls'[j] = stalls[j]
      /\ stalls' \in [JobIds -> 0..MaxStalled + 1]
  BY <1>1, <1>3
<1>5. \/ waiting' = waiting
      \/ /\ stalls'[e] <= MaxStalled
         /\ \A p \in DOMAIN waiting' :
              \/ p = 1 /\ waiting'[p] = e
              \/ p \in Nat /\ p > 1 /\ p - 1 \in DOMAIN waiting /\ waiting'[p] = waiting[p - 1]
  BY <1>1, <1>3, <1>4, PutBack
<1>6. waiting' \in Seq(JobIds)
  BY <1>1, PutBack DEF ExportInv, TypeOK
<1>7. TypeOK'
  BY <1>1, <1>4, <1>6 DEF ExportInv, TypeOK, dbVars, boundVars
<1> HIDE DEF back, over
<1>8. ASSUME NEW p \in DOMAIN waiting', waiting'[p] # e
      PROVE  \E q \in DOMAIN waiting : waiting'[p] = waiting[q]
  BY <1>5, <1>8
<1>9. PlaceInv'
  <2>1. \A j \in JobIds : j # e => (Left(j)' <=> Left(j))
    BY <1>1, <1>4 DEF Left
  <2>2. \A p \in DOMAIN waiting : waiting[p] \in JobIds /\ waiting[p] # e
    BY <1>2, Numbers
  <2>3. ASSUME NEW p \in DOMAIN waiting', NEW q \in DOMAIN waiting', waiting'[p] = waiting'[q]
        PROVE  p = q
    <3>1. CASE waiting' = waiting
      BY <2>3, <3>1 DEF ExportInv, PlaceInv
    <3>2. CASE p = 1 /\ waiting'[p] = e
      BY <1>5, <2>2, <2>3, <3>2
    <3>3. CASE q = 1 /\ waiting'[q] = e
      BY <1>5, <2>2, <2>3, <3>3
    <3>4. CASE /\ p \in Nat /\ p > 1 /\ p - 1 \in DOMAIN waiting /\ waiting'[p] = waiting[p - 1]
               /\ q \in Nat /\ q > 1 /\ q - 1 \in DOMAIN waiting /\ waiting'[q] = waiting[q - 1]
      <4>1. p - 1 = q - 1
        BY <2>3, <3>4 DEF ExportInv, PlaceInv
      <4> QED
        BY <3>4, <4>1
    <3> QED
      BY <1>5, <3>1, <3>2, <3>3, <3>4
  <2>4. ASSUME NEW p \in DOMAIN waiting'
        PROVE  /\ waiting'[p] # active /\ waiting'[p] \notin delayed /\ waiting'[p] \notin stalled'
               /\ Left(waiting[p])'
    <3>1. CASE waiting'[p] = e
      <4>1. stalls'[e] <= MaxStalled
        BY <1>2, <1>5, <3>1
      <4>2. Left(waiting[p])'
        BY <1>1, <1>2, <3>1, <4>1 DEF Left
      <4> QED
        BY <1>2, <3>1, <4>2
    <3>2. CASE waiting'[p] # e
      <4>1. PICK q \in DOMAIN waiting : waiting'[p] = waiting[q]
        BY <1>8, <3>2
      <4>2. /\ waiting[q] # active /\ waiting[q] \notin delayed /\ waiting[q] \notin stalled
            /\ Left(waiting[q]) /\ waiting[q] \in JobIds
        BY <2>2 DEF ExportInv, PlaceInv
      <4>3. PICK j \in JobIds : j = waiting'[p]
        BY <4>1, <4>2
      <4>4. j # active /\ j \notin delayed /\ j \notin stalled' /\ Left(j)'
        BY <1>1, <2>1, <3>2, <4>1, <4>2, <4>3
      <4>5. waiting'[p] # active /\ waiting'[p] \notin delayed /\ waiting'[p] \notin stalled'
        BY <4>3, <4>4
      <4>6. Left(waiting[p])'
        BY <1>1, <4>3, <4>4 DEF Left
      <4> QED
        BY <4>5, <4>6
    <3> QED
      BY <3>1, <3>2
  <2>5. active # 0 => Left(active)'
    <3>1. active # 0 => active \in JobIds /\ active # e /\ Left(active)
      BY <1>2 DEF ExportInv, PlaceInv, TypeOK
    <3> QED
      BY <1>1, <1>4, <3>1 DEF Left
  <2>6. delayed \subseteq JobIds /\ stalled \subseteq JobIds
    BY DEF ExportInv, TypeOK
  <2>7. \A j \in JobIds : j > added => attemptsMade[j] = 0 /\ stalls'[j] = 0
    <3>1. ~(e > added)
      BY <1>2, Numbers DEF Left
    <3> QED
      BY <1>4, <3>1 DEF ExportInv, PlaceInv
  <2> QED
    BY <1>1, <1>2, <2>1, <2>3, <2>4, <2>5, <2>6, <2>7 DEF ExportInv, PlaceInv
<1>10. RunInv'
  BY <1>1 DEF ExportInv, RunInv
<1>11. \A j \in JobIds : First(j)' => First(j) /\ j # e
  <2>1. ASSUME NEW j \in JobIds, Fresh(j)'
        PROVE  Fresh(j) /\ j # e
    BY <1>1, <1>4, <2>1 DEF Fresh
  <2>2. ASSUME NEW j \in JobIds, j # e, Waits(j)'
        PROVE  Waits(j)
    BY <1>8, <2>2 DEF Waits
  <2> QED
    BY <1>1, <2>1, <2>2 DEF First
<1>12. OrderInv'
  <2>1. ASSUME NEW j \in JobIds, First(j)'
        PROVE  /\ \A k \in JobIds : k > j => Untouched(k)'
               /\ \A p, q \in DOMAIN waiting' : waiting'[p] = j /\ waiting'[q] > j => q > p
    <3>1. First(j) /\ j # e
      BY <1>11, <2>1
    <3>2. ~(e > j)
      BY <1>1, <3>1 DEF ExportInv, OrderInv, Untouched, Fresh
    <3>3. ASSUME NEW k \in JobIds, k > j
          PROVE  Untouched(k)'
      <4>1. Untouched(k) /\ k # e
        BY <3>1, <3>2, <3>3 DEF ExportInv, OrderInv
      <4> QED
        BY <1>1, <1>4, <4>1 DEF Untouched, Fresh
    <3>4. ASSUME NEW p \in DOMAIN waiting', NEW q \in DOMAIN waiting', waiting'[p] = j, waiting'[q] > j
          PROVE  q > p
      <4>1. CASE waiting' = waiting
        BY <3>1, <3>4, <4>1 DEF ExportInv, OrderInv
      <4>2. CASE q = 1 /\ waiting'[q] = e
        BY <3>2, <3>4, <4>2
      <4>3. CASE p = 1 /\ waiting'[p] = e
        BY <3>1, <3>4, <4>3
      <4>4. CASE /\ p \in Nat /\ p > 1 /\ p - 1 \in DOMAIN waiting /\ waiting'[p] = waiting[p - 1]
                 /\ q \in Nat /\ q > 1 /\ q - 1 \in DOMAIN waiting /\ waiting'[q] = waiting[q - 1]
        <5>1. q - 1 > p - 1
          BY <3>1, <3>4, <4>4 DEF ExportInv, OrderInv
        <5> QED
          BY <4>4, <5>1
      <4> QED
        BY <1>5, <4>1, <4>2, <4>3, <4>4
    <3> QED
      BY <3>3, <3>4
  <2> QED
    BY <2>1 DEF OrderInv
<1>13. \A j \in JobIds : attemptsMade'[j] >= attemptsMade[j] /\ stalls'[j] >= stalls[j]
  BY <1>1, <1>3, <1>4, Numbers
<1>14. CodesInv' /\ identified' = identified /\ missed' = missed
  BY <1>1, CodesKept
<1> QED
  BY <1>1, <1>7, <1>9, <1>10, <1>11, <1>12, <1>13, <1>14, QueueKeeps

\* A job completes: its run was the only one of its attempt, and done.
LEMMA ResolvesKeeps ==
  ASSUME ExportInv, NEW r \in runs, Resolves(r)
  PROVE  ExportInv'
<1>1. /\ r.job = active /\ r.attempt = attemptsMade[r.job] + 1
      /\ r.stage["wasm"] = "done" /\ r.stage["bank"] = "done"
      /\ completed' = completed \cup {r.job} /\ active' = 0 /\ runs' = runs \ {r}
      /\ UNCHANGED <<added, waiting, delayed, attemptsMade, failed, stalled, stalls, codeVars, dbVars, notified, boundVars>>
  BY DEF Resolves, Awaited, Handlers
<1>2. r.job \in JobIds /\ 0 \notin JobIds /\ added \in Nat /\ delayed \subseteq JobIds /\ stalled \subseteq JobIds
  BY Numbers DEF ExportInv, TypeOK
<1>3. TypeOK'
  BY <1>1, <1>2 DEF ExportInv, TypeOK, dbVars, boundVars
<1>4. PlaceInv'
  <2>1. \A p \in DOMAIN waiting : waiting[p] # 0
    BY <1>2, Numbers
  <2>2. \A j : Left(j)' <=> Left(j)
    BY <1>1 DEF Left
  <2> QED
    BY <1>1, <1>2, <2>1, <2>2 DEF ExportInv, PlaceInv
<1>5. RunInv'
  <2>1. ASSUME NEW s \in runs'
        PROVE  s.attempt # attemptsMade[s.job] + 1
    BY <1>1 DEF ExportInv, RunInv
  <2> QED
    BY <1>1, <2>1 DEF ExportInv, RunInv
<1>6. \A j \in JobIds : First(j)' => First(j)
  BY <1>1, <1>2 DEF First, Fresh, Waits
<1>7. OrderInv'
  <2>1. ASSUME NEW j \in JobIds, First(j)'
        PROVE  /\ \A k \in JobIds : k > j => Untouched(k)'
               /\ \A p, q \in DOMAIN waiting : waiting[p] = j /\ waiting[q] > j => q > p
    BY <1>1, <1>2, <1>6, <2>1 DEF ExportInv, OrderInv, Untouched, Fresh
  <2> QED
    BY <1>1, <2>1 DEF OrderInv
<1>8. Handled(r.job, rows, balances, lastExported, latestHeight, accountQueued, attemptsMade, stalls, identified, missed)
  <2>1. StageBefore(r)
    BY DEF ExportInv, StageInv
  <2>2. WasmWritten(r.job, rows, identified, missed)
    BY <1>1, <2>1 DEF StageBefore, StageAfter, StageOK, KeptOK, Written, WasmWritten
  <2> QED
    BY <1>1, <2>1, <2>2 DEF StageBefore, StageAfter, StageOK, HandledBefore, HandledAfter, Handled, Handlers
<1>9. \A j \in JobIds : attemptsMade'[j] >= attemptsMade[j] /\ stalls'[j] >= stalls[j]
  BY <1>1, Numbers
<1>10. CodesInv' /\ identified' = identified /\ missed' = missed
  BY <1>1, CodesKept
<1> QED
  BY <1>1, <1>3, <1>4, <1>5, <1>6, <1>7, <1>8, <1>9, <1>10, QueueKeeps

\* A job's attempt is rejected: it is delayed, or has failed, and its run, if it
\* goes on, is no longer of the current attempt.
LEMMA RejectKeeps ==
  ASSUME ExportInv, NEW r \in runs, Awaited(r), Reject(r.job), timeouts' \in 0..MaxTimeouts,
         UNCHANGED <<added, runs, codeVars, dbVars, notified, failures, crashes>>
  PROVE  ExportInv'
<1> DEFINE e == r.job
<1>1. /\ e = active /\ r.attempt = attemptsMade[e] + 1
      /\ attemptsMade' = [attemptsMade EXCEPT ![e] = attemptsMade[e] + 1]
      /\ active' = 0 /\ UNCHANGED <<waiting, completed, stalled, stalls>>
      /\ \/ attemptsMade[e] + 1 < Attempts /\ delayed' = delayed \cup {e} /\ failed' = failed
         \/ delayed' = delayed /\ failed' = failed \cup {e}
  BY DEF Awaited, Reject
<1>2. e \in JobIds /\ 0 \notin JobIds /\ JobIds \subseteq Nat /\ added \in Nat /\ delayed \subseteq JobIds /\ stalled \subseteq JobIds
  BY Numbers DEF ExportInv, TypeOK
<1>3. attemptsMade \in [JobIds -> 0..Attempts] /\ r.attempt \in 1..Attempts
  BY DEF ExportInv, TypeOK, Run
<1>4. attemptsMade[e] + 1 \in 0..Attempts
  BY <1>1, <1>3
<1> HIDE DEF e
<1>5. /\ attemptsMade'[e] = attemptsMade[e] + 1
      /\ \A j \in JobIds : j # e => attemptsMade'[j] = attemptsMade[j]
  BY <1>1, <1>2, <1>3
<1>6. TypeOK'
  <2>1. attemptsMade' \in [JobIds -> 0..Attempts]
    BY <1>1, <1>3, <1>4
  <2>2. delayed' \subseteq JobIds /\ failed' \subseteq JobIds
    BY <1>1, <1>2 DEF ExportInv, TypeOK
  <2> QED
    BY <1>1, <2>1, <2>2 DEF ExportInv, TypeOK, dbVars
<1>7. /\ e <= added /\ e \notin delayed /\ e \notin stalled /\ stalls[e] <= MaxStalled
      /\ \A p \in DOMAIN waiting : waiting[p] # e /\ waiting[p] \in JobIds
  BY <1>1, <1>2, Numbers DEF ExportInv, PlaceInv, Left
<1>8. PlaceInv'
  <2>1. ASSUME NEW p \in DOMAIN waiting
        PROVE  /\ waiting[p] # 0 /\ waiting[p] \notin delayed' /\ waiting[p] \notin stalled
               /\ Left(waiting[p])'
    BY <1>1, <1>2, <1>5, <1>7 DEF ExportInv, PlaceInv, Left
  <2>2. ASSUME NEW j \in delayed'
        PROVE  j \notin stalled /\ Left(j)' /\ 0 < attemptsMade'[j]
    <3>1. CASE j = e
      <4>1. attemptsMade[e] + 1 < Attempts
        BY <1>1, <1>7, <2>2, <3>1
      <4>2. 0 < attemptsMade[e] + 1
        BY <1>2, <1>3
      <4> QED
        BY <1>1, <1>5, <1>7, <3>1, <4>1, <4>2 DEF Left
    <3>2. CASE j # e
      <4>1. j \in delayed /\ j \in JobIds
        BY <1>1, <1>2, <3>2
      <4> QED
        BY <1>1, <1>5, <3>2, <4>1 DEF ExportInv, PlaceInv, Left
    <3> QED
      BY <3>1, <3>2
  <2>3. ASSUME NEW j \in JobIds, j > added
        PROVE  attemptsMade'[j] = 0 /\ stalls[j] = 0
    BY <1>2, <1>5, <1>7, <2>3 DEF ExportInv, PlaceInv
  <2>4. 0 \notin delayed' /\ 0 \notin stalled
    BY <1>1, <1>2
  <2>5. \A j \in stalled : Left(j)'
    BY <1>1, <1>2, <1>5, <1>7 DEF ExportInv, PlaceInv, Left
  <2> QED
    BY <1>1, <2>1, <2>2, <2>3, <2>4, <2>5 DEF ExportInv, PlaceInv
<1>9. RunInv'
  <2>1. ASSUME NEW s \in runs
        PROVE  s.attempt <= attemptsMade'[s.job] /\ s.attempt \in Nat /\ attemptsMade'[s.job] \in Nat
    <3>1. s.job \in JobIds /\ s.attempt \in Nat /\ attemptsMade[s.job] \in Nat
      BY Numbers
    <3>2. s.attempt <= attemptsMade[s.job] + 1
      BY DEF ExportInv, RunInv
    <3>3. s.job # e => s.attempt # attemptsMade[s.job] + 1
      BY <1>1 DEF ExportInv, RunInv
    <3> QED
      BY <1>5, <3>1, <3>2, <3>3
  <2>2. ASSUME NEW s \in runs
        PROVE  s.attempt <= attemptsMade'[s.job] + 1 /\ s.attempt # attemptsMade'[s.job] + 1
    <3>1. \A a, b \in Nat : a <= b => a <= b + 1 /\ a # b + 1
      OBVIOUS
    <3> QED
      BY <2>1, <3>1
  <2> QED
    BY <2>2 DEF ExportInv, RunInv
<1>10. \A j \in JobIds : First(j)' => First(j) /\ j # e
  <2>1. ASSUME NEW j \in JobIds, attemptsMade'[j] = 0
        PROVE  j # e /\ attemptsMade[j] = 0
    BY <1>2, <1>3, <1>5, <2>1
  <2> QED
    BY <1>1, <1>2, <2>1 DEF First, Fresh, Waits
<1>11. OrderInv'
  <2>1. ASSUME NEW j \in JobIds, First(j)'
        PROVE  /\ \A k \in JobIds : k > j => Untouched(k)'
               /\ \A p, q \in DOMAIN waiting : waiting[p] = j /\ waiting[q] > j => q > p
    <3>1. First(j)
      BY <1>10, <2>1
    <3>2. ASSUME NEW k \in JobIds, k > j
          PROVE  Untouched(k)'
      <4>1. Untouched(k)
        BY <3>1, <3>2 DEF ExportInv, OrderInv
      <4>2. k # e
        BY <1>1, <4>1 DEF Untouched
      <4> QED
        BY <1>1, <1>2, <1>5, <4>1, <4>2 DEF Untouched, Fresh
    <3> QED
      BY <3>1, <3>2 DEF ExportInv, OrderInv
  <2> QED
    BY <1>1, <2>1 DEF OrderInv
<1>12. \A j \in JobIds : attemptsMade'[j] >= attemptsMade[j] /\ stalls'[j] >= stalls[j]
  <2>1. \A j \in JobIds : attemptsMade[j] \in Nat /\ stalls[j] \in Nat
    BY Numbers
  <2> QED
    BY <1>1, <1>5, <2>1
<1>13. CodesInv' /\ identified' = identified /\ missed' = missed
  BY CodesKept
<1> QED
  BY <1>1, <1>6, <1>8, <1>9, <1>10, <1>11, <1>12, <1>13, QueueKeeps

-------------------------------------------------------------------------------
\* The theorems.

\* The first state.
LEMMA ExportInit == Init => ExportInv
<1> SUFFICES ASSUME Init PROVE ExportInv
  OBVIOUS
<1> USE DEF Init
<1>1. DOMAIN <<>> = {} /\ \A S : <<>> \in Seq(S)
  BY EmptySeq
<1>2. JobIds \subseteq Nat /\ 0 \notin JobIds /\ Len(Jobs) \in Nat
  BY ItemTypes
<1>3. TypeOK
  BY <1>1, <1>2, ExportQueueAssumption DEF TypeOK, Run, MaxStalled
<1>4. PlaceInv
  BY <1>1, <1>2 DEF PlaceInv
<1>5. RunInv /\ StageInv /\ CompletedInv
  BY DEF RunInv, StageInv, CompletedInv
<1>6. OrderInv
  <2>1. \A k \in JobIds : Untouched(k)
    BY <1>2 DEF Untouched, Fresh
  <2> QED
    BY <1>1, <2>1 DEF OrderInv
<1>7. OlderInv
  <2>1. ASSUME NEW j \in JobIds, NEW x \in Jobs[j]
        PROVE  \A h \in Handlers : lastExported[h] <= x.height
    <3>1. x.height \in Nat
      BY ItemTypes
    <3> QED
      BY <3>1
  <2> QED
    BY <1>1, <2>1 DEF OlderInv, Older
<1>8. BalanceInv
  BY <1>1 DEF BalanceInv, Brought
<1>9. CodesInv
  BY DEF CodesInv
<1> QED
  BY <1>3, <1>4, <1>5, <1>6, <1>7, <1>8, <1>9 DEF ExportInv

\* Every step.
LEMMA ExportStep == ExportInv /\ [Next]_vars => ExportInv'
<1> SUFFICES ASSUME ExportInv, [Next]_vars PROVE ExportInv'
  OBVIOUS
<1>1. CASE AddJob
  BY <1>1, AddJobKeeps
<1>2. CASE TakeJob
  BY <1>2, TakeJobKeeps
<1>3. CASE Crash
  BY <1>3, CrashKeeps
<1>4. ASSUME NEW j \in JobIds, DelayOver(j)
      PROVE  ExportInv'
  BY <1>4, DelayOverKeeps
<1>5. ASSUME NEW r \in runs, HandlerStep(r)
      PROVE  ExportInv'
  BY <1>5, HandlerStepKeeps
<1>6. ASSUME NEW r \in runs, Resolves(r)
      PROVE  ExportInv'
  BY <1>6, ResolvesKeeps
<1>7. ASSUME NEW r \in runs, Rejects(r)
      PROVE  ExportInv'
  <2>1. /\ Awaited(r) /\ Reject(r.job) /\ timeouts' \in 0..MaxTimeouts
        /\ UNCHANGED <<added, runs, codeVars, dbVars, notified, failures, crashes>>
    BY <1>7 DEF Rejects, boundVars, ExportInv, TypeOK
  <2> QED
    BY <2>1, RejectKeeps
<1>8. ASSUME NEW r \in runs, TimesOut(r)
      PROVE  ExportInv'
  <2>1. timeouts' \in 0..MaxTimeouts
    BY <1>8, ExportQueueAssumption DEF TimesOut, ExportInv, TypeOK
  <2> QED
    BY <1>8, <2>1, RejectKeeps DEF TimesOut
<1>10. ASSUME NEW j \in JobIds, FindStalled(j)
      PROVE  ExportInv'
  BY <1>10, FindStalledKeeps
<1>9. CASE UNCHANGED vars
  BY <1>9 DEF vars, bullVars, codeVars, dbVars, boundVars, ExportInv, TypeOK, PlaceInv, RunInv, StageInv, OrderInv,
     OlderInv, BalanceInv, CompletedInv, CodesInv, StageBefore, HandledBefore,
     First, Fresh, Waits, Untouched, Left
<1> QED
  BY <1>1, <1>2, <1>3, <1>4, <1>5, <1>6, <1>7, <1>8, <1>9, <1>10 DEF Next, Settles

\* The invariant holds in every state.
LEMMA ExportInductive == Spec => []ExportInv
BY ExportInit, ExportStep, PTL DEF Spec

\* What the invariant says of completed jobs.
LEMMA HandledIsHandled == ExportInv => CompletedIsHandled
BY DEF ExportInv, CompletedInv, HandledBefore, HandledAfter, Handled, WasmWritten, BankWritten, CursorMoved, AccountsQueued,
       CompletedIsHandled, CompletedIsExported, AccountWebhooksQueued, Repeated

(***************************************************************************)
(* The queue, the runs and the tables keep their types: no job is          *)
(* attempted more often than it may be, no handler tried more often.       *)
(***************************************************************************)
THEOREM ExportTypeCorrect == Spec => []TypeOK
<1>1. ExportInv => TypeOK
  BY DEF ExportInv
<1> QED
  BY <1>1, ExportInductive, PTL

(***************************************************************************)
(* export.ts: a job that BullMQ counts as completed has its items in the   *)
(* tables, but for events that the wasm handler's filters drop, the        *)
(* cursors at its block or later, and its account webhooks queued unless   *)
(* it was retried after a newer block, for every sequence of jobs and      *)
(* however its attempts fail, time out or stall.                           *)
(***************************************************************************)
THEOREM CompletedHolds == Spec => []CompletedIsHandled
BY HandledIsHandled, ExportInductive, PTL

\* The steps that the two parts of WritesGoForward allow.
RowsGoForward ==
  \A k \in DOMAIN rows : rows'[k] < rows[k] =>
    \E j \in JobIds : Repeated(j) /\ \E x \in Jobs[j] : x.n = rows'[k]
BalancesGoForward ==
  \A id \in DOMAIN balances :
    balances'[id].height >= balances[id].height /\ balances'[id].n >= balances[id].n

\* A row that is replaced by an older one is replaced by a job that was rejected or put back.
LEMMA RowsOfItems ==
  ASSUME ExportInv, NEW r \in runs, NEW items, items \subseteq Jobs[r.job], rows' = RowsWith(items)
  PROVE  RowsGoForward
<1>1. r.job \in JobIds
  BY Numbers
<1>2. \A k \in DOMAIN rows' :
        \/ k \in DOMAIN rows /\ rows'[k] = rows[k]
        \/ \E x \in items : k = <<x.id, x.height>> /\ rows'[k] = x.n
  BY <1>1, RowsWritten
<1>3. DOMAIN rows \subseteq DOMAIN rows'
  BY <1>1, RowsWritten
<1> SUFFICES ASSUME NEW k \in DOMAIN rows, rows'[k] < rows[k]
             PROVE  \E j \in JobIds : Repeated(j) /\ \E x \in Jobs[j] : x.n = rows'[k]
  BY DEF RowsGoForward
<1>4. rows[k] \in Nat
  BY DEF ExportInv, TypeOK
<1>5. PICK x \in items : k = <<x.id, x.height>> /\ rows'[k] = x.n
  BY <1>2, <1>3, <1>4
<1>6. x \in Jobs[r.job] /\ x.n \in Nat /\ x.n < rows[k]
  BY <1>1, <1>5, ItemTypes
<1>7. ASSUME attemptsMade[r.job] = 0, stalls[r.job] = 0
      PROVE  FALSE
  <2>1. First(r.job)
    BY <1>7, FirstAttempt
  <2>2. rows[k] <= x.n
    BY <1>1, <1>5, <1>6, <2>1 DEF ExportInv, OlderInv, Older
  <2> QED
    BY <1>4, <1>6, <2>2
<1>8. Repeated(r.job)
  BY <1>1, <1>7, Numbers DEF Repeated
<1> QED
  BY <1>1, <1>5, <1>6, <1>8

\* Every step writes forward.
LEMMA WritesStep == ExportInv /\ [Next]_vars => RowsGoForward /\ BalancesGoForward
<1> SUFFICES ASSUME ExportInv, [Next]_vars PROVE RowsGoForward /\ BalancesGoForward
  OBVIOUS
<1>1. ASSUME rows' = rows
      PROVE  RowsGoForward
  <2>1. \A k \in DOMAIN rows : rows[k] \in Nat
    BY DEF ExportInv, TypeOK
  <2> QED
    BY <1>1, <2>1 DEF RowsGoForward
<1>2. ASSUME balances' = balances
      PROVE  BalancesGoForward
  <2>1. \A id \in DOMAIN balances : balances[id].height \in Nat /\ balances[id].n \in Nat
    BY DEF ExportInv, TypeOK
  <2> QED
    BY <1>2, <2>1 DEF BalancesGoForward
<1>3. ASSUME NEW r \in runs, balances' = BalancesWith(ItemsOf(r.job, "bank"))
      PROVE  BalancesGoForward
  <2>1. r.job \in JobIds /\ ItemsOf(r.job, "bank") \subseteq Jobs[r.job]
    BY Numbers, ItemTypes DEF Handlers
  <2> QED
    BY <1>3, <2>1, BalancesGrow DEF BalancesGoForward
<1>4. ASSUME NEW r \in runs,
             rows' = RowsWith(r.kept) \/ rows' = RowsWith(History(r.job))
      PROVE  RowsGoForward
  <2>1. r.kept \subseteq Jobs[r.job] /\ History(r.job) \subseteq Jobs[r.job]
    BY KeptItems, ItemTypes
  <2> QED
    BY <1>4, <2>1, RowsOfItems
<1>5. CASE UNCHANGED <<rows, balances>>
  BY <1>1, <1>2, <1>5
<1>6. ASSUME NEW r \in runs, HandlerStep(r)
      PROVE  /\ \/ rows' = rows
                \/ rows' = RowsWith(r.kept) \/ rows' = RowsWith(History(r.job))
             /\ balances' = balances \/ balances' = BalancesWith(ItemsOf(r.job, "bank"))
  BY <1>6 DEF HandlerStep, ReadCodes, WriteRows, WriteBalances, QueueAccountWebhooks, MoveCursor, Notify, Throws,
     PartlyWritten, dbVars
<1>7. UNCHANGED <<rows, balances>> \/ \E r \in runs : HandlerStep(r)
  BY DEF Next, Settles, AddJob, TakeJob, Crash, DelayOver, FindStalled, Resolves, Rejects, TimesOut, dbVars, vars
<1> QED
  BY <1>1, <1>2, <1>3, <1>4, <1>5, <1>6, <1>7

(***************************************************************************)
(* wasm.ts and bank.ts: no step replaces a row by an older write of its    *)
(* block unless it is of a job that was rejected or put back before, and   *)
(* none takes a balance back, however runs that outlive their attempt interleave.       *)
(***************************************************************************)
THEOREM WritesHold == Spec => WritesGoForward
<1>1. ExportInv /\ [Next]_vars => [RowsGoForward /\ BalancesGoForward]_vars
  BY WritesStep
<1>2. Spec => [][RowsGoForward /\ BalancesGoForward]_vars
  BY <1>1, ExportInductive, PTL DEF Spec
<1>3. [][RowsGoForward /\ BalancesGoForward]_vars => [][RowsGoForward]_vars /\ [][BalancesGoForward]_vars
  BY PTL
<1>4. WritesGoForward <=> [][RowsGoForward]_vars /\ [][BalancesGoForward]_vars
  BY DEF WritesGoForward, RowGoesBackOnlyAfterRetry, BalanceNeverGoesBack, RowsGoForward, BalancesGoForward
<1> QED
  BY <1>2, <1>3, <1>4, PTL

=============================================================================
