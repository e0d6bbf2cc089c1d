--------------------- MODULE ChainWebSocketListenerProofs ---------------------
(***************************************************************************)
(* Proofs about ChainWebSocketListener for any number of requests and      *)
(* failures, with and without the probe of the port: types, that whatever  *)
(* is in flight can be cancelled, and that the listener implements         *)
(* Connection.                                                             *)
(***************************************************************************)
EXTENDS ChainWebSocketListener, SequenceTheorems, TLAPS

MaxGeneration == MaxRequests + 2 * MaxFailures

\* Where the loop of the current generation is.
Loop == IF generation = 0 THEN "none" ELSE loops[generation]

\* The loop's states while `connecting` is set, and those in which another attempt
\* is to come.
Trying == {"announcing", "attempting", "reporting", "erroring", "failing", "waiting", "waited"}
Between == {"announcing", "reporting", "erroring", "waiting", "waited", "lost", "lostOver"}

Last == Len(attempts)

\* The last attempt was rejected and the current loop has not seen it yet.
Unseen == Loop = "attempting" /\ Last > 0 /\ attempts[Last].settled = "rejected"

\* Generations and attempts are paid for by requests and failures.
Budget ==
  /\ generation + (IF Loop \in {"lost", "lostOver"} THEN 1 ELSE 0) <= requests + 2 * failures
  /\ Len(attempts) + (IF Loop \in Between \/ Unseen THEN 1 ELSE 0) <= requests + failures
  /\ reconnectAttempt + (IF Unseen THEN 1 ELSE 0) <= failures

\* Only loops up to the current generation have started, and only the current one
\* waits; it waits for the last attempt.
LoopInv ==
  /\ \A g \in Generations : g > generation => loops[g] = "none"
  /\ \A g \in Generations : loops[g] \in {"waiting", "lost"} => cancelRetry = g /\ g = generation
  /\ cancelRetry # 0 => cancelRetry \in Generations /\ loops[cancelRetry] \in {"waiting", "lost"}
  /\ Loop = "attempting" => Last > 0 /\ attempts[Last].generation = generation
  /\ Loop \in Trying => connecting
  /\ Loop \in {"lost", "lostOver"} => wanted
  /\ connecting => wanted

\* Only the last attempt can be unsettled or have a socket.
AttemptInv ==
  /\ \A a \in DOMAIN attempts :
       /\ attempts[a].generation <= generation
       /\ attempts[a].settled = "no" => cancelAttempt = a
       /\ attempts[a].generation = generation /\ attempts[a].settled # "rejected" =>
            a = Last /\ Loop \in {"attempting", "done"}
       /\ attempts[a].socket \in {"connecting", "open"} => webSocket = a
  /\ cancelAttempt # 0 => /\ cancelAttempt = Last /\ attempts[Last].settled = "no"
                          /\ attempts[Last].generation = generation /\ Loop = "attempting"
  /\ webSocket # 0 => /\ webSocket = Last /\ attempts[Last].settled # "rejected"
                      /\ attempts[Last].generation = generation
                      /\ attempts[Last].socket \in {"connecting", "open"}
  /\ connected => webSocket # 0 /\ attempts[Last].settled = "resolved"
  /\ webSocket # 0 => wanted
  /\ ~wanted => cancelAttempt = 0 /\ cancelRetry = 0

\* The inductive invariant.
WSInv == TypeOK /\ Budget /\ LoopInv /\ AttemptInv

-------------------------------------------------------------------------------
\* Bounds, and the parts of the handlers.

\* The bounds are naturals.
LEMMA Bounds ==
  /\ MaxRequests \in Nat /\ MaxFailures \in Nat /\ MaxGeneration \in Nat
  /\ Generations = 1..MaxGeneration
  /\ SkipWait \in BOOLEAN
BY WebSocketAssumption DEF MaxGeneration, Generations

\* What requests and failures pay for is below the bound.
LEMMA BudgetBound ==
  ASSUME NEW r \in 0..MaxRequests, NEW f \in 0..MaxFailures, NEW n \in Nat, n <= r + 2 * f
  PROVE  n <= MaxGeneration
<1>1. MaxRequests \in Nat /\ MaxFailures \in Nat /\ r \in Nat /\ f \in Nat
  BY Bounds
<1>2. r <= MaxRequests /\ f <= MaxFailures
  BY <1>1
<1>3. 2 * f = f + f /\ 2 * MaxFailures = MaxFailures + MaxFailures
  BY <1>1
<1> QED
  BY <1>1, <1>2, <1>3 DEF MaxGeneration

\* The budget of the next state, from the numbers that it is about.
LEMMA BudgetOf ==
  ASSUME NEW g \in Nat, NEW n \in Nat, NEW k \in Nat, NEW r \in Nat, NEW f \in Nat,
         generation' = g, Len(attempts') = n, reconnectAttempt' = k,
         requests' = r, failures' = f,
         g + 1 <= r + 2 * f \/ (g <= r + 2 * f /\ Loop' \notin {"lost", "lostOver"}),
         n + 1 <= r + f \/ (n <= r + f /\ Loop' \notin Between /\ ~Unseen'),
         k + 1 <= f \/ (k <= f /\ ~Unseen')
  PROVE  Budget'
<1>1. g + (IF Loop' \in {"lost", "lostOver"} THEN 1 ELSE 0) <= r + 2 * f
  OBVIOUS
<1>2. n + (IF Loop' \in Between \/ Unseen' THEN 1 ELSE 0) <= r + f
  OBVIOUS
<1>3. k + (IF Unseen' THEN 1 ELSE 0) <= f
  OBVIOUS
<1> QED
  BY <1>1, <1>2, <1>3 DEF Budget

\* The types, with the sequence of attempts as a function.
LEMMA Types ==
  ASSUME TypeOK
  PROVE  /\ generation \in 0..MaxGeneration
         /\ attempts \in Seq(Attempt) /\ Last \in Nat /\ DOMAIN attempts = 1..Last
         /\ \A a \in 1..Last : /\ attempts[a] \in Attempt
                               /\ attempts[a].generation \in 1..MaxGeneration
                               /\ attempts[a].settled \in {"no", "resolved", "rejected"}
                               /\ attempts[a].socket \in {"none", "connecting", "open", "closed"}
         /\ webSocket \in 0..Last /\ cancelAttempt \in 0..Last /\ cancelRetry \in 0..generation
         /\ loops \in [1..MaxGeneration -> LoopStates]
         /\ connected \in BOOLEAN /\ connecting \in BOOLEAN
         /\ shouldReconnect \in BOOLEAN /\ wanted \in BOOLEAN
         /\ reconnectAttempt \in 0..MaxFailures
         /\ requests \in 0..MaxRequests /\ failures \in 0..MaxFailures
         /\ Loop \in LoopStates
<1>1. attempts \in Seq(Attempt) /\ Last \in Nat /\ DOMAIN attempts = 1..Last
  BY DEF TypeOK, Last
<1>2. \A a \in 1..Last : attempts[a] \in Attempt
  BY <1>1
<1>3. \A a \in 1..Last : /\ attempts[a].generation \in 1..MaxGeneration
                         /\ attempts[a].settled \in {"no", "resolved", "rejected"}
                         /\ attempts[a].socket \in {"none", "connecting", "open", "closed"}
  BY <1>2, Bounds DEF Attempt
<1>4. generation \in 0..MaxGeneration /\ loops \in [1..MaxGeneration -> LoopStates]
  BY Bounds DEF TypeOK, MaxGeneration
<1>5. Loop \in LoopStates
  BY <1>4, Bounds DEF Loop, LoopStates
<1> QED
  BY <1>1, <1>2, <1>3, <1>4, <1>5 DEF TypeOK, Last

\* fail(error) changes attempt a alone, and leaves it settled and its socket closed.
LEMMA FailedAttempt ==
  ASSUME NEW seq \in Seq(Attempt), NEW a \in DOMAIN seq, seq[a].settled = "no"
  PROVE  /\ Failed(seq, a) \in Seq(Attempt) /\ Len(Failed(seq, a)) = Len(seq)
         /\ \A b \in DOMAIN seq : b # a => Failed(seq, a)[b] = seq[b]
         /\ Failed(seq, a)[a].generation = seq[a].generation
         /\ Failed(seq, a)[a].settled = "rejected"
         /\ Failed(seq, a)[a].socket = IF seq[a].socket = "none" THEN "none" ELSE "closed"
<1>1. /\ seq[a] \in Attempt /\ DOMAIN seq = 1..Len(seq) /\ Len(seq) \in Nat /\ a # 0
      /\ \A b \in DOMAIN seq : seq[b] \in Attempt
  OBVIOUS
<1>2. seq[a] = [generation |-> seq[a].generation, settled |-> seq[a].settled,
                socket |-> seq[a].socket]
      /\ seq[a].generation \in Generations
  BY <1>1 DEF Attempt
<1> DEFINE socket == IF seq[a].socket = "none" THEN "none" ELSE "closed"
           rec == [generation |-> seq[a].generation, settled |-> "rejected", socket |-> socket]
<1>3. rec \in Attempt
  BY <1>2 DEF Attempt
<1>4. Failed(seq, a) = [seq EXCEPT ![a] = rec]
  <2>1. Failed(seq, a) = [seq EXCEPT ![a].settled = "rejected",
                                     ![a].socket = IF @ = "none" THEN "none" ELSE "closed"]
    BY <1>1 DEF Failed
  <2>2. Failed(seq, a) = [b \in DOMAIN seq |-> IF b = a THEN rec ELSE seq[b]]
    BY <1>1, <1>2, <2>1
  <2> QED
    BY <1>1, <2>2
<1> HIDE DEF rec
<1>5. Failed(seq, a) \in [1..Len(seq) -> Attempt]
  BY <1>1, <1>3, <1>4
<1>6. Failed(seq, a) \in Seq(Attempt) /\ Len(Failed(seq, a)) = Len(seq)
  BY <1>1, <1>5, SeqDef
<1>7. Failed(seq, a)[a] = rec /\ \A b \in DOMAIN seq : b # a => Failed(seq, a)[b] = seq[b]
  BY <1>1, <1>4
<1> QED
  BY <1>6, <1>7 DEF rec

\* Cancelling a delay leaves no loop with one.
LEMMA CancelledDelay ==
  ASSUME TypeOK, LoopInv
  PROVE  /\ Cancelled(loops) \in [1..MaxGeneration -> LoopStates]
         /\ \A g \in 1..MaxGeneration :
              /\ Cancelled(loops)[g] \notin {"waiting", "lost"}
              /\ loops[g] \notin {"waiting", "lost"} => Cancelled(loops)[g] = loops[g]
              /\ g # generation => Cancelled(loops)[g] = loops[g]
<1>1. loops \in [1..MaxGeneration -> LoopStates]
  BY Types
<1>2. /\ \A g \in 1..MaxGeneration :
           loops[g] \in {"waiting", "lost"} => cancelRetry = g /\ g = generation
      /\ cancelRetry # 0 => cancelRetry \in 1..MaxGeneration /\ loops[cancelRetry] \in {"waiting", "lost"}
  BY Bounds DEF LoopInv
<1>3. CASE cancelRetry = 0
  BY <1>1, <1>2, <1>3 DEF Cancelled
<1>4. CASE cancelRetry # 0
  BY <1>1, <1>2, <1>4 DEF Cancelled, LoopStates
<1> QED
  BY <1>3, <1>4

-------------------------------------------------------------------------------
\* A new generation.

\* Nothing of an earlier generation is left when a new one begins.
LEMMA NewGeneration ==
  ASSUME WSInv, generation' = generation + 1,
         attempts' \in Seq(Attempt), Len(attempts') = Last,
         \A a \in 1..Last : /\ attempts'[a].generation = attempts[a].generation
                            /\ attempts'[a].settled # "no"
                            /\ attempts'[a].socket \notin {"connecting", "open"},
         webSocket' = 0, cancelAttempt' = 0, connected' = FALSE,
         wanted' \/ cancelRetry' = 0
  PROVE  AttemptInv'
<1>1. /\ generation \in Nat /\ Last \in Nat /\ DOMAIN attempts = 1..Last
      /\ \A a \in 1..Last : attempts[a].generation \in Nat
  BY Types DEF WSInv
<1>2. \A a \in 1..Last : attempts[a].generation <= generation
  BY <1>1 DEF WSInv, AttemptInv
<1>3. DOMAIN (attempts') = 1..Last
  BY <1>1
<1>4. \A a \in 1..Last : /\ attempts'[a].generation <= generation'
                         /\ attempts'[a].generation # generation'
  BY <1>1, <1>2
<1> QED
  BY <1>3, <1>4 DEF AttemptInv

\* With no socket and no attempts going on there is nothing to cancel but a delay.
LEMMA NothingInFlight ==
  ASSUME WSInv, webSocket = 0, Loop # "attempting"
  PROVE  /\ cancelAttempt = 0 /\ connected = FALSE
         /\ \A a \in 1..Last : /\ attempts[a].settled # "no"
                               /\ attempts[a].socket \notin {"connecting", "open"}
<1>1. /\ Last \in Nat /\ DOMAIN attempts = 1..Last /\ connected \in BOOLEAN
  BY Types DEF WSInv
<1>2. cancelAttempt = 0 /\ connected = FALSE
  BY <1>1 DEF WSInv, AttemptInv
<1>3. \A a \in 1..Last : /\ attempts[a].settled = "no" => cancelAttempt = a
                         /\ attempts[a].socket \in {"connecting", "open"} => webSocket = a
  BY <1>1 DEF WSInv, AttemptInv
<1> QED
  BY <1>1, <1>2, <1>3

\* _attemptConnection, called by connect or after a lost connection's delay.
LEMMA AttemptConnectionStep ==
  ASSUME WSInv, webSocket = 0, ~connecting, NEW ls, AttemptConnection(ls),
         Cancelled(ls) \in [1..MaxGeneration -> LoopStates],
         \A g \in 1..MaxGeneration : /\ Cancelled(ls)[g] \notin {"waiting", "lost"}
                                     /\ g > generation => Cancelled(ls)[g] = "none",
         UNCHANGED <<connected, reconnectAttempt, failures>>,
         wanted' = TRUE, shouldReconnect' \in BOOLEAN,
         NEW r \in 0..MaxRequests, requests' = r,
         generation + 1 <= r + 2 * failures, Last + 1 <= r + failures
  PROVE  WSInv'
<1>1. /\ generation \in 0..MaxGeneration /\ Last \in Nat /\ attempts \in Seq(Attempt)
      /\ connected \in BOOLEAN /\ connecting \in BOOLEAN
      /\ reconnectAttempt \in 0..MaxFailures /\ failures \in 0..MaxFailures
      /\ MaxRequests \in Nat /\ MaxFailures \in Nat /\ MaxGeneration \in Nat
      /\ MaxGeneration = MaxRequests + 2 * MaxFailures
      /\ Generations = 1..MaxGeneration
  BY Types, Bounds DEF WSInv, MaxGeneration
<1>2. Loop # "attempting"
  BY DEF WSInv, LoopInv, Trying
<1>3. /\ cancelAttempt = 0 /\ connected = FALSE
      /\ \A a \in 1..Last : /\ attempts[a].settled # "no"
                            /\ attempts[a].socket \notin {"connecting", "open"}
  BY <1>2, NothingInFlight
<1>4. /\ attempts' = attempts /\ webSocket' = 0 /\ cancelAttempt' = 0 /\ cancelRetry' = 0
      /\ generation' = generation + 1 /\ connecting' = TRUE
      /\ loops' = [Cancelled(ls) EXCEPT ![generation + 1] = "announcing"]
  BY <1>3 DEF AttemptConnection, Failed, SocketAfter
<1>5. generation + 1 \in 1..MaxGeneration /\ generation + 1 # 0
  <2>1. generation + 1 \in Nat
    BY <1>1
  <2>2. generation + 1 <= MaxGeneration
    BY <1>1, <2>1, BudgetBound
  <2> QED
    BY <1>1, <2>2
<1>6. /\ loops' \in [1..MaxGeneration -> LoopStates] /\ loops'[generation + 1] = "announcing"
      /\ \A g \in 1..MaxGeneration : g # generation + 1 => loops'[g] = Cancelled(ls)[g]
  BY <1>4, <1>5 DEF LoopStates
<1>7. Loop' = "announcing"
  BY <1>4, <1>5, <1>6 DEF Loop
<1>8. AttemptInv'
  <2>1. connected' = FALSE
    BY <1>3
  <2> QED
    BY <1>1, <1>3, <1>4, <2>1, NewGeneration DEF Last
<1>9. LoopInv'
  BY <1>1, <1>4, <1>5, <1>6, <1>7 DEF LoopInv
<1>10. Budget'
  <2>1. reconnectAttempt <= failures
    BY <1>1 DEF WSInv, Budget
  <2>2. ~Unseen' /\ Loop' \notin {"lost", "lostOver"}
    BY <1>7 DEF Unseen
  <2>3. /\ generation' = generation + 1 /\ generation + 1 \in Nat
        /\ Len(attempts') = Last /\ r \in Nat /\ failures \in Nat /\ reconnectAttempt \in Nat
        /\ reconnectAttempt' = reconnectAttempt /\ failures' = failures
    BY <1>1, <1>4 DEF Last
  <2> HIDE DEF Last
  <2> QED
    BY <1>1, <2>1, <2>2, <2>3, BudgetOf
<1>11. TypeOK'
  BY <1>1, <1>4, <1>5, <1>6 DEF TypeOK, Last
<1> QED
  BY <1>8, <1>9, <1>10, <1>11 DEF WSInv

\* connect.
LEMMA ConnectStep ==
  ASSUME WSInv, NEW continuousReconnect \in BOOLEAN, Connect(continuousReconnect)
  PROVE  WSInv'
<1>1. /\ requests \in 0..MaxRequests /\ requests < MaxRequests /\ requests' = requests + 1
      /\ failures \in 0..MaxFailures /\ wanted' = TRUE /\ failures' = failures
      /\ MaxRequests \in Nat /\ MaxFailures \in Nat
      /\ generation \in Nat /\ Last \in Nat /\ reconnectAttempt \in Nat
  BY Types, Bounds DEF WSInv, Connect
<1>2. CASE webSocket # 0 \/ connecting
  <2>1. UNCHANGED <<controlVars, webSocket, cancelVars, loops, attempts>>
    BY <1>2 DEF Connect
  <2>2. Loop' = Loop /\ Unseen' = Unseen /\ Last' = Last
    BY <2>1 DEF Loop, Unseen, Last, controlVars
  <2>3. TypeOK'
    BY <1>1, <2>1 DEF WSInv, TypeOK, controlVars, cancelVars
  <2>4. Budget'
    BY <1>1, <2>1, <2>2 DEF WSInv, Budget, controlVars, Last
  <2>5. LoopInv'
    BY <1>1, <2>1, <2>2 DEF WSInv, LoopInv, controlVars, cancelVars
  <2>6. AttemptInv'
    BY <1>1, <2>1, <2>2 DEF WSInv, AttemptInv, controlVars, cancelVars
  <2> QED
    BY <2>3, <2>4, <2>5, <2>6 DEF WSInv
<1>3. CASE ~(webSocket # 0 \/ connecting)
  <2>1. /\ shouldReconnect' = continuousReconnect /\ AttemptConnection(loops)
        /\ UNCHANGED <<connected, reconnectAttempt>>
    BY <1>3 DEF Connect
  <2>2. /\ Cancelled(loops) \in [1..MaxGeneration -> LoopStates]
        /\ \A g \in 1..MaxGeneration : /\ Cancelled(loops)[g] \notin {"waiting", "lost"}
                                       /\ g > generation => Cancelled(loops)[g] = "none"
    BY <1>1, CancelledDelay, Bounds DEF WSInv, LoopInv
  <2>3. generation <= requests + 2 * failures /\ Last <= requests + failures
    BY <1>1 DEF WSInv, Budget, Last
  <2>4. /\ generation + 1 <= (requests + 1) + 2 * failures
        /\ Last + 1 <= (requests + 1) + failures
        /\ requests + 1 \in 0..MaxRequests /\ shouldReconnect' \in BOOLEAN
        /\ webSocket = 0 /\ ~connecting
    BY <1>1, <1>3, <2>1, <2>3
  <2>5. UNCHANGED <<connected, reconnectAttempt, failures>>
    BY <1>1, <2>1
  <2> QED
    BY <1>1, <2>1, <2>2, <2>4, <2>5, AttemptConnectionStep
<1> QED
  BY <1>2, <1>3

-------------------------------------------------------------------------------
\* The loop.

\* A stale loop ends and disturbs nothing.
LEMMA StaleLoop ==
  ASSUME WSInv, NEW g \in 1..MaxGeneration, g # generation, loops[g] # "none",
         loops' = [loops EXCEPT ![g] = "done"],
         UNCHANGED <<controlVars, webSocket, cancelVars, attempts, boundVars, wanted>>
  PROVE  WSInv'
<1>1. /\ generation \in 0..MaxGeneration /\ MaxGeneration \in Nat
      /\ loops \in [1..MaxGeneration -> LoopStates]
      /\ Generations = 1..MaxGeneration
  BY Types, Bounds DEF WSInv
<1>2. /\ loops' \in [1..MaxGeneration -> LoopStates] /\ loops'[g] = "done"
      /\ \A h \in 1..MaxGeneration : h # g => loops'[h] = loops[h]
  BY <1>1 DEF LoopStates
<1>3. UNCHANGED <<generation, webSocket, connected, connecting, shouldReconnect, reconnectAttempt,
                  cancelAttempt, cancelRetry, attempts, requests, failures, wanted>>
  BY DEF controlVars, cancelVars, boundVars
<1>4. Loop' = Loop /\ Last' = Last /\ Unseen' = Unseen
  BY <1>1, <1>2, <1>3 DEF Loop, Last, Unseen
<1>5. TypeOK'
  BY <1>1, <1>2, <1>3 DEF WSInv, TypeOK
<1>6. Budget'
  BY <1>3, <1>4 DEF WSInv, Budget
<1>7. LoopInv'
  <2>1. /\ \A h \in 1..MaxGeneration : h > generation => loops[h] = "none"
        /\ \A h \in 1..MaxGeneration :
             loops[h] \in {"waiting", "lost"} => cancelRetry = h /\ h = generation
        /\ cancelRetry # 0 => /\ cancelRetry \in 1..MaxGeneration
                              /\ loops[cancelRetry] \in {"waiting", "lost"}
    BY <1>1 DEF WSInv, LoopInv
  <2>2. cancelRetry # 0 => cancelRetry # g
    BY <1>1, <2>1
  <2>3. /\ \A h \in 1..MaxGeneration : h > generation => loops'[h] = "none"
        /\ \A h \in 1..MaxGeneration :
             loops'[h] \in {"waiting", "lost"} => cancelRetry = h /\ h = generation
        /\ cancelRetry # 0 => /\ cancelRetry \in 1..MaxGeneration
                              /\ loops'[cancelRetry] \in {"waiting", "lost"}
    BY <1>1, <1>2, <2>1, <2>2
  <2> QED
    BY <1>1, <1>3, <1>4, <2>3 DEF WSInv, LoopInv
<1>8. AttemptInv'
  BY <1>3, <1>4 DEF WSInv, AttemptInv
<1> QED
  BY <1>5, <1>6, <1>7, <1>8 DEF WSInv

\* The current loop moves on between attempts, or ends.
LEMMA CurrentLoop ==
  ASSUME WSInv, generation # 0, NEW s \in LoopStates, s # "attempting",
         loops' = [loops EXCEPT ![generation] = s],
         cancelRetry' = IF s \in {"waiting", "lost"} THEN generation ELSE 0,
         UNCHANGED <<generation, webSocket, cancelAttempt, attempts, connected, shouldReconnect,
                     boundVars>>,
         NEW k \in Nat, reconnectAttempt' = k, k <= failures,
         NEW c \in BOOLEAN, connecting' = c, NEW w \in BOOLEAN, wanted' = w,
         s \in Trying => c, s \in {"lost", "lostOver"} => w, c => w,
         s \in {"lost", "lostOver"} => Loop \in {"lost", "lostOver"},
         s \in Between => Loop \in Between \/ Unseen,
         Loop = "attempting" =>
           attempts[Last].settled = "rejected" \/ (s = "done" /\ attempts[Last].settled = "resolved"),
         Loop = "done" => s = "done",
         w = wanted \/ (webSocket = 0 /\ s = "done" /\ cancelAttempt = 0)
  PROVE  WSInv'
<1>1. /\ generation \in 1..MaxGeneration /\ MaxGeneration \in Nat /\ generation \in Nat
      /\ loops \in [1..MaxGeneration -> LoopStates]
      /\ Generations = 1..MaxGeneration /\ Last \in Nat /\ Len(attempts) = Last
      /\ DOMAIN attempts = 1..Last
      /\ requests \in Nat /\ failures \in 0..MaxFailures /\ failures \in Nat /\ MaxFailures \in Nat
  BY Types, Bounds DEF WSInv, Last
<1>2. /\ loops' \in [1..MaxGeneration -> LoopStates] /\ loops'[generation] = s
      /\ \A h \in 1..MaxGeneration : h # generation => loops'[h] = loops[h]
  BY <1>1
<1>3. UNCHANGED <<generation, webSocket, connected, shouldReconnect, cancelAttempt, attempts,
                  requests, failures>>
  BY DEF boundVars
<1>4. Loop' = s /\ Last' = Last /\ ~Unseen'
  BY <1>1, <1>2, <1>3 DEF Loop, Last, Unseen
<1>5. TypeOK'
  <2>1. /\ cancelRetry' \in 0..generation /\ k \in 0..MaxFailures
    BY <1>1
  <2> QED
    BY <1>1, <1>2, <1>3, <2>1 DEF WSInv, TypeOK
<1>6. Budget'
  <2>1. /\ generation + (IF Loop \in {"lost", "lostOver"} THEN 1 ELSE 0) <= requests + 2 * failures
        /\ Last + (IF Loop \in Between \/ Unseen THEN 1 ELSE 0) <= requests + failures
    BY <1>1 DEF WSInv, Budget
  <2>2. generation + 1 <= requests + 2 * failures
          \/ (generation <= requests + 2 * failures /\ s \notin {"lost", "lostOver"})
    BY <1>1, <2>1
  <2>3. Last + 1 <= requests + failures \/ (Last <= requests + failures /\ s \notin Between)
    BY <1>1, <2>1
  <2>4. /\ generation' = generation /\ Len(attempts') = Last /\ requests' = requests
        /\ failures' = failures
    BY <1>1, <1>3
  <2> QED
    BY <1>1, <1>4, <2>2, <2>3, <2>4, BudgetOf
<1>7. LoopInv'
  <2>1. /\ \A h \in 1..MaxGeneration : h > generation => loops[h] = "none"
        /\ \A h \in 1..MaxGeneration :
             loops[h] \in {"waiting", "lost"} => cancelRetry = h /\ h = generation
    BY <1>1 DEF WSInv, LoopInv
  <2>2. /\ \A h \in 1..MaxGeneration : h > generation => loops'[h] = "none"
        /\ \A h \in 1..MaxGeneration :
             loops'[h] \in {"waiting", "lost"} => cancelRetry' = h /\ h = generation
        /\ cancelRetry' # 0 => /\ cancelRetry' \in 1..MaxGeneration
                               /\ loops'[cancelRetry'] \in {"waiting", "lost"}
    BY <1>1, <1>2, <2>1
  <2> QED
    BY <1>1, <1>3, <1>4, <2>2 DEF LoopInv
<1>8. AttemptInv'
  <2>1. /\ \A a \in 1..Last :
             /\ attempts[a].generation <= generation
             /\ attempts[a].settled = "no" => cancelAttempt = a
             /\ attempts[a].generation = generation /\ attempts[a].settled # "rejected" =>
                  a = Last /\ Loop \in {"attempting", "done"}
             /\ attempts[a].socket \in {"connecting", "open"} => webSocket = a
        /\ cancelAttempt # 0 => /\ cancelAttempt = Last /\ attempts[Last].settled = "no"
                                /\ attempts[Last].generation = generation /\ Loop = "attempting"
        /\ webSocket # 0 => /\ webSocket = Last /\ attempts[Last].settled # "rejected"
                            /\ attempts[Last].generation = generation
                            /\ attempts[Last].socket \in {"connecting", "open"}
        /\ connected => webSocket # 0 /\ attempts[Last].settled = "resolved"
        /\ webSocket # 0 => wanted
        /\ ~wanted => cancelAttempt = 0 /\ cancelRetry = 0
    BY <1>1 DEF WSInv, AttemptInv
  <2>2. cancelAttempt = 0
    BY <2>1
  <2>3. \A a \in 1..Last : attempts[a].generation = generation /\ attempts[a].settled # "rejected" =>
                            a = Last /\ s = "done"
    BY <2>1
  <2>4. (webSocket # 0 => w) /\ (~w => cancelRetry' = 0)
    BY <1>1, <2>1 DEF Trying
  <2>5. wanted' = w /\ (~wanted' => cancelAttempt' = 0 /\ cancelRetry' = 0) /\ (webSocket' # 0 => wanted')
    BY <1>3, <2>2, <2>4
  <2> QED
    BY <1>1, <1>3, <1>4, <2>1, <2>2, <2>3, <2>5 DEF AttemptInv
<1> QED
  BY <1>5, <1>6, <1>7, <1>8 DEF WSInv

\* What is known of the current loop.
LEMMA LoopFacts ==
  ASSUME WSInv, generation # 0
  PROVE  /\ Loop = loops[generation] /\ generation \in 1..MaxGeneration
         /\ cancelRetry = IF Loop \in {"waiting", "lost"} THEN generation ELSE 0
         /\ Loop \in Trying => connecting
         /\ Loop \in {"lost", "lostOver"} => wanted
         /\ connecting => wanted
         /\ connecting \in BOOLEAN /\ wanted \in BOOLEAN /\ shouldReconnect \in BOOLEAN
         /\ reconnectAttempt \in Nat /\ reconnectAttempt <= failures
         /\ Unseen => reconnectAttempt + 1 <= failures
         /\ Loop \notin {"attempting", "done"} => webSocket = 0 /\ cancelAttempt = 0
         /\ Loop = "attempting" => Last > 0 /\ attempts[Last].generation = generation
<1>1. /\ generation \in 1..MaxGeneration /\ MaxGeneration \in Nat /\ generation \in Nat
      /\ Generations = 1..MaxGeneration /\ Last \in Nat /\ DOMAIN attempts = 1..Last
      /\ failures \in Nat /\ reconnectAttempt \in Nat
      /\ webSocket \in 0..Last /\ cancelAttempt \in 0..Last
      /\ connecting \in BOOLEAN /\ wanted \in BOOLEAN /\ shouldReconnect \in BOOLEAN
  BY Types, Bounds DEF WSInv
<1>2. Loop = loops[generation]
  BY DEF Loop
<1>3. /\ \A h \in 1..MaxGeneration :
           loops[h] \in {"waiting", "lost"} => cancelRetry = h /\ h = generation
      /\ cancelRetry # 0 => /\ cancelRetry \in 1..MaxGeneration
                            /\ loops[cancelRetry] \in {"waiting", "lost"}
      /\ Loop \in Trying => connecting
      /\ Loop \in {"lost", "lostOver"} => wanted
      /\ connecting => wanted
      /\ Loop = "attempting" => Last > 0 /\ attempts[Last].generation = generation
  BY <1>1 DEF WSInv, LoopInv
<1>4. cancelRetry = IF Loop \in {"waiting", "lost"} THEN generation ELSE 0
  BY <1>1, <1>2, <1>3
<1>5. reconnectAttempt + (IF Unseen THEN 1 ELSE 0) <= failures
  BY DEF WSInv, Budget
<1>6. reconnectAttempt <= failures /\ (Unseen => reconnectAttempt + 1 <= failures)
  BY <1>1, <1>5
<1>7. Loop \notin {"attempting", "done"} => webSocket = 0 /\ cancelAttempt = 0
  <2>1. /\ \A a \in 1..Last : attempts[a].generation = generation /\ attempts[a].settled # "rejected" =>
                                 a = Last /\ Loop \in {"attempting", "done"}
        /\ cancelAttempt # 0 => Loop = "attempting"
        /\ webSocket # 0 => /\ webSocket = Last /\ attempts[Last].settled # "rejected"
                            /\ attempts[Last].generation = generation
    BY <1>1 DEF WSInv, AttemptInv
  <2> QED
    BY <1>1, <2>1
<1> QED
  BY <1>1, <1>2, <1>3, <1>4, <1>6, <1>7

\* The loop of the current generation waits for the last attempt.
LEMMA LastAttemptIsLast ==
  ASSUME WSInv, generation # 0, Loop = "attempting"
  PROVE  LastAttempt(generation) = Last
<1>1. Last \in Nat /\ DOMAIN attempts = 1..Last
  BY Types DEF WSInv
<1>2. Last \in 1..Last /\ attempts[Last].generation = generation
  BY <1>1, LoopFacts
<1> DEFINE IsLast(a) == /\ attempts[a].generation = generation
                        /\ \A b \in DOMAIN attempts : attempts[b].generation = generation => b <= a
<1>3. IsLast(Last)
  BY <1>1, <1>2
<1>4. \A a \in 1..Last : IsLast(a) => a = Last
  BY <1>1, <1>2
<1>5. LastAttempt(generation) = CHOOSE a \in 1..Last : IsLast(a)
  BY <1>1 DEF LastAttempt
<1> HIDE DEF IsLast
<1> QED
  BY <1>2, <1>3, <1>4, <1>5

\* The loop is told that its attempt has settled.
LEMMA AttemptReturnsStep ==
  ASSUME WSInv, NEW g \in 1..MaxGeneration, AttemptReturns(g)
  PROVE  WSInv'
<1>1. loops[g] = "attempting"
  BY DEF AttemptReturns
<1>2. CASE g # generation
  BY <1>1, <1>2, StaleLoop DEF AttemptReturns, Current, controlVars, cancelVars, boundVars
<1>3. CASE g = generation
  <2>1. /\ generation # 0 /\ MaxGeneration \in Nat /\ failures \in Nat
    BY <1>3, Bounds, Types DEF WSInv
  <2>2. Loop = "attempting" /\ cancelRetry = 0 /\ connecting /\ wanted
    BY <1>1, <1>3, <2>1, LoopFacts DEF Trying
  <2>3. LastAttempt(g) = Last /\ Last > 0
    BY <1>3, <2>1, <2>2, LastAttemptIsLast, LoopFacts
  <2>4. /\ attempts[Last].settled \in {"resolved", "rejected"}
    <3>1. Last \in Nat
      BY Types DEF WSInv
    <3>2. Last \in 1..Last
      BY <2>3, <3>1
    <3> QED
      BY <2>3, <3>2, Types DEF AttemptReturns, WSInv
  <2>5. UNCHANGED <<generation, webSocket, cancelAttempt, cancelRetry, attempts, connected,
                    shouldReconnect, boundVars, wanted>>
    BY DEF AttemptReturns, cancelVars
  <2>6. CASE attempts[Last].settled = "resolved"
    <3>1. /\ loops' = [loops EXCEPT ![generation] = "done"]
          /\ reconnectAttempt' = 0 /\ connecting' = FALSE
      BY <1>3, <2>3, <2>6 DEF AttemptReturns, Current
    <3>2. /\ "done" \in LoopStates /\ "done" \notin Trying /\ "done" \notin Between /\ 0 <= failures
          /\ wanted' = TRUE /\ cancelRetry' = 0
      BY <2>1, <2>2, <2>5 DEF LoopStates, Trying, Between
    <3> QED
      BY <2>1, <2>2, <2>5, <2>6, <3>1, <3>2, CurrentLoop
  <2>7. CASE attempts[Last].settled = "rejected"
    <3> DEFINE s == IF shouldReconnect THEN "reporting" ELSE "failing"
               k == reconnectAttempt + (IF shouldReconnect THEN 1 ELSE 0)
    <3>1. /\ loops' = [loops EXCEPT ![generation] = s]
          /\ reconnectAttempt' = k /\ connecting' = TRUE
      BY <1>3, <2>2, <2>3, <2>7 DEF AttemptReturns, Current
    <3>2. Unseen
      BY <2>2, <2>3, <2>7 DEF Unseen
    <3>3. k \in Nat /\ k <= failures
      BY <2>1, <3>2, LoopFacts
    <3>4. /\ s \in LoopStates /\ s \notin {"attempting", "waiting", "lost", "lostOver", "done"}
          /\ wanted' = TRUE /\ cancelRetry' = 0
      BY <2>2, <2>5 DEF LoopStates
    <3> HIDE DEF s, k
    <3> QED
      BY <2>1, <2>2, <2>5, <2>7, <3>1, <3>2, <3>3, <3>4, CurrentLoop
  <2> QED
    BY <2>4, <2>6, <2>7
<1> QED
  BY <1>2, <1>3

\* The failed attempt is reported, and its error handled.
LEMMA ReportStep ==
  ASSUME WSInv, NEW g \in 1..MaxGeneration, Reported(g) \/ Erred(g)
  PROVE  WSInv'
<1>1. loops[g] \in {"reporting", "erroring"}
  BY DEF Reported, Erred
<1>2. CASE g # generation
  <2>1. loops' = [loops EXCEPT ![g] = "done"]
    BY <1>2 DEF Reported, Erred, Current
  <2>2. UNCHANGED <<controlVars, webSocket, cancelVars, attempts, boundVars, wanted>>
    BY <1>2 DEF Reported, Erred, Current, cancelVars
  <2> QED
    BY <1>1, <1>2, <2>1, <2>2, StaleLoop
<1>3. CASE g = generation
  <2>1. /\ generation # 0 /\ MaxGeneration \in Nat
    BY <1>3, Bounds
  <2>2. Loop \in {"reporting", "erroring"} /\ cancelRetry = 0 /\ connecting /\ wanted
    BY <1>1, <1>3, <2>1, LoopFacts DEF Trying
  <2>3. UNCHANGED <<generation, webSocket, cancelAttempt, attempts, connected, connecting,
                    shouldReconnect, reconnectAttempt, boundVars, wanted>>
    BY DEF Reported, Erred, cancelVars, controlVars
  <2>4. connecting' = TRUE /\ wanted' = TRUE
    BY <2>1, <2>2, <2>3, LoopFacts
  <2>5. Loop \in Between
    BY <2>2 DEF Between
  <2>6. CASE Reported(g)
    <3>1. loops' = [loops EXCEPT ![generation] = "erroring"] /\ cancelRetry' = 0
      BY <1>3, <2>2, <2>6 DEF Reported, Current, cancelVars
    <3>2. "erroring" \in LoopStates
      BY DEF LoopStates
    <3> QED
      BY <2>1, <2>2, <2>3, <2>4, <2>5, <3>1, <3>2, LoopFacts, CurrentLoop
  <2>7. CASE Erred(g)
    <3>1. loops' = [loops EXCEPT ![generation] = "waiting"] /\ cancelRetry' = generation
      BY <1>3, <2>2, <2>7 DEF Erred, Current, Cancelled
    <3>2. "waiting" \in LoopStates
      BY DEF LoopStates
    <3> QED
      BY <2>1, <2>2, <2>3, <2>4, <2>5, <3>1, <3>2, LoopFacts, CurrentLoop
  <2> QED
    BY <2>6, <2>7
<1> QED
  BY <1>2, <1>3

\* Without reconnection the error is thrown.
LEMMA GivesUpStep ==
  ASSUME WSInv, NEW g \in 1..MaxGeneration, GivesUp(g)
  PROVE  WSInv'
<1>1. loops[g] = "failing" /\ loops' = [loops EXCEPT ![g] = "done"]
  BY DEF GivesUp
<1>2. CASE g # generation
  BY <1>1, <1>2, StaleLoop DEF GivesUp, Current, controlVars
<1>3. CASE g = generation
  <2>1. /\ generation # 0 /\ MaxGeneration \in Nat
    BY <1>3, Bounds
  <2>2. Loop = "failing" /\ cancelRetry = 0 /\ webSocket = 0 /\ cancelAttempt = 0
    BY <1>1, <1>3, <2>1, LoopFacts
  <2>3. /\ UNCHANGED <<generation, webSocket, cancelAttempt, attempts, connected,
                       shouldReconnect, reconnectAttempt, boundVars>>
        /\ connecting' = FALSE /\ wanted' = FALSE /\ cancelRetry' = 0
    BY <1>3, <2>2 DEF GivesUp, Current, cancelVars
  <2>4. "done" \in LoopStates /\ "done" \notin Trying /\ "done" \notin Between
    BY DEF LoopStates, Trying, Between
  <2> QED
    BY <1>1, <1>3, <2>1, <2>2, <2>3, <2>4, LoopFacts, CurrentLoop
<1> QED
  BY <1>2, <1>3

\* A delay ends by itself.
LEMMA DelayElapsesStep ==
  ASSUME WSInv, NEW g \in 1..MaxGeneration, DelayElapses(g)
  PROVE  WSInv'
<1>1. g = generation /\ cancelRetry = g
  BY Bounds DEF DelayElapses, WSInv, LoopInv
<1>2. /\ generation # 0 /\ MaxGeneration \in Nat
  BY <1>1, Bounds
<1>3. Loop = loops[g] /\ Loop \in {"waiting", "lost"}
  BY <1>1, <1>2, LoopFacts DEF DelayElapses
<1> DEFINE s == IF Loop = "waiting" THEN "waited" ELSE "lostOver"
<1>4. /\ loops' = [loops EXCEPT ![generation] = s] /\ cancelRetry' = 0
      /\ UNCHANGED <<generation, webSocket, cancelAttempt, attempts, connected, connecting,
                     shouldReconnect, reconnectAttempt, boundVars, wanted>>
  BY <1>1, <1>3 DEF DelayElapses, controlVars
<1>5. /\ s \in LoopStates /\ s \notin {"attempting", "waiting", "lost", "done"}
      /\ s = "lostOver" => Loop = "lost"
      /\ s # "lostOver" => Loop = "waiting"
      /\ Loop \in Between
  BY <1>3 DEF LoopStates, Between
<1> HIDE DEF s
<1>6. (s \in Trying => connecting) /\ (s = "lostOver" => wanted) /\ (connecting => wanted)
  BY <1>2, <1>5, LoopFacts DEF Trying
<1>7. connecting \in BOOLEAN /\ wanted \in BOOLEAN /\ connecting' = connecting /\ wanted' = wanted
  BY <1>2, <1>4, LoopFacts
<1> QED
  BY <1>2, <1>3, <1>4, <1>5, <1>6, <1>7, LoopFacts, CurrentLoop

\* The delay after a lost connection is over.
LEMMA ReconnectStep ==
  ASSUME WSInv, NEW g \in 1..MaxGeneration, Reconnect(g)
  PROVE  WSInv'
<1>1. loops[g] = "lostOver"
  BY DEF Reconnect
<1>2. CASE g # generation
  BY <1>1, <1>2, StaleLoop DEF Reconnect, Current, controlVars, cancelVars
<1>3. CASE g = generation
  <2>1. /\ generation # 0 /\ MaxGeneration \in Nat
    BY <1>3, Bounds
  <2>2. Loop = "lostOver" /\ cancelRetry = 0 /\ webSocket = 0 /\ cancelAttempt = 0 /\ wanted
    BY <1>1, <1>3, <2>1, LoopFacts
  <2>3. CASE ~(shouldReconnect /\ webSocket = 0 /\ ~connecting)
    <3>1. /\ loops' = [loops EXCEPT ![generation] = "done"] /\ cancelRetry' = 0
          /\ UNCHANGED <<generation, webSocket, cancelAttempt, attempts, connected, connecting,
                         shouldReconnect, reconnectAttempt, boundVars, wanted>>
      BY <1>3, <2>2, <2>3 DEF Reconnect, cancelVars
    <3>2. "done" \in LoopStates /\ "done" \notin Trying /\ "done" \notin Between
      BY DEF LoopStates, Trying, Between
    <3>3. connecting \in BOOLEAN /\ wanted \in BOOLEAN /\ connecting' = connecting /\ wanted' = wanted
      BY <2>1, <3>1, LoopFacts
    <3> QED
      BY <2>1, <2>2, <3>1, <3>2, <3>3, LoopFacts, CurrentLoop
  <2>4. CASE shouldReconnect /\ webSocket = 0 /\ ~connecting
    <3> DEFINE ls == [loops EXCEPT ![g] = "done"]
    <3>1. /\ AttemptConnection(ls)
          /\ UNCHANGED <<connected, shouldReconnect, reconnectAttempt, boundVars, wanted>>
      BY <1>3, <2>4 DEF Reconnect, Current
    <3>2. /\ generation \in Nat /\ loops \in [1..MaxGeneration -> LoopStates]
          /\ requests \in 0..MaxRequests /\ failures \in Nat /\ requests \in Nat /\ Last \in Nat
      BY Types, Bounds DEF WSInv
    <3>3. /\ \A h \in 1..MaxGeneration : h > generation => loops[h] = "none"
          /\ \A h \in 1..MaxGeneration : loops[h] \in {"waiting", "lost"} => cancelRetry = h
      BY Bounds DEF WSInv, LoopInv
    <3>4. Cancelled(ls) = ls
      BY <2>2 DEF Cancelled
    <3>5. /\ Cancelled(ls) \in [1..MaxGeneration -> LoopStates]
          /\ \A h \in 1..MaxGeneration : /\ Cancelled(ls)[h] \notin {"waiting", "lost"}
                                         /\ h > generation => Cancelled(ls)[h] = "none"
      <4>1. /\ ls \in [1..MaxGeneration -> LoopStates]
            /\ \A h \in 1..MaxGeneration : ls[h] = IF h = g THEN "done" ELSE loops[h]
        BY <3>2 DEF LoopStates
      <4> HIDE DEF ls
      <4> QED
        BY <1>3, <2>1, <2>2, <3>2, <3>3, <3>4, <4>1
    <3>6. generation + 1 <= requests + 2 * failures /\ Last + 1 <= requests + failures
      BY <2>2, <3>2 DEF WSInv, Budget, Between, Last
    <3>7. /\ UNCHANGED <<connected, reconnectAttempt, failures>> /\ wanted' = TRUE
          /\ shouldReconnect' \in BOOLEAN /\ requests' = requests
      BY <2>1, <2>2, <2>4, <3>1, LoopFacts DEF boundVars
    <3> HIDE DEF ls
    <3> QED
      BY <2>4, <3>1, <3>2, <3>5, <3>6, <3>7, AttemptConnectionStep
  <2> QED
    BY <2>3, <2>4
<1> QED
  BY <1>2, <1>3

\* Another attempt, or the end of a stale loop.
LEMMA LoopContinuesStep ==
  ASSUME WSInv, NEW g \in 1..MaxGeneration, LoopContinues(g)
  PROVE  WSInv'
<1>1. /\ loops[g] \in {"announcing", "waited"} /\ LoopTop(g)
      /\ UNCHANGED <<controlVars, cancelRetry, boundVars, wanted>>
  BY DEF LoopContinues
<1>2. CASE g # generation
  BY <1>1, <1>2, StaleLoop DEF LoopTop, Current, cancelVars
<1>3. CASE g = generation
  <2>1. /\ generation \in 1..MaxGeneration /\ MaxGeneration \in Nat /\ generation # 0
        /\ generation \in Nat
        /\ Generations = 1..MaxGeneration /\ SkipWait \in BOOLEAN
    BY <1>3, Bounds
  <2>2. /\ Loop \in {"announcing", "waited"} /\ cancelRetry = 0 /\ webSocket = 0
        /\ cancelAttempt = 0 /\ connecting /\ wanted /\ reconnectAttempt <= failures
        /\ reconnectAttempt \in Nat
    BY <1>1, <1>3, <2>1, LoopFacts DEF Trying
  <2>3. /\ attempts \in Seq(Attempt) /\ Last \in Nat /\ DOMAIN attempts = 1..Last
        /\ Len(attempts) = Last /\ loops \in [1..MaxGeneration -> LoopStates]
        /\ requests \in Nat /\ failures \in Nat /\ connected \in BOOLEAN
    BY Types DEF WSInv, Last
  <2> DEFINE rec == [generation |-> generation, settled |-> "no",
                     socket |-> IF SkipWait THEN "connecting" ELSE "none"]
  <2>4. /\ attempts' = Append(attempts, rec) /\ cancelAttempt' = Last + 1
        /\ webSocket' = IF SkipWait THEN Last + 1 ELSE 0
        /\ loops' = [loops EXCEPT ![generation] = "attempting"]
    BY <1>1, <1>3, <2>2, <2>3 DEF LoopTop, Current, Failed, SocketAfter
  <2>5. rec \in Attempt
    BY <2>1 DEF Attempt
  <2>6. /\ rec.generation = generation /\ rec.settled = "no"
        /\ rec.socket = IF SkipWait THEN "connecting" ELSE "none"
    OBVIOUS
  <2> HIDE DEF rec
  <2>7. /\ attempts' \in Seq(Attempt) /\ Len(attempts') = Last + 1
        /\ attempts'[Last + 1] = rec /\ \A a \in 1..Last : attempts'[a] = attempts[a]
    BY <2>3, <2>4, <2>5
  <2>8. /\ Last' = Last + 1 /\ DOMAIN (attempts') = 1..(Last + 1)
    BY <2>3, <2>7 DEF Last
  <2>9. /\ loops' \in [1..MaxGeneration -> LoopStates] /\ loops'[generation] = "attempting"
        /\ \A h \in 1..MaxGeneration : h # generation => loops'[h] = loops[h]
    BY <2>1, <2>3, <2>4 DEF LoopStates
  <2>10. UNCHANGED <<generation, connected, connecting, shouldReconnect, reconnectAttempt,
                     cancelRetry, requests, failures, wanted>>
    BY <1>1 DEF controlVars, boundVars
  <2>11. Loop' = "attempting"
    BY <2>1, <2>9, <2>10 DEF Loop
  <2>12. ~Unseen'
    BY <2>6, <2>7, <2>8 DEF Unseen
  <2>13. TypeOK'
    BY <2>1, <2>3, <2>4, <2>7, <2>9, <2>10 DEF WSInv, TypeOK
  <2>14. Budget'
    <3>1. /\ generation + (IF Loop \in {"lost", "lostOver"} THEN 1 ELSE 0) <= requests + 2 * failures
          /\ Last + (IF Loop \in Between \/ Unseen THEN 1 ELSE 0) <= requests + failures
      BY <2>3 DEF WSInv, Budget
    <3>2. generation <= requests + 2 * failures /\ Last + 1 <= requests + failures
      BY <2>1, <2>2, <2>3, <3>1 DEF Between
    <3>3. Loop' \notin Between /\ Loop' \notin {"lost", "lostOver"} /\ Last + 1 \in Nat
      BY <2>3, <2>11 DEF Between
    <3>4. /\ generation' = generation /\ requests' = requests /\ failures' = failures
          /\ reconnectAttempt' = reconnectAttempt
      BY <2>10
    <3> QED
      BY <2>1, <2>2, <2>3, <2>7, <2>12, <3>2, <3>3, <3>4, BudgetOf
  <2>15. LoopInv'
    <3>1. /\ \A h \in 1..MaxGeneration : h > generation => loops[h] = "none"
          /\ \A h \in 1..MaxGeneration : loops[h] \in {"waiting", "lost"} => cancelRetry = h
      BY <2>1 DEF WSInv, LoopInv
    <3>2. /\ \A h \in 1..MaxGeneration : h > generation => loops'[h] = "none"
          /\ \A h \in 1..MaxGeneration : loops'[h] \notin {"waiting", "lost"}
      BY <2>1, <2>2, <2>9, <3>1
    <3>3. Last' > 0 /\ attempts'[Last'].generation = generation'
      BY <2>3, <2>6, <2>7, <2>8, <2>10
    <3> QED
      BY <2>1, <2>2, <2>10, <2>11, <3>2, <3>3 DEF LoopInv
  <2>16. AttemptInv'
    <3>1. /\ \A a \in 1..Last :
               /\ attempts[a].generation <= generation
               /\ attempts[a].settled # "no"
               /\ ~(attempts[a].generation = generation /\ attempts[a].settled # "rejected")
               /\ attempts[a].socket \notin {"connecting", "open"}
          /\ connected = FALSE
      BY <2>2, <2>3 DEF WSInv, AttemptInv
    <3>2. \A a \in 1..(Last + 1) : a \in 1..Last \/ a = Last + 1
      BY <2>3
    <3>3. \A a \in 1..(Last + 1) :
            /\ attempts'[a].generation <= generation
            /\ attempts'[a].settled = "no" => a = Last + 1
            /\ attempts'[a].generation = generation /\ attempts'[a].settled # "rejected" => a = Last + 1
            /\ attempts'[a].socket \in {"connecting", "open"} => a = Last + 1 /\ SkipWait
      BY <2>1, <2>6, <2>7, <3>1, <3>2
    <3>4. attempts'[Last'] = rec /\ Last' # 0
      BY <2>3, <2>7, <2>8
    <3> QED
      BY <2>1, <2>2, <2>4, <2>6, <2>8, <2>10, <2>11, <3>1, <3>3, <3>4 DEF AttemptInv
  <2> QED
    BY <2>13, <2>14, <2>15, <2>16 DEF WSInv
<1> QED
  BY <1>2, <1>3

-------------------------------------------------------------------------------
\* The attempt and its socket.

\* An assignment to fields of attempt a changes attempt a alone.
LEMMA AttemptChange ==
  ASSUME NEW seq \in Seq(Attempt), NEW a \in DOMAIN seq, NEW rec \in Attempt, NEW result,
         result = [seq EXCEPT ![a] = rec]
  PROVE  /\ result \in Seq(Attempt) /\ Len(result) = Len(seq) /\ result[a] = rec
         /\ \A b \in DOMAIN seq : b # a => result[b] = seq[b]
<1>1. /\ DOMAIN seq = 1..Len(seq) /\ Len(seq) \in Nat
      /\ \A b \in DOMAIN seq : seq[b] \in Attempt
  OBVIOUS
<1>2. result \in [1..Len(seq) -> Attempt]
  BY <1>1
<1>3. result \in Seq(Attempt) /\ Len(result) = Len(seq)
  BY <1>1, <1>2, SeqDef
<1> QED
  BY <1>1, <1>3

\* A new state of the socket of attempt a.
WithSocket(seq, a, v) == [seq EXCEPT ![a].socket = v]

\* It changes attempt a alone.
LEMMA SocketChange ==
  ASSUME NEW seq \in Seq(Attempt), NEW a \in DOMAIN seq,
         NEW v \in {"none", "connecting", "open", "closed"}
  PROVE  /\ WithSocket(seq, a, v) \in Seq(Attempt) /\ Len(WithSocket(seq, a, v)) = Len(seq)
         /\ \A b \in DOMAIN seq : b # a => WithSocket(seq, a, v)[b] = seq[b]
         /\ WithSocket(seq, a, v)[a] \in Attempt /\ WithSocket(seq, a, v)[a].generation = seq[a].generation
         /\ WithSocket(seq, a, v)[a].settled = seq[a].settled /\ WithSocket(seq, a, v)[a].socket = v
<1>1. /\ seq[a] \in Attempt /\ DOMAIN seq = 1..Len(seq)
      /\ \A b \in DOMAIN seq : seq[b] \in Attempt
  OBVIOUS
<1>2. /\ seq[a] = [generation |-> seq[a].generation, settled |-> seq[a].settled,
                   socket |-> seq[a].socket]
      /\ seq[a].generation \in Generations /\ seq[a].settled \in {"no", "resolved", "rejected"}
  BY <1>1 DEF Attempt
<1> DEFINE rec == [generation |-> seq[a].generation, settled |-> seq[a].settled, socket |-> v]
<1>3. rec \in Attempt
  BY <1>2 DEF Attempt
<1>4. [seq[a] EXCEPT !.socket = v] = rec
  BY <1>2
<1>5. WithSocket(seq, a, v) = [seq EXCEPT ![a] = rec]
  <2>1. WithSocket(seq, a, v) = [seq EXCEPT ![a] = [seq[a] EXCEPT !.socket = v]]
    BY <1>1 DEF WithSocket
  <2> QED
    BY <1>4, <2>1
<1> HIDE DEF rec
<1>6. /\ WithSocket(seq, a, v) \in Seq(Attempt) /\ Len(WithSocket(seq, a, v)) = Len(seq) /\ WithSocket(seq, a, v)[a] = rec
      /\ \A b \in DOMAIN seq : b # a => WithSocket(seq, a, v)[b] = seq[b]
  BY <1>3, <1>5, AttemptChange
<1>7. rec.generation = seq[a].generation /\ rec.settled = seq[a].settled /\ rec.socket = v
  BY DEF rec
<1> QED
  BY <1>3, <1>6, <1>7

\* Attempt a resolves.
Resolved(seq, a) == [seq EXCEPT ![a].settled = "resolved"]

\* It changes attempt a alone.
LEMMA SettledChange ==
  ASSUME NEW seq \in Seq(Attempt), NEW a \in DOMAIN seq
  PROVE  /\ Resolved(seq, a) \in Seq(Attempt) /\ Len(Resolved(seq, a)) = Len(seq)
         /\ \A b \in DOMAIN seq : b # a => Resolved(seq, a)[b] = seq[b]
         /\ Resolved(seq, a)[a] \in Attempt /\ Resolved(seq, a)[a].generation = seq[a].generation
         /\ Resolved(seq, a)[a].settled = "resolved" /\ Resolved(seq, a)[a].socket = seq[a].socket
<1>1. /\ seq[a] \in Attempt /\ DOMAIN seq = 1..Len(seq)
      /\ \A b \in DOMAIN seq : seq[b] \in Attempt
  OBVIOUS
<1>2. /\ seq[a] = [generation |-> seq[a].generation, settled |-> seq[a].settled,
                   socket |-> seq[a].socket]
      /\ seq[a].generation \in Generations
      /\ seq[a].socket \in {"none", "connecting", "open", "closed"}
  BY <1>1 DEF Attempt
<1> DEFINE rec == [generation |-> seq[a].generation, settled |-> "resolved", socket |-> seq[a].socket]
<1>3. rec \in Attempt
  BY <1>2 DEF Attempt
<1>4. [seq[a] EXCEPT !.settled = "resolved"] = rec
  BY <1>2
<1>5. Resolved(seq, a) = [seq EXCEPT ![a] = rec]
  <2>1. Resolved(seq, a) = [seq EXCEPT ![a] = [seq[a] EXCEPT !.settled = "resolved"]]
    BY <1>1 DEF Resolved
  <2> QED
    BY <1>4, <2>1
<1> HIDE DEF rec
<1>6. /\ Resolved(seq, a) \in Seq(Attempt) /\ Len(Resolved(seq, a)) = Len(seq) /\ Resolved(seq, a)[a] = rec
      /\ \A b \in DOMAIN seq : b # a => Resolved(seq, a)[b] = seq[b]
  BY <1>3, <1>5, AttemptChange
<1>7. rec.generation = seq[a].generation /\ rec.settled = "resolved" /\ rec.socket = seq[a].socket
  BY DEF rec
<1> QED
  BY <1>3, <1>6, <1>7

\* What is known of an attempt that is going on or has a live socket: it is the last.
LEMMA LastFacts ==
  ASSUME WSInv, NEW a \in DOMAIN attempts
  PROVE  /\ attempts[a].settled = "no" \/ webSocket = a
            \/ attempts[a].socket \in {"connecting", "open"} =>
              /\ a = Last /\ attempts[a].generation = generation /\ attempts[a].settled # "rejected"
              /\ Loop \in {"attempting", "done"} /\ wanted /\ cancelRetry = 0
         /\ attempts[a].settled = "no" <=> cancelAttempt = a
         /\ attempts[a].socket \in {"connecting", "open"} <=> webSocket = a
         /\ connected => webSocket = Last /\ attempts[Last].settled = "resolved"
         /\ cancelAttempt \in {0, Last} /\ webSocket \in {0, Last}
<1>1. /\ Last \in Nat /\ DOMAIN attempts = 1..Last /\ a \in 1..Last /\ wanted \in BOOLEAN
      /\ generation \in 0..MaxGeneration /\ attempts[a].generation \in 1..MaxGeneration
      /\ a # 0
  BY Types DEF WSInv
<1>2. /\ attempts[a].settled = "no" => cancelAttempt = a
      /\ attempts[a].generation = generation /\ attempts[a].settled # "rejected" =>
            a = Last /\ Loop \in {"attempting", "done"}
      /\ attempts[a].socket \in {"connecting", "open"} => webSocket = a
      /\ cancelAttempt # 0 => /\ cancelAttempt = Last /\ attempts[Last].settled = "no"
                              /\ attempts[Last].generation = generation /\ Loop = "attempting"
      /\ webSocket # 0 => /\ webSocket = Last /\ attempts[Last].settled # "rejected"
                          /\ attempts[Last].generation = generation
                          /\ attempts[Last].socket \in {"connecting", "open"}
      /\ connected => webSocket # 0 /\ attempts[Last].settled = "resolved"
      /\ webSocket # 0 => wanted
      /\ ~wanted => cancelAttempt = 0 /\ cancelRetry = 0
  BY <1>1 DEF WSInv, AttemptInv
<1>3. ASSUME attempts[a].settled = "no" \/ webSocket = a
               \/ attempts[a].socket \in {"connecting", "open"}
      PROVE  /\ a = Last /\ attempts[a].generation = generation /\ attempts[a].settled # "rejected"
             /\ Loop \in {"attempting", "done"} /\ wanted /\ cancelRetry = 0
  <2>1. /\ a = Last /\ attempts[a].generation = generation /\ attempts[a].settled # "rejected"
        /\ Loop \in {"attempting", "done"} /\ wanted
    BY <1>1, <1>2, <1>3
  <2>2. generation # 0 /\ MaxGeneration \in Nat
    BY <1>1, <2>1, Bounds
  <2> QED
    BY <2>1, <2>2, LoopFacts
<1> QED
  BY <1>1, <1>2, <1>3

\* A step of the last attempt, which keeps its generation.
LEMMA LastMoves ==
  ASSUME WSInv, Last \in DOMAIN attempts, attempts[Last].generation = generation,
         attempts[Last].settled # "rejected", wanted,
         NEW rec \in Attempt, rec.generation = generation,
         attempts' \in Seq(Attempt), Len(attempts') = Last, attempts'[Last] = rec,
         \A a \in DOMAIN attempts : a # Last => attempts'[a] = attempts[a],
         UNCHANGED <<generation, connecting, shouldReconnect, reconnectAttempt, cancelRetry,
                     loops, requests, wanted>>,
         cancelAttempt' = IF rec.settled = "no" THEN Last ELSE 0,
         webSocket' = IF rec.socket \in {"connecting", "open"} THEN Last ELSE 0,
         rec.settled = "no" => attempts[Last].settled = "no",
         rec.settled = "rejected" => rec.socket \notin {"connecting", "open"},
         NEW c \in BOOLEAN, connected' = c,
         c => rec.settled = "resolved" /\ rec.socket \in {"connecting", "open"},
         NEW f \in 0..MaxFailures, failures' = f, failures <= f,
         rec.settled = "rejected" => f = failures + 1
  PROVE  WSInv'
<1>1. /\ Last \in Nat /\ DOMAIN attempts = 1..Last /\ Last \in 1..Last /\ Last # 0
      /\ generation \in 0..MaxGeneration /\ MaxGeneration \in Nat /\ generation \in Nat
      /\ MaxFailures \in Nat /\ failures \in Nat /\ requests \in Nat /\ f \in Nat
      /\ reconnectAttempt \in Nat
  BY Types, Bounds DEF WSInv
<1>2. Last' = Last /\ DOMAIN (attempts') = 1..Last /\ Loop' = Loop
  BY <1>1 DEF Last, Loop
<1>3. Unseen' => Loop = "attempting" /\ rec.settled = "rejected"
  BY <1>2 DEF Unseen
<1>4. TypeOK'
  BY <1>1 DEF WSInv, TypeOK
<1>5. Loop \in {"attempting", "done"}
  BY DEF WSInv, AttemptInv
<1>6. Budget'
  <2>1. /\ generation + (IF Loop \in {"lost", "lostOver"} THEN 1 ELSE 0) <= requests + 2 * failures
        /\ Last + (IF Loop \in Between \/ Unseen THEN 1 ELSE 0) <= requests + failures
        /\ reconnectAttempt + (IF Unseen THEN 1 ELSE 0) <= failures
    BY <1>1 DEF WSInv, Budget, Last
  <2>2. /\ generation <= requests + 2 * failures /\ Last <= requests + failures
        /\ reconnectAttempt <= failures
    BY <1>1, <2>1
  <2>3. generation <= requests + 2 * f
    <3>1. 2 * failures <= 2 * f
      BY <1>1
    <3> QED
      BY <1>1, <2>2, <3>1
  <2>4. Last <= requests + f /\ reconnectAttempt <= f
    BY <1>1, <2>2
  <2>5. f = failures + 1 => Last + 1 <= requests + f /\ reconnectAttempt + 1 <= f
    BY <1>1, <2>2
  <2>6. Loop' \notin Between /\ Loop' \notin {"lost", "lostOver"}
    BY <1>2, <1>5 DEF Between
  <2>7. /\ generation' = generation /\ requests' = requests
        /\ reconnectAttempt' = reconnectAttempt
    OBVIOUS
  <2> QED
    BY <1>1, <1>3, <2>3, <2>4, <2>5, <2>6, <2>7, BudgetOf
<1>7. LoopInv'
  BY <1>1, <1>2 DEF WSInv, LoopInv
<1>8. AttemptInv'
  <2>1. /\ \A a \in 1..Last :
             /\ attempts[a].generation <= generation
             /\ attempts[a].settled = "no" => cancelAttempt = a
             /\ attempts[a].generation = generation /\ attempts[a].settled # "rejected" =>
                  a = Last
             /\ attempts[a].socket \in {"connecting", "open"} => webSocket = a
        /\ cancelAttempt # 0 => cancelAttempt = Last
        /\ webSocket # 0 => webSocket = Last
    BY <1>1 DEF WSInv, AttemptInv
  <2>2. \A a \in 1..Last : a # Last =>
           /\ attempts'[a].generation <= generation
           /\ attempts'[a].settled # "no"
           /\ attempts'[a].socket \notin {"connecting", "open"}
           /\ ~(attempts'[a].generation = generation /\ attempts'[a].settled # "rejected")
    BY <1>1, <2>1
  <2>3. \A a \in 1..Last :
           /\ attempts'[a].generation <= generation'
           /\ attempts'[a].settled = "no" => cancelAttempt' = a
           /\ attempts'[a].generation = generation' /\ attempts'[a].settled # "rejected" =>
                a = Last' /\ Loop' \in {"attempting", "done"}
           /\ attempts'[a].socket \in {"connecting", "open"} => webSocket' = a
    BY <1>1, <1>2, <1>5, <2>2
  <2>4. rec.settled = "no" => Loop = "attempting"
    BY <1>1, <1>5 DEF WSInv, AttemptInv
  <2>5. /\ cancelAttempt' # 0 => /\ cancelAttempt' = Last' /\ attempts'[Last'].settled = "no"
                                 /\ attempts'[Last'].generation = generation' /\ Loop' = "attempting"
    BY <1>1, <1>2, <2>4
  <2>6. /\ webSocket' # 0 => /\ webSocket' = Last' /\ attempts'[Last'].settled # "rejected"
                             /\ attempts'[Last'].generation = generation'
                             /\ attempts'[Last'].socket \in {"connecting", "open"}
        /\ connected' => webSocket' # 0 /\ attempts'[Last'].settled = "resolved"
    BY <1>1, <1>2
  <2>7. wanted'
    OBVIOUS
  <2> QED
    BY <1>2, <2>3, <2>5, <2>6, <2>7 DEF AttemptInv
<1> QED
  BY <1>4, <1>6, <1>7, <1>8 DEF WSInv

\* The probe connects, or the handshake completes.
LEMMA SocketProgressStep ==
  ASSUME WSInv, NEW a \in DOMAIN attempts, CreateSocket(a) \/ HandshakeDone(a)
  PROVE  WSInv'
<1>1. attempts \in Seq(Attempt) /\ Len(attempts) = Last /\ failures \in 0..MaxFailures
      /\ failures \in Nat /\ connected \in BOOLEAN /\ Last # 0
  <2>1. a \in 1..Last /\ Last \in Nat
    BY Types DEF WSInv
  <2> QED
    BY <2>1, Types, Bounds DEF WSInv, Last
<1> DEFINE v == IF CreateSocket(a) THEN "connecting" ELSE "open"
<1>2. /\ attempts' = [attempts EXCEPT ![a].socket = v]
      /\ webSocket' = IF CreateSocket(a) THEN a ELSE webSocket
      /\ UNCHANGED <<generation, connecting, shouldReconnect, reconnectAttempt, cancelRetry,
                     cancelAttempt, loops, requests, failures, connected, wanted>>
  BY DEF CreateSocket, HandshakeDone, controlVars, cancelVars, boundVars
<1>3. attempts[a].settled = "no" \/ attempts[a].socket \in {"connecting", "open"}
  BY DEF CreateSocket, HandshakeDone, Unsettled
<1>4. /\ a = Last /\ attempts[a].generation = generation /\ attempts[a].settled # "rejected" /\ wanted
      /\ attempts[a].settled = "no" <=> cancelAttempt = a
      /\ attempts[a].socket \in {"connecting", "open"} <=> webSocket = a
      /\ connected => webSocket = Last /\ attempts[Last].settled = "resolved"
      /\ cancelAttempt \in {0, Last}
  BY <1>3, LastFacts
<1>5. v \in {"connecting", "open"}
  OBVIOUS
<1>6. ~CreateSocket(a) => webSocket = a
  BY <1>4 DEF HandshakeDone
<1> HIDE DEF v
<1>7. attempts' = WithSocket(attempts, a, v)
  BY <1>2 DEF WithSocket
<1>8. v \in {"none", "connecting", "open", "closed"}
  BY <1>5
<1> DEFINE rec == attempts'[a]
<1>9. /\ attempts' \in Seq(Attempt) /\ Len(attempts') = Last
      /\ \A b \in DOMAIN attempts : b # a => attempts'[b] = attempts[b]
      /\ rec \in Attempt /\ rec.generation = generation
      /\ rec.settled = attempts[a].settled /\ rec.socket = v
  <2>1. /\ WithSocket(attempts, a, "connecting") \in Seq(Attempt)
        /\ Len(WithSocket(attempts, a, "connecting")) = Len(attempts)
        /\ \A b \in DOMAIN attempts : b # a => WithSocket(attempts, a, "connecting")[b] = attempts[b]
    BY <1>1, SocketChange
  <2>2. /\ WithSocket(attempts, a, "open") \in Seq(Attempt)
        /\ Len(WithSocket(attempts, a, "open")) = Len(attempts)
        /\ \A b \in DOMAIN attempts : b # a => WithSocket(attempts, a, "open")[b] = attempts[b]
    BY <1>1, SocketChange
  <2>3. ASSUME NEW w \in {"none", "connecting", "open", "closed"}
        PROVE  /\ WithSocket(attempts, a, w)[a] \in Attempt
               /\ WithSocket(attempts, a, w)[a].generation = attempts[a].generation
               /\ WithSocket(attempts, a, w)[a].settled = attempts[a].settled
               /\ WithSocket(attempts, a, w)[a].socket = w
    BY <1>1, SocketChange
  <2> QED
    BY <1>1, <1>4, <1>5, <1>7, <1>8, <2>1, <2>2, <2>3
<1>10. /\ cancelAttempt' = IF rec.settled = "no" THEN Last ELSE 0
      /\ webSocket' = IF rec.socket \in {"connecting", "open"} THEN Last ELSE 0
      /\ connected => rec.settled = "resolved"
  BY <1>1, <1>2, <1>4, <1>5, <1>6, <1>9
<1> HIDE DEF rec
<1>11. attempts'[Last] = rec
  BY <1>4 DEF rec
<1>12. rec.settled # "rejected" /\ failures <= failures /\ failures' = failures /\ connected' = connected
  BY <1>1, <1>2, <1>4, <1>9
<1> QED
  BY <1>1, <1>2, <1>4, <1>5, <1>9, <1>10, <1>11, <1>12, LastMoves

\* onopen.
LEMMA OnOpenStep ==
  ASSUME WSInv, NEW a \in DOMAIN attempts, OnOpen(a)
  PROVE  WSInv'
<1>1. attempts \in Seq(Attempt) /\ Len(attempts) = Last /\ failures \in 0..MaxFailures
      /\ failures \in Nat
  BY Types, Bounds DEF WSInv, Last
<1>2. /\ attempts' = [attempts EXCEPT ![a].settled = "resolved"]
      /\ cancelAttempt' = IF cancelAttempt = a THEN 0 ELSE cancelAttempt
      /\ connected' = TRUE /\ webSocket = a /\ attempts[a].socket = "open"
      /\ attempts[a].settled = "no"
      /\ UNCHANGED <<generation, connecting, shouldReconnect, reconnectAttempt, webSocket,
                     cancelRetry, loops, requests, failures, wanted>>
  BY DEF OnOpen, boundVars, Unsettled, Active
<1>3. /\ a = Last /\ attempts[a].generation = generation /\ wanted /\ cancelAttempt = a
  BY <1>2, LastFacts
<1>4. attempts' = Resolved(attempts, a)
  BY <1>2 DEF Resolved
<1> DEFINE rec == attempts'[a]
<1>5. /\ attempts' \in Seq(Attempt) /\ Len(attempts') = Last
      /\ \A b \in DOMAIN attempts : b # a => attempts'[b] = attempts[b]
      /\ rec \in Attempt /\ rec.generation = generation
      /\ rec.settled = "resolved" /\ rec.socket = "open"
  <2> DEFINE r == Resolved(attempts, a)
  <2>1. /\ r \in Seq(Attempt) /\ Len(r) = Len(attempts)
        /\ \A b \in DOMAIN attempts : b # a => r[b] = attempts[b]
    BY <1>1, SettledChange
  <2>2. /\ r[a] \in Attempt /\ r[a].generation = attempts[a].generation
        /\ r[a].settled = "resolved" /\ r[a].socket = attempts[a].socket
    BY <1>1, SettledChange
  <2> QED
    BY <1>1, <1>2, <1>3, <1>4, <2>1, <2>2
<1>6. cancelAttempt' = 0 /\ webSocket' = Last /\ attempts'[Last] = rec
  BY <1>2, <1>3
<1> HIDE DEF rec
<1>7. failures <= failures /\ attempts[Last].settled # "rejected"
  BY <1>1, <1>2, <1>3
<1> QED
  BY <1>1, <1>2, <1>3, <1>5, <1>6, <1>7, LastMoves

\* The attempt fails.
LEMMA AttemptFailsStep ==
  ASSUME WSInv, NEW a \in DOMAIN attempts, AttemptFails(a)
  PROVE  WSInv'
<1>1. /\ attempts \in Seq(Attempt) /\ Len(attempts) = Last /\ failures \in 0..MaxFailures
      /\ failures \in Nat /\ MaxFailures \in Nat /\ connected \in BOOLEAN
      /\ a \in 1..Last /\ Last \in Nat /\ a # 0
  BY Types, Bounds DEF WSInv, Last
<1>2. /\ attempts' = Failed(attempts, a) /\ webSocket' = SocketAfter(a)
      /\ cancelAttempt' = IF cancelAttempt = a THEN 0 ELSE cancelAttempt
      /\ attempts[a].settled = "no" /\ failures' = failures + 1 /\ failures < MaxFailures
      /\ UNCHANGED <<generation, connecting, connected, shouldReconnect, reconnectAttempt,
                     cancelRetry, loops, requests, wanted>>
  BY DEF AttemptFails, Fails, Unsettled, controlVars
<1>3. /\ a = Last /\ attempts[a].generation = generation /\ wanted /\ cancelAttempt = a
      /\ webSocket \in {0, Last} /\ connected = FALSE
  BY <1>1, <1>2, LastFacts
<1> DEFINE rec == attempts'[a]
<1>4. /\ attempts' \in Seq(Attempt) /\ Len(attempts') = Last
      /\ \A b \in DOMAIN attempts : b # a => attempts'[b] = attempts[b]
      /\ rec.generation = generation
      /\ rec.settled = "rejected" /\ rec.socket \in {"none", "closed"}
  BY <1>1, <1>2, <1>3, FailedAttempt
<1>5. rec \in Attempt
  BY <1>1, <1>4
<1>6. cancelAttempt' = 0 /\ webSocket' = 0 /\ attempts'[Last] = rec
  BY <1>1, <1>2, <1>3 DEF SocketAfter
<1> HIDE DEF rec
<1>7. /\ failures + 1 \in 0..MaxFailures /\ failures <= failures + 1 /\ attempts[Last].settled # "rejected"
      /\ connected' = FALSE /\ failures' = failures + 1
  BY <1>1, <1>2, <1>3
<1> QED
  BY <1>2, <1>3, <1>4, <1>5, <1>6, <1>7, LastMoves

-------------------------------------------------------------------------------
\* The end of a connection.

\* A generation begins whose loop, if it has one, is a delay, and nothing is in flight.
LEMMA FreshGeneration ==
  ASSUME WSInv, generation' = generation + 1, generation + 1 \in 1..MaxGeneration,
         attempts' \in Seq(Attempt), Len(attempts') = Last,
         \A a \in 1..Last : /\ attempts'[a].generation = attempts[a].generation
                            /\ attempts'[a].settled # "no"
                            /\ attempts'[a].socket \notin {"connecting", "open"},
         webSocket' = 0, cancelAttempt' = 0, connected' = FALSE, connecting' = FALSE,
         NEW s \in {"none", "lost"},
         loops' \in [1..MaxGeneration -> LoopStates], loops'[generation + 1] = s,
         \A g \in 1..MaxGeneration : g # generation + 1 => loops'[g] = Cancelled(loops)[g],
         cancelRetry' = IF s = "lost" THEN generation + 1 ELSE 0,
         NEW w \in BOOLEAN, wanted' = w, s = "lost" => w, shouldReconnect' \in BOOLEAN,
         NEW k \in 0..MaxFailures, reconnectAttempt' = k,
         NEW r \in 0..MaxRequests, requests' = r, NEW f \in 0..MaxFailures, failures' = f,
         k <= f, Last <= r + f, s = "lost" => Last + 1 <= r + f,
         generation + 1 <= r + 2 * f, s = "lost" => generation + 2 <= r + 2 * f
  PROVE  WSInv'
<1>1. /\ generation \in Nat /\ Last \in Nat /\ MaxGeneration \in Nat /\ MaxFailures \in Nat
      /\ MaxRequests \in Nat /\ r \in Nat /\ f \in Nat /\ k \in Nat /\ generation + 1 # 0
      /\ generation + 1 \in Nat /\ Generations = 1..MaxGeneration
  BY Types, Bounds DEF WSInv
<1>2. Loop' = s /\ Last' = Last
  BY <1>1 DEF Loop, Last
<1>3. ~Unseen'
  BY <1>2 DEF Unseen
<1>4. AttemptInv'
  BY <1>1, NewGeneration
<1>5. TypeOK'
  <2>1. /\ generation' \in 0..(MaxRequests + 2 * MaxFailures) /\ cancelRetry' \in 0..generation'
    BY <1>1 DEF MaxGeneration
  <2>2. /\ webSocket' \in 0..Len(attempts') /\ cancelAttempt' \in 0..Len(attempts')
    BY <1>1
  <2>3. /\ loops' \in [Generations -> LoopStates]
        /\ connected' \in BOOLEAN /\ connecting' \in BOOLEAN
        /\ wanted' \in BOOLEAN /\ shouldReconnect' \in BOOLEAN
        /\ reconnectAttempt' \in 0..MaxFailures /\ requests' \in 0..MaxRequests
        /\ failures' \in 0..MaxFailures
    BY <1>1
  <2> QED
    BY <2>1, <2>2, <2>3 DEF TypeOK
<1>6. Budget'
  <2>1. (generation + 1) + 1 <= r + 2 * f
          \/ (generation + 1 <= r + 2 * f /\ Loop' \notin {"lost", "lostOver"})
    BY <1>1, <1>2
  <2>2. Last + 1 <= r + f \/ (Last <= r + f /\ Loop' \notin Between /\ ~Unseen')
    BY <1>2, <1>3 DEF Between
  <2> QED
    BY <1>1, <1>3, <2>1, <2>2, BudgetOf
<1>7. LoopInv'
  <2>1. \A g \in 1..MaxGeneration : /\ g > generation => loops[g] = "none"
                                    /\ Cancelled(loops)[g] \notin {"waiting", "lost"}
                                    /\ g # generation => Cancelled(loops)[g] = loops[g]
    BY <1>1, CancelledDelay DEF WSInv, LoopInv
  <2>2. \A g \in 1..MaxGeneration : g > generation + 1 => loops'[g] = "none"
    BY <1>1, <2>1
  <2>3. \A g \in 1..MaxGeneration : loops'[g] \in {"waiting", "lost"} =>
                                      g = generation + 1 /\ s = "lost"
    BY <1>1, <2>1
  <2>4. cancelRetry' # 0 => cancelRetry' = generation + 1 /\ s = "lost"
    BY <1>1
  <2>5. s \notin Trying /\ s # "attempting" /\ s # "lostOver"
    BY DEF Trying
  <2> QED
    BY <1>1, <1>2, <2>2, <2>3, <2>4, <2>5 DEF LoopInv
<1> QED
  BY <1>4, <1>5, <1>6, <1>7 DEF WSInv

\* disconnect.
LEMMA DisconnectStep ==
  ASSUME WSInv, Disconnect
  PROVE  /\ WSInv'
         /\ \A a \in 1..Last : attempts'[a].socket \notin {"connecting", "open"}
         /\ Len(attempts') = Last
<1>1. /\ generation \in Nat /\ attempts \in Seq(Attempt) /\ Last \in Nat /\ Len(attempts) = Last
      /\ DOMAIN attempts = 1..Last
      /\ requests \in Nat /\ failures \in 0..MaxFailures /\ failures \in Nat
      /\ MaxRequests \in Nat /\ MaxFailures \in Nat /\ MaxGeneration \in Nat
      /\ reconnectAttempt \in 0..MaxFailures /\ reconnectAttempt \in Nat
      /\ webSocket \in 0..Last /\ cancelAttempt \in 0..Last
  BY Types, Bounds DEF WSInv, Last
<1> DEFINE closed == IF webSocket = 0 THEN attempts
                     ELSE [attempts EXCEPT ![webSocket].socket = "closed"]
<1>2. /\ requests < MaxRequests /\ requests' = requests + 1 /\ wanted' = FALSE
      /\ shouldReconnect' = FALSE /\ generation' = generation + 1 /\ connecting' = FALSE
      /\ connected' = FALSE /\ loops' = Cancelled(loops) /\ cancelRetry' = 0
      /\ attempts' = Failed(closed, cancelAttempt) /\ webSocket' = 0 /\ cancelAttempt' = 0
      /\ reconnectAttempt' = reconnectAttempt /\ failures' = failures
  BY DEF Disconnect
<1>3. \A a \in 1..Last : /\ attempts[a].settled = "no" <=> cancelAttempt = a
                         /\ attempts[a].socket \in {"connecting", "open"} <=> webSocket = a
  BY <1>1, LastFacts
<1>4. /\ closed \in Seq(Attempt) /\ Len(closed) = Last /\ DOMAIN closed = 1..Last
      /\ \A a \in 1..Last : /\ closed[a].generation = attempts[a].generation
                             /\ closed[a].settled = attempts[a].settled
                             /\ closed[a].socket \notin {"connecting", "open"}
  <2>1. CASE webSocket = 0
    BY <1>1, <1>3, <2>1
  <2>2. CASE webSocket # 0
    <3>1. webSocket \in DOMAIN attempts
      BY <1>1, <2>2
    <3>2. closed = WithSocket(attempts, webSocket, "closed")
      BY <2>2 DEF WithSocket
    <3> HIDE DEF closed
    <3>3. /\ closed \in Seq(Attempt) /\ Len(closed) = Len(attempts)
          /\ \A b \in DOMAIN attempts : b # webSocket => closed[b] = attempts[b]
          /\ closed[webSocket].generation = attempts[webSocket].generation
          /\ closed[webSocket].settled = attempts[webSocket].settled
          /\ closed[webSocket].socket = "closed"
      <4> DEFINE r == WithSocket(attempts, webSocket, "closed")
      <4>1. /\ r \in Seq(Attempt) /\ Len(r) = Len(attempts)
            /\ \A b \in DOMAIN attempts : b # webSocket => r[b] = attempts[b]
        BY <1>1, <3>1, SocketChange
      <4>2. /\ r[webSocket].generation = attempts[webSocket].generation
            /\ r[webSocket].settled = attempts[webSocket].settled
            /\ r[webSocket].socket = "closed"
        BY <1>1, <3>1, SocketChange
      <4> QED
        BY <3>2, <4>1, <4>2
    <3>4. DOMAIN closed = 1..Last
      BY <1>1, <3>3
    <3> QED
      BY <1>1, <1>3, <3>3, <3>4
  <2> QED
    BY <2>1, <2>2
<1> HIDE DEF closed
<1>5. /\ attempts' \in Seq(Attempt) /\ Len(attempts') = Last
      /\ \A a \in 1..Last : /\ attempts'[a].generation = attempts[a].generation
                             /\ attempts'[a].settled # "no"
                             /\ attempts'[a].socket \notin {"connecting", "open"}
  <2>1. CASE cancelAttempt = 0
    <3>1. attempts' = closed
      BY <1>2, <2>1 DEF Failed
    <3> QED
      BY <1>1, <1>3, <1>4, <2>1, <3>1
  <2>2. CASE cancelAttempt # 0
    <3>1. cancelAttempt \in DOMAIN closed /\ closed[cancelAttempt].settled = "no"
      BY <1>1, <1>3, <1>4, <2>2
    <3>2. /\ attempts' \in Seq(Attempt) /\ Len(attempts') = Len(closed)
          /\ \A b \in DOMAIN closed : b # cancelAttempt => attempts'[b] = closed[b]
          /\ attempts'[cancelAttempt].generation = closed[cancelAttempt].generation
          /\ attempts'[cancelAttempt].settled = "rejected"
          /\ attempts'[cancelAttempt].socket \in {"none", "closed"}
      BY <1>2, <1>4, <3>1, FailedAttempt
    <3> QED
      BY <1>1, <1>3, <1>4, <3>2
  <2> QED
    BY <2>1, <2>2
<1>6. generation <= requests + 2 * failures /\ Last <= requests + failures /\ reconnectAttempt <= failures
  BY <1>1 DEF WSInv, Budget, Last
<1>7. /\ generation + 1 <= (requests + 1) + 2 * failures /\ Last <= (requests + 1) + failures
      /\ requests + 1 \in 0..MaxRequests /\ generation + 1 \in Nat
  BY <1>1, <1>2, <1>6
<1>8. generation + 1 \in 1..MaxGeneration
  <2>1. generation + 1 <= MaxGeneration
    BY <1>1, <1>7, BudgetBound
  <2> QED
    BY <1>1, <2>1
<1>9. /\ loops' \in [1..MaxGeneration -> LoopStates] /\ loops'[generation + 1] = "none"
  <2>1. /\ \A g \in 1..MaxGeneration : g > generation => loops[g] = "none"
        /\ \A g \in 1..MaxGeneration : g # generation => Cancelled(loops)[g] = loops[g]
        /\ Cancelled(loops) \in [1..MaxGeneration -> LoopStates]
    BY Bounds, CancelledDelay DEF WSInv, LoopInv
  <2> QED
    BY <1>1, <1>2, <1>8, <2>1
<1>10. WSInv'
  BY <1>1, <1>2, <1>5, <1>6, <1>7, <1>8, <1>9, FreshGeneration
<1> QED
  BY <1>5, <1>10

\* An established connection is lost.
LEMMA LostConnectionStep ==
  ASSUME WSInv, NEW a \in DOMAIN attempts, LostConnection(a)
  PROVE  /\ WSInv'
         /\ \A b \in 1..Last : attempts'[b].socket \notin {"connecting", "open"}
         /\ Len(attempts') = Last
<1>1. /\ generation \in Nat /\ attempts \in Seq(Attempt) /\ Last \in Nat /\ Len(attempts) = Last
      /\ DOMAIN attempts = 1..Last
      /\ requests \in 0..MaxRequests /\ requests \in Nat
      /\ failures \in 0..MaxFailures /\ failures \in Nat
      /\ MaxRequests \in Nat /\ MaxFailures \in Nat /\ MaxGeneration \in Nat
      /\ reconnectAttempt \in 0..MaxFailures /\ reconnectAttempt \in Nat
      /\ shouldReconnect \in BOOLEAN
      /\ loops \in [1..MaxGeneration -> LoopStates]
      /\ a \in 1..Last /\ a # 0
  BY Types, Bounds DEF WSInv, Last
<1>2. /\ failures < MaxFailures /\ failures' = failures + 1 /\ requests' = requests
      /\ attempts[a].settled # "no" /\ webSocket = a
      /\ generation' = generation + 1 /\ connecting' = FALSE
      /\ connected' = FALSE /\ webSocket' = 0
      /\ attempts' = [attempts EXCEPT ![a].socket = "closed"]
      /\ wanted' = (wanted /\ shouldReconnect)
      /\ shouldReconnect' = shouldReconnect /\ cancelAttempt' = cancelAttempt
  BY DEF LostConnection, Fails, Unsettled, Active
<1>3. /\ a = Last /\ wanted /\ cancelRetry = 0 /\ cancelAttempt = 0
      /\ Loop \in {"attempting", "done"}
  BY <1>2, LastFacts
<1>4. \A b \in 1..Last : /\ attempts[b].settled = "no" <=> cancelAttempt = b
                         /\ attempts[b].socket \in {"connecting", "open"} <=> webSocket = b
  BY <1>1, LastFacts
<1>5. /\ attempts' \in Seq(Attempt) /\ Len(attempts') = Last
      /\ \A b \in 1..Last : /\ attempts'[b].generation = attempts[b].generation
                             /\ attempts'[b].settled # "no"
                             /\ attempts'[b].socket \notin {"connecting", "open"}
  <2>1. /\ attempts' \in Seq(Attempt) /\ Len(attempts') = Len(attempts)
        /\ \A b \in DOMAIN attempts : b # a => attempts'[b] = attempts[b]
        /\ attempts'[a].generation = attempts[a].generation
        /\ attempts'[a].settled = attempts[a].settled
        /\ attempts'[a].socket = "closed"
    <3>1. attempts' = WithSocket(attempts, a, "closed")
      BY <1>2 DEF WithSocket
    <3> DEFINE r == WithSocket(attempts, a, "closed")
    <3>2. /\ r \in Seq(Attempt) /\ Len(r) = Len(attempts)
          /\ \A b \in DOMAIN attempts : b # a => r[b] = attempts[b]
      BY <1>1, SocketChange
    <3>3. /\ r[a].generation = attempts[a].generation
          /\ r[a].settled = attempts[a].settled
          /\ r[a].socket = "closed"
      BY <1>1, SocketChange
    <3> QED
      BY <3>1, <3>2, <3>3
  <2> QED
    BY <1>1, <1>2, <1>3, <1>4, <2>1
<1>6. generation <= requests + 2 * failures /\ Last <= requests + failures /\ reconnectAttempt <= failures
  BY <1>1 DEF WSInv, Budget, Last
<1>7. /\ generation + 2 <= requests + 2 * (failures + 1)
      /\ generation + 1 <= requests + 2 * (failures + 1)
      /\ Last + 1 <= requests + (failures + 1) /\ Last <= requests + (failures + 1)
      /\ failures + 1 \in 0..MaxFailures /\ generation + 1 \in Nat
      /\ reconnectAttempt + 1 <= failures + 1 /\ reconnectAttempt <= failures + 1
      /\ reconnectAttempt + 1 \in 0..MaxFailures
  <2>1. 2 * (failures + 1) = 2 * failures + 2 /\ 2 * failures \in Nat
    BY <1>1
  <2>2. /\ generation + 2 <= requests + 2 * (failures + 1)
        /\ generation + 1 <= requests + 2 * (failures + 1)
    BY <1>1, <1>6, <2>1
  <2>3. /\ Last + 1 <= requests + (failures + 1) /\ Last <= requests + (failures + 1)
        /\ generation + 1 \in Nat
        /\ reconnectAttempt + 1 <= failures + 1 /\ reconnectAttempt <= failures + 1
    BY <1>1, <1>6
  <2>4. failures + 1 \in 0..MaxFailures /\ reconnectAttempt + 1 \in 0..MaxFailures
    BY <1>1, <1>2, <1>6
  <2> QED
    BY <2>2, <2>3, <2>4
<1>8. generation + 1 \in 1..MaxGeneration
  <2>1. generation + 1 <= MaxGeneration
    BY <1>1, <1>7, BudgetBound
  <2> QED
    BY <1>1, <2>1
<1>9. Cancelled(loops) = loops
  BY <1>3 DEF Cancelled
<1>10. loops[generation + 1] = "none"
  BY <1>1, <1>8, Bounds DEF WSInv, LoopInv
<1>11. CASE shouldReconnect
  <2>1. /\ reconnectAttempt' = reconnectAttempt + 1
        /\ loops' = [loops EXCEPT ![generation + 1] = "lost"]
        /\ cancelRetry' = generation + 1 /\ wanted' = TRUE
    BY <1>1, <1>2, <1>3, <1>9, <1>11 DEF LostConnection
  <2>2. /\ loops' \in [1..MaxGeneration -> LoopStates] /\ loops'[generation + 1] = "lost"
        /\ \A g \in 1..MaxGeneration : g # generation + 1 => loops'[g] = Cancelled(loops)[g]
    BY <1>1, <1>8, <1>9, <2>1 DEF LoopStates
  <2>3. shouldReconnect' \in BOOLEAN /\ cancelAttempt' = 0
    BY <1>1, <1>2, <1>3
  <2>4. WSInv'
    BY <1>1, <1>2, <1>5, <1>7, <1>8, <2>1, <2>2, <2>3, FreshGeneration
  <2> QED
    BY <1>5, <2>4
<1>12. CASE ~shouldReconnect
  <2>1. /\ reconnectAttempt' = reconnectAttempt /\ loops' = loops
        /\ cancelRetry' = 0 /\ wanted' = FALSE
    BY <1>1, <1>2, <1>3, <1>12 DEF LostConnection
  <2>2. /\ loops' \in [1..MaxGeneration -> LoopStates] /\ loops'[generation + 1] = "none"
        /\ \A g \in 1..MaxGeneration : g # generation + 1 => loops'[g] = Cancelled(loops)[g]
    BY <1>1, <1>8, <1>9, <1>10, <2>1
  <2>3. shouldReconnect' \in BOOLEAN /\ cancelAttempt' = 0
    BY <1>1, <1>2, <1>3
  <2>4. WSInv'
    BY <1>1, <1>2, <1>5, <1>7, <1>8, <2>1, <2>2, <2>3, FreshGeneration
  <2> QED
    BY <1>5, <2>4
<1> QED
  BY <1>11, <1>12, <1>1

-------------------------------------------------------------------------------
\* The invariant.

\* A listener that has not been asked to connect.
LEMMA InitInv == Init => WSInv
<1> SUFFICES ASSUME Init PROVE WSInv
  OBVIOUS
<1>1. /\ MaxGeneration \in Nat /\ MaxRequests \in Nat /\ MaxFailures \in Nat
      /\ Generations = 1..MaxGeneration /\ MaxGeneration = MaxRequests + 2 * MaxFailures
  BY Bounds DEF MaxGeneration
<1>2. /\ Loop = "none" /\ Last = 0 /\ Len(attempts) = 0 /\ DOMAIN attempts = {} /\ ~Unseen
  BY DEF Init, Loop, Last, Unseen
<1>3. /\ attempts \in Seq(Attempt) /\ loops \in [Generations -> LoopStates]
  BY DEF Init, LoopStates
<1>4. TypeOK
  <2>1. generation \in 0..(MaxRequests + 2 * MaxFailures) /\ cancelRetry \in 0..generation
    BY <1>1 DEF Init
  <2>2. /\ reconnectAttempt \in 0..MaxFailures /\ requests \in 0..MaxRequests
        /\ failures \in 0..MaxFailures
        /\ webSocket \in 0..Len(attempts) /\ cancelAttempt \in 0..Len(attempts)
    BY <1>1, <1>2 DEF Init
  <2> QED
    BY <1>3, <2>1, <2>2 DEF Init, TypeOK
<1>5. Budget
  BY <1>2 DEF Init, Budget, Between
<1>6. LoopInv
  BY <1>1, <1>2 DEF Init, LoopInv, Trying
<1>7. AttemptInv
  BY <1>1, <1>2 DEF Init, AttemptInv
<1> QED
  BY <1>4, <1>5, <1>6, <1>7 DEF WSInv

\* No step breaks it.
LEMMA NextInv == WSInv /\ [Next]_vars => WSInv'
<1> SUFFICES ASSUME WSInv, [Next]_vars PROVE WSInv'
  OBVIOUS
<1>1. Generations = 1..MaxGeneration
  BY Bounds
<1>2. ASSUME NEW continuousReconnect \in BOOLEAN, Connect(continuousReconnect) PROVE WSInv'
  BY <1>2, ConnectStep
<1>3. CASE Disconnect
  BY <1>3, DisconnectStep
<1>4. ASSUME NEW g \in Generations, LoopNext(g) PROVE WSInv'
  BY <1>1, <1>4, LoopContinuesStep, AttemptReturnsStep, ReportStep, GivesUpStep, DelayElapsesStep,
     ReconnectStep DEF LoopNext
<1>5. ASSUME NEW a \in DOMAIN attempts, SocketNext(a) PROVE WSInv'
  BY <1>5, SocketProgressStep, OnOpenStep, AttemptFailsStep, LostConnectionStep DEF SocketNext
<1>6. CASE UNCHANGED vars
  <2>1. UNCHANGED <<generation, webSocket, connected, connecting, shouldReconnect, reconnectAttempt,
                    cancelAttempt, cancelRetry, loops, attempts, requests, failures, wanted>>
    BY <1>6 DEF vars, controlVars, cancelVars, boundVars
  <2>2. Loop' = Loop /\ Last' = Last /\ Unseen' = Unseen
    BY <2>1 DEF Loop, Last, Unseen
  <2>3. TypeOK' /\ Budget'
    BY <2>1, <2>2 DEF WSInv, TypeOK, Budget
  <2>4. LoopInv' /\ AttemptInv'
    BY <2>1, <2>2 DEF WSInv, LoopInv, AttemptInv
  <2> QED
    BY <2>3, <2>4 DEF WSInv
<1> QED
  BY <1>2, <1>3, <1>4, <1>5, <1>6 DEF Next

\* The invariant holds throughout.
LEMMA Invariance == Spec => []WSInv
BY InitInv, NextInv, PTL DEF Spec

\* The listener's fields and its loops keep their types, and its counters their
\* bounds: what is paid for by requests and failures never exceeds them.
THEOREM TypeCorrect == Spec => []TypeOK
<1>1. WSInv => TypeOK
  BY DEF WSInv
<1> QED
  BY <1>1, Invariance, PTL

\* ChainWebSocketListener.ts: whatever is going on can be cancelled.  An attempt
\* that has not settled and a delay that has not elapsed are the current
\* generation's and the ones that disconnect ends, and after disconnect none is left.
THEOREM CancellableHolds == Spec => []Cancellable
<1>1. WSInv => Cancellable
  <2> SUFFICES ASSUME WSInv PROVE Cancellable
    OBVIOUS
  <2>1. \A a \in DOMAIN attempts :
          Unsettled(a) => cancelAttempt = a /\ attempts[a].generation = generation
    BY LastFacts DEF Unsettled
  <2>2. \A g \in Generations : loops[g] \in {"waiting", "lost"} => cancelRetry = g /\ Current(g)
    BY DEF WSInv, LoopInv, Current
  <2>3. ~wanted => cancelAttempt = 0 /\ cancelRetry = 0 /\ webSocket = 0
    BY DEF WSInv, AttemptInv
  <2> QED
    BY <2>1, <2>2, <2>3 DEF Cancellable
<1> QED
  BY <1>1, Invariance, PTL

-------------------------------------------------------------------------------
\* The listener implements Connection.

\* The live socket is the one the listener holds.
LEMMA LiveSocket ==
  ASSUME WSInv
  PROVE  /\ Live = IF webSocket = 0 THEN {} ELSE {webSocket}
         /\ webSocket # 0 => webSocket \in Generations /\ wanted
         /\ connected => webSocket # 0
         /\ connected \in BOOLEAN /\ wanted \in BOOLEAN
<1>1. /\ Last \in Nat /\ DOMAIN attempts = 1..Last /\ webSocket \in 0..Last
      /\ requests \in 0..MaxRequests /\ failures \in 0..MaxFailures
      /\ requests \in Nat /\ failures \in Nat
      /\ Generations = 1..MaxGeneration /\ MaxGeneration \in Nat
      /\ connected \in BOOLEAN /\ wanted \in BOOLEAN
  BY Types, Bounds DEF WSInv
<1>2. \A a \in 1..Last : attempts[a].socket \in {"connecting", "open"} <=> webSocket = a
  BY <1>1, LastFacts
<1>3. Live = {a \in 1..Last : webSocket = a}
  BY <1>1, <1>2 DEF Live
<1>4. {a \in 1..Last : webSocket = a} = IF webSocket = 0 THEN {} ELSE {webSocket}
  BY <1>1
<1>5. Last <= MaxGeneration
  <2>1. Last <= requests + failures
    BY <1>1 DEF WSInv, Budget, Last
  <2>2. Last <= requests + 2 * failures
    BY <1>1, <2>1
  <2> QED
    BY <1>1, <2>2, BudgetBound
<1>6. webSocket # 0 => webSocket \in Generations
  BY <1>1, <1>5
<1>7. /\ webSocket # 0 => wanted
      /\ connected => webSocket # 0
  BY DEF WSInv, AttemptInv
<1> QED
  BY <1>1, <1>3, <1>4, <1>6, <1>7

\* The same of any state, to be used of the next one.
LiveIsHeld ==
  /\ Live = IF webSocket = 0 THEN {} ELSE {webSocket}
  /\ webSocket # 0 => webSocket \in Generations /\ wanted

\* The invariant implies it.
LEMMA LiveIsHeldAlways == WSInv => LiveIsHeld
BY LiveSocket DEF LiveIsHeld

\* What a step may do to the listener's connection.
Asks == wanted' = TRUE /\ UNCHANGED <<webSocket, connected>>
Dials == webSocket = 0 /\ webSocket' # 0 /\ UNCHANGED <<wanted, connected>>
Establishes == webSocket # 0 /\ ~connected /\ connected' = TRUE /\ UNCHANGED <<webSocket, wanted>>
Closes == webSocket' = 0 /\ connected' = FALSE /\ wanted' \in {wanted, FALSE}
Stays == UNCHANGED <<webSocket, connected, wanted>>

\* Each step of the listener does one of these.
LEMMA StepKinds ==
  ASSUME WSInv, Next
  PROVE  Asks \/ Dials \/ Establishes \/ Closes \/ Stays
<1>1. Generations = 1..MaxGeneration /\ MaxGeneration \in Nat
      /\ Last \in Nat /\ DOMAIN attempts = 1..Last
  BY Bounds, Types DEF WSInv
<1>2. ASSUME NEW continuousReconnect \in BOOLEAN, Connect(continuousReconnect) PROVE Asks
  BY <1>2 DEF Connect, AttemptConnection, SocketAfter, controlVars, Asks
<1>3. ASSUME Disconnect PROVE Closes
  BY <1>3 DEF Disconnect, Closes
<1>4. ASSUME NEW g \in Generations, LoopContinues(g) PROVE Dials \/ Stays
  <2>1. CASE connecting /\ Current(g)
    <3>1. g = generation /\ generation # 0 /\ Loop \in {"announcing", "waited"}
      BY <1>1, <1>4, <2>1 DEF LoopContinues, Current, Loop
    <3>2. webSocket = 0 /\ cancelAttempt = 0
      BY <3>1, LoopFacts
    <3>3. webSocket' = IF SkipWait THEN Len(attempts) + 1 ELSE 0
      BY <1>4, <2>1, <3>2 DEF LoopContinues, LoopTop, SocketAfter
    <3>4. Len(attempts) + 1 # 0
      BY <1>1 DEF Last
    <3> QED
      BY <1>4, <3>2, <3>3, <3>4 DEF LoopContinues, controlVars, Dials, Stays
  <2>2. CASE ~(connecting /\ Current(g))
    BY <1>4, <2>2 DEF LoopContinues, LoopTop, controlVars, Stays
  <2> QED
    BY <2>1, <2>2
<1>5. ASSUME NEW g \in Generations, GivesUp(g) PROVE Closes \/ Stays
  <2>1. CASE g = generation
    <3>1. generation # 0 /\ Loop = "failing"
      BY <1>1, <1>5, <2>1 DEF GivesUp, Loop
    <3>2. webSocket = 0 /\ (connected => webSocket # 0) /\ connected \in BOOLEAN
      BY <3>1, LoopFacts, LiveSocket
    <3> QED
      BY <1>5, <2>1, <3>2 DEF GivesUp, Current, Closes
  <2>2. CASE g # generation
    BY <1>5, <2>2 DEF GivesUp, Current, Stays
  <2> QED
    BY <2>1, <2>2
<1>6. ASSUME NEW g \in Generations, AttemptReturns(g) \/ Reported(g) \/ Erred(g) \/ DelayElapses(g)
      PROVE  Stays
  BY <1>6 DEF AttemptReturns, Reported, Erred, DelayElapses, controlVars, Stays
<1>7. ASSUME NEW g \in Generations, Reconnect(g) PROVE Stays
  BY <1>7 DEF Reconnect, AttemptConnection, SocketAfter, Stays
<1>8. ASSUME NEW a \in DOMAIN attempts, CreateSocket(a) PROVE Dials
  <2>1. webSocket = 0 /\ a # 0
    BY <1>1, <1>8, LastFacts DEF CreateSocket, Unsettled
  <2> QED
    BY <1>8, <2>1 DEF CreateSocket, controlVars, Dials
<1>9. ASSUME NEW a \in DOMAIN attempts, HandshakeDone(a) PROVE Stays
  BY <1>9 DEF HandshakeDone, controlVars, Stays
<1>10. ASSUME NEW a \in DOMAIN attempts, OnOpen(a) PROVE Establishes
  <2>1. attempts[a].settled = "no" /\ webSocket = a /\ a # 0
    BY <1>1, <1>10 DEF OnOpen, Unsettled, Active
  <2>2. ~connected
    BY <2>1, LastFacts
  <2> QED
    BY <1>10, <2>1, <2>2 DEF OnOpen, Establishes
<1>11. ASSUME NEW a \in DOMAIN attempts, AttemptFails(a) PROVE Closes
  <2>1. attempts[a].settled = "no" /\ a # 0
    BY <1>1, <1>11 DEF AttemptFails, Unsettled
  <2>2. webSocket \in {0, a} /\ ~connected /\ connected \in BOOLEAN
    BY <2>1, LastFacts, LiveSocket
  <2> QED
    BY <1>11, <2>1, <2>2 DEF AttemptFails, SocketAfter, controlVars, Closes
<1>12. ASSUME NEW a \in DOMAIN attempts, LostConnection(a) PROVE Closes
  <2>1. wanted' = (wanted /\ shouldReconnect) /\ wanted \in BOOLEAN
    BY <1>12, LiveSocket DEF LostConnection
  <2> QED
    BY <1>12, <2>1 DEF LostConnection, Closes
<1>13. ASSUME NEW g \in Generations, LoopNext(g) PROVE Dials \/ Closes \/ Stays
  BY <1>4, <1>5, <1>6, <1>7, <1>13 DEF LoopNext
<1>14. ASSUME NEW a \in DOMAIN attempts, SocketNext(a) PROVE Dials \/ Establishes \/ Closes \/ Stays
  BY <1>8, <1>9, <1>10, <1>11, <1>12, <1>14 DEF SocketNext
<1> QED
  BY <1>2, <1>3, <1>13, <1>14 DEF Next

\* Every step of the listener is a step of Connection, or none.
LEMMA ConnectionStep ==
  ASSUME WSInv, WSInv', [Next]_vars
  PROVE  [ConnectionSpec!Next]_ConnectionSpec!connectionVars
<1>1. /\ Live = IF webSocket = 0 THEN {} ELSE {webSocket}
      /\ webSocket # 0 => webSocket \in Generations /\ wanted
      /\ connected => webSocket # 0
      /\ connected \in BOOLEAN /\ wanted \in BOOLEAN
  BY LiveSocket
<1>2. /\ Live' = IF webSocket' = 0 THEN {} ELSE {webSocket'}
      /\ webSocket' # 0 => webSocket' \in Generations /\ wanted'
  <2>1. LiveIsHeld'
    BY LiveIsHeldAlways, PTL
  <2> QED
    BY <2>1 DEF LiveIsHeld
<1>3. CASE Asks
  BY <1>1, <1>2, <1>3 DEF Asks, ConnectionSpec!Next, ConnectionSpec!Request
<1>4. CASE Dials
  <2>1. wanted /\ Live = {} /\ UNCHANGED <<wanted, connected>>
    BY <1>1, <1>2, <1>4 DEF Dials
  <2>2. webSocket' \in Generations /\ Live' = {webSocket'}
    BY <1>2, <1>4 DEF Dials
  <2> QED
    BY <2>1, <2>2 DEF ConnectionSpec!Next, ConnectionSpec!Dial
<1>5. CASE Establishes
  BY <1>1, <1>2, <1>5 DEF Establishes, ConnectionSpec!Next, ConnectionSpec!Establish
<1>6. CASE Closes
  <2>1. Live' = {} /\ connected' = FALSE /\ wanted' \in {wanted, FALSE}
    BY <1>2, <1>6 DEF Closes
  <2>2. CASE webSocket # 0
    BY <1>1, <2>1, <2>2 DEF ConnectionSpec!Next, ConnectionSpec!HangUp
  <2>3. CASE webSocket = 0
    <3>1. Live = {} /\ connected = FALSE
      BY <1>1, <2>3
    <3>2. CASE wanted' = wanted
      BY <2>1, <3>1, <3>2 DEF ConnectionSpec!connectionVars
    <3>3. CASE wanted' # wanted
      BY <1>1, <2>1, <3>1, <3>3 DEF ConnectionSpec!Next, ConnectionSpec!GiveUp
    <3> QED
      BY <3>2, <3>3
  <2> QED
    BY <2>2, <2>3
<1>7. CASE Stays
  BY <1>1, <1>2, <1>7 DEF Stays, ConnectionSpec!connectionVars
<1>8. CASE UNCHANGED vars
  BY <1>7, <1>8 DEF vars, controlVars, Stays
<1> QED
  BY <1>3, <1>4, <1>5, <1>6, <1>7, <1>8, StepKinds

\* docs/websocket-native-c936.md: for any number of requests and failures, the
\* listener has at most one live socket, only while one is wanted, and reports
\* itself connected only of a live one.
THEOREM ImplementsTheConnection == Spec => ImplementsConnection
<1>1. Init => ConnectionSpec!Init
  <2>1. Init => Live = {}
    BY DEF Init, Live
  <2> QED
    BY <2>1 DEF Init, ConnectionSpec!Init
<1>2. WSInv /\ WSInv' /\ [Next]_vars => [ConnectionSpec!Next]_ConnectionSpec!connectionVars
  BY ConnectionStep
<1> QED
  BY <1>1, <1>2, Invariance, PTL DEF Spec, ImplementsConnection, ConnectionSpec!Spec
=============================================================================
