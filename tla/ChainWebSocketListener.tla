------------------------ MODULE ChainWebSocketListener ------------------------
(***************************************************************************)
(* src/services/ChainWebSocketListener.ts: connecting to the node's        *)
(* WebSocket, retrying with a delay, reconnecting after a loss, and        *)
(* disconnecting at any time.  Calls of _attemptConnection, the attempts   *)
(* they wait for and the delays between them overlap at awaits; a          *)
(* generation counter tells current continuations from stale ones.         *)
(*                                                                         *)
(* An attempt creates at most one socket, so the attempt names the socket. *)
(* Socket callbacks may run late, even after they were detached.           *)
(***************************************************************************)
EXTENDS Integers, Sequences

CONSTANTS SkipWait,     \* whether the port is not probed before connecting
          MaxRequests,  \* bound: calls of connect and disconnect
          MaxFailures   \* bound: attempts that fail and connections lost

ASSUME WebSocketAssumption ==
  /\ SkipWait \in BOOLEAN
  /\ MaxRequests \in Nat
  /\ MaxFailures \in Nat

VARIABLES generation,       \* this._generation
          webSocket,        \* this.webSocket, 0 for null
          connected,        \* this._connected
          connecting,       \* this._connecting
          shouldReconnect,  \* this._shouldReconnect
          reconnectAttempt, \* this._reconnectAttempt
          cancelAttempt,    \* this._cancelAttempt: the attempt it cancels or 0
          cancelRetry,      \* this._cancelRetry: the delay's generation or 0
          loops,            \* where _attemptConnection is, by its generation
          attempts,         \* the calls of _singleConnectionAttempt so far
          requests,         \* calls of the owner so far
          failures,         \* failures so far
          wanted            \* history: a connection is wanted

controlVars == <<generation, connected, connecting, shouldReconnect, reconnectAttempt>>
cancelVars == <<cancelAttempt, cancelRetry>>
boundVars == <<requests, failures>>
vars == <<controlVars, webSocket, cancelVars, loops, attempts, boundVars, wanted>>

\* Every generation is a request's, a lost connection's or its retry's.
Generations == 1 .. (MaxRequests + 2 * MaxFailures)

\* "lost" is the delay of lostConnection before it calls _attemptConnection and
\* "lostOver" its end; "waiting" and "waited" are those of the loop's own delay.
LoopStates == {"none", "announcing", "attempting", "reporting", "erroring", "failing",
               "waiting", "waited", "lost", "lostOver", "done"}

Attempt == [generation : Generations,
            settled : {"no", "resolved", "rejected"},
            socket : {"none", "connecting", "open", "closed"}]

Init ==
  /\ generation = 0
  /\ webSocket = 0
  /\ connected = FALSE
  /\ connecting = FALSE
  /\ shouldReconnect = TRUE
  /\ reconnectAttempt = 0
  /\ cancelAttempt = 0
  /\ cancelRetry = 0
  /\ loops = [g \in Generations |-> "none"]
  /\ attempts = <<>>
  /\ requests = 0
  /\ failures = 0
  /\ wanted = FALSE

-------------------------------------------------------------------------------
\* Parts of the handlers, as functions of the state they change.

\* fail(error) of attempt a, unless it has settled; its socket is closed.
Failed(as, a) ==
  IF a = 0 \/ as[a].settled # "no" THEN as
  ELSE [as EXCEPT ![a].settled = "rejected",
                  ![a].socket = IF @ = "none" THEN "none" ELSE "closed"]

\* this.webSocket after fail of attempt a.
SocketAfter(a) == IF a # 0 /\ attempts[a].settled = "no" /\ webSocket = a THEN 0 ELSE webSocket

\* The delay whose cancel function is stored is cut short.
Cancelled(ls) ==
  IF cancelRetry = 0 THEN ls
  ELSE [ls EXCEPT ![cancelRetry] = IF @ = "waiting" THEN "waited"
                                   ELSE IF @ = "lost" THEN "lostOver" ELSE @]

Current(g) == g = generation

\* _attemptConnection, up to its first await, from the state of the loops `ls`.
AttemptConnection(ls) ==
  /\ loops' = [Cancelled(ls) EXCEPT ![generation + 1] = "announcing"]
  /\ cancelRetry' = 0
  /\ attempts' = Failed(attempts, cancelAttempt)
  /\ webSocket' = SocketAfter(cancelAttempt)
  /\ cancelAttempt' = 0
  /\ generation' = generation + 1
  /\ connecting' = TRUE

-------------------------------------------------------------------------------
\* The owner.

\* connect: nothing to do when there is a socket or an attempt.
Connect(continuousReconnect) ==
  /\ requests < MaxRequests
  /\ requests' = requests + 1
  /\ wanted' = TRUE
  /\ IF webSocket # 0 \/ connecting
     THEN UNCHANGED <<controlVars, webSocket, cancelVars, loops, attempts>>
     ELSE /\ shouldReconnect' = continuousReconnect
          /\ AttemptConnection(loops)
          /\ UNCHANGED <<connected, reconnectAttempt>>
  /\ UNCHANGED failures

\* Mutant: the delay before a retry is not cancelled.
MutDisconnectKeepsRetry ==
  /\ requests < MaxRequests
  /\ requests' = requests + 1
  /\ wanted' = FALSE
  /\ shouldReconnect' = FALSE
  /\ generation' = generation + 1
  /\ connecting' = FALSE
  /\ connected' = FALSE
  /\ attempts' = Failed(IF webSocket = 0 THEN attempts
                        ELSE [attempts EXCEPT ![webSocket].socket = "closed"],
                        cancelAttempt)
  /\ webSocket' = 0
  /\ cancelAttempt' = 0
  /\ UNCHANGED <<loops, cancelRetry, reconnectAttempt, failures>>

\* disconnect.
Disconnect ==
  /\ requests < MaxRequests
  /\ requests' = requests + 1
  /\ wanted' = FALSE
  /\ shouldReconnect' = FALSE
  /\ generation' = generation + 1
  /\ connecting' = FALSE
  /\ connected' = FALSE
  /\ loops' = Cancelled(loops)
  /\ cancelRetry' = 0
  /\ attempts' = Failed(IF webSocket = 0 THEN attempts
                        ELSE [attempts EXCEPT ![webSocket].socket = "closed"],
                        cancelAttempt)
  /\ webSocket' = 0
  /\ cancelAttempt' = 0
  /\ UNCHANGED <<reconnectAttempt, failures>>

-------------------------------------------------------------------------------
\* _attemptConnection of generation g, from one await to the next.

\* The loop's condition: another attempt, or the end.
LoopTop(g) ==
  IF connecting /\ Current(g)
  THEN LET a == Len(attempts) + 1
       IN /\ attempts' = Append(Failed(attempts, cancelAttempt),
                                [generation |-> generation, settled |-> "no",
                                 socket |-> IF SkipWait THEN "connecting" ELSE "none"])
          /\ webSocket' = IF SkipWait THEN a ELSE SocketAfter(cancelAttempt)
          /\ cancelAttempt' = a
          /\ loops' = [loops EXCEPT ![g] = "attempting"]
  ELSE /\ loops' = [loops EXCEPT ![g] = "done"]
       /\ UNCHANGED <<attempts, webSocket, cancelAttempt>>

\* The connecting state has been announced, or the delay is over.
LoopContinues(g) ==
  /\ loops[g] \in {"announcing", "waited"}
  /\ LoopTop(g)
  /\ UNCHANGED <<controlVars, cancelRetry, boundVars, wanted>>

\* The attempt that g's loop is waiting for.
LastAttempt(g) == CHOOSE a \in DOMAIN attempts :
                    /\ attempts[a].generation = g
                    /\ \A b \in DOMAIN attempts : attempts[b].generation = g => b <= a

\* Mutant: the loop does not see that it is stale.
MutAttemptReturns(g) ==
  /\ loops[g] = "attempting"
  /\ attempts[LastAttempt(g)].settled # "no"
  /\ IF attempts[LastAttempt(g)].settled = "resolved"
     THEN /\ loops' = [loops EXCEPT ![g] = "done"]
          /\ reconnectAttempt' = 0
          /\ connecting' = FALSE
     ELSE /\ loops' = [loops EXCEPT ![g] = IF shouldReconnect THEN "reporting" ELSE "failing"]
          /\ reconnectAttempt' = reconnectAttempt + (IF shouldReconnect THEN 1 ELSE 0)
          /\ UNCHANGED connecting
  /\ UNCHANGED <<generation, connected, shouldReconnect, webSocket, cancelVars, attempts,
                 boundVars, wanted>>

\* The attempt has settled.  A stale loop returns; a success ends the loop, and a
\* failure is reported and retried or, without reconnection, reported and thrown.
AttemptReturns(g) ==
  /\ loops[g] = "attempting"
  /\ attempts[LastAttempt(g)].settled # "no"
  /\ IF ~Current(g)
     THEN /\ loops' = [loops EXCEPT ![g] = "done"]
          /\ UNCHANGED <<reconnectAttempt, connecting>>
     ELSE IF attempts[LastAttempt(g)].settled = "resolved"
     THEN /\ loops' = [loops EXCEPT ![g] = "done"]
          /\ reconnectAttempt' = 0
          /\ connecting' = FALSE
     ELSE /\ loops' = [loops EXCEPT ![g] = IF shouldReconnect THEN "reporting" ELSE "failing"]
          /\ reconnectAttempt' = reconnectAttempt + (IF shouldReconnect THEN 1 ELSE 0)
          /\ UNCHANGED connecting
  /\ UNCHANGED <<generation, connected, shouldReconnect, webSocket, cancelVars, attempts,
                 boundVars, wanted>>

\* The chain's id for the report has been read.
Reported(g) ==
  /\ loops[g] = "reporting"
  /\ loops' = [loops EXCEPT ![g] = IF Current(g) THEN "erroring" ELSE "done"]
  /\ UNCHANGED <<controlVars, webSocket, cancelVars, attempts, boundVars, wanted>>

\* The error event has been handled: the delay starts.
Erred(g) ==
  /\ loops[g] = "erroring"
  /\ IF Current(g)
     THEN /\ loops' = [Cancelled(loops) EXCEPT ![g] = "waiting"]
          /\ cancelRetry' = g
     ELSE /\ loops' = [loops EXCEPT ![g] = "done"]
          /\ UNCHANGED cancelRetry
  /\ UNCHANGED <<controlVars, webSocket, cancelAttempt, attempts, boundVars, wanted>>

\* The error event has been handled and there is no reconnection: it is thrown.
GivesUp(g) ==
  /\ loops[g] = "failing"
  /\ loops' = [loops EXCEPT ![g] = "done"]
  /\ IF Current(g)
     THEN connecting' = FALSE /\ wanted' = FALSE
     ELSE UNCHANGED <<connecting, wanted>>
  /\ UNCHANGED <<generation, connected, shouldReconnect, reconnectAttempt, webSocket,
                 cancelVars, attempts, boundVars>>

\* A delay elapses.
DelayElapses(g) ==
  /\ loops[g] \in {"waiting", "lost"}
  /\ loops' = [loops EXCEPT ![g] = IF @ = "waiting" THEN "waited" ELSE "lostOver"]
  /\ cancelRetry' = IF cancelRetry = g THEN 0 ELSE cancelRetry
  /\ UNCHANGED <<controlVars, webSocket, cancelAttempt, attempts, boundVars, wanted>>

\* The delay after a lost connection is over: reconnect, unless it is stale.
Reconnect(g) ==
  /\ loops[g] = "lostOver"
  /\ IF Current(g) /\ shouldReconnect /\ webSocket = 0 /\ ~connecting
     THEN AttemptConnection([loops EXCEPT ![g] = "done"])
     ELSE /\ loops' = [loops EXCEPT ![g] = "done"]
          /\ UNCHANGED <<generation, connecting, webSocket, cancelVars, attempts>>
  /\ UNCHANGED <<connected, shouldReconnect, reconnectAttempt, boundVars, wanted>>

-------------------------------------------------------------------------------
\* Attempt a: the probe, the socket and its callbacks.

Unsettled(a) == attempts[a].settled = "no"

Active(a) == attempts[a].generation = generation /\ webSocket = a

\* Mutant: a probe that succeeds late creates a socket all the same.
MutCreateSocket(a) ==
  /\ ~SkipWait /\ attempts[a].socket = "none"
  /\ attempts' = [attempts EXCEPT ![a].socket = "connecting"]
  /\ webSocket' = a
  /\ UNCHANGED <<controlVars, cancelVars, loops, boundVars, wanted>>

\* The probe connects: the socket is created.
CreateSocket(a) ==
  /\ ~SkipWait /\ Unsettled(a) /\ attempts[a].socket = "none"
  /\ attempts[a].generation = generation
  /\ attempts' = [attempts EXCEPT ![a].socket = "connecting"]
  /\ webSocket' = a
  /\ UNCHANGED <<controlVars, cancelVars, loops, boundVars, wanted>>

\* The handshake completes; onopen is due.
HandshakeDone(a) ==
  /\ attempts[a].socket = "connecting"
  /\ attempts' = [attempts EXCEPT ![a].socket = "open"]
  /\ UNCHANGED <<controlVars, webSocket, cancelVars, loops, boundVars, wanted>>

\* Mutant: onopen trusts whatever socket it was installed on.
MutOnOpen(a) ==
  /\ attempts[a].socket # "none"
  /\ attempts' = [attempts EXCEPT ![a].settled = "resolved"]
  /\ cancelAttempt' = IF cancelAttempt = a THEN 0 ELSE cancelAttempt
  /\ connected' = TRUE
  /\ UNCHANGED <<generation, connecting, shouldReconnect, reconnectAttempt, webSocket,
                 cancelRetry, loops, boundVars, wanted>>

\* onopen: the subscriptions are sent and the attempt resolves.
OnOpen(a) ==
  /\ Unsettled(a) /\ Active(a) /\ attempts[a].socket = "open"
  /\ attempts' = [attempts EXCEPT ![a].settled = "resolved"]
  /\ cancelAttempt' = IF cancelAttempt = a THEN 0 ELSE cancelAttempt
  /\ connected' = TRUE
  /\ UNCHANGED <<generation, connecting, shouldReconnect, reconnectAttempt, webSocket,
                 cancelRetry, loops, boundVars, wanted>>

Fails ==
  /\ failures < MaxFailures
  /\ failures' = failures + 1

\* The attempt times out, its host is not found, its socket closes before it is
\* open or a subscription cannot be sent.
AttemptFails(a) ==
  /\ Fails
  /\ Unsettled(a)
  /\ attempts' = Failed(attempts, a)
  /\ webSocket' = SocketAfter(a)
  /\ cancelAttempt' = IF cancelAttempt = a THEN 0 ELSE cancelAttempt
  /\ UNCHANGED <<controlVars, cancelRetry, loops, requests, wanted>>

\* Mutant: the loss is noticed, but nothing reconnects.
MutLostConnection(a) ==
  /\ Fails
  /\ ~Unsettled(a) /\ Active(a)
  /\ generation' = generation + 1
  /\ connected' = FALSE
  /\ connecting' = FALSE
  /\ webSocket' = 0
  /\ attempts' = [attempts EXCEPT ![a].socket = "closed"]
  /\ wanted' = (wanted /\ shouldReconnect)
  /\ UNCHANGED <<reconnectAttempt, cancelRetry, loops, shouldReconnect, cancelAttempt, requests>>

\* onerror or onclose of an established connection: lostConnection.
LostConnection(a) ==
  /\ Fails
  /\ ~Unsettled(a) /\ Active(a)
  /\ generation' = generation + 1
  /\ connected' = FALSE
  /\ connecting' = FALSE
  /\ webSocket' = 0
  /\ attempts' = [attempts EXCEPT ![a].socket = "closed"]
  /\ IF shouldReconnect
     THEN /\ reconnectAttempt' = reconnectAttempt + 1
          /\ loops' = [Cancelled(loops) EXCEPT ![generation + 1] = "lost"]
          /\ cancelRetry' = generation + 1
     ELSE UNCHANGED <<reconnectAttempt, loops, cancelRetry>>
  /\ wanted' = (wanted /\ shouldReconnect)
  /\ UNCHANGED <<shouldReconnect, cancelAttempt, requests>>

LoopNext(g) ==
  \/ LoopContinues(g) \/ AttemptReturns(g) \/ Reported(g) \/ Erred(g) \/ GivesUp(g)
  \/ DelayElapses(g) \/ Reconnect(g)

SocketNext(a) ==
  \/ CreateSocket(a) \/ HandshakeDone(a) \/ OnOpen(a)
  \/ AttemptFails(a) \/ LostConnection(a)

Next ==
  \/ \E continuousReconnect \in BOOLEAN : Connect(continuousReconnect)
  \/ Disconnect
  \/ \E g \in Generations : LoopNext(g)
  \/ \E a \in DOMAIN attempts : SocketNext(a)

Spec == Init /\ [][Next]_vars

\* Continuations and timers run, the port opens and handshakes complete.  The
\* owner need not call and nothing need fail.
Fairness ==
  /\ \A g \in Generations : WF_vars(LoopNext(g))
  /\ \A a \in Generations :
       WF_vars(a \in DOMAIN attempts /\ (CreateSocket(a) \/ HandshakeDone(a) \/ OnOpen(a)))

FairSpec == Spec /\ Fairness

-------------------------------------------------------------------------------

TypeOK ==
  /\ generation \in 0..(MaxRequests + 2 * MaxFailures)
  /\ attempts \in Seq(Attempt)
  /\ webSocket \in 0..Len(attempts)
  /\ cancelAttempt \in 0..Len(attempts)
  /\ cancelRetry \in 0..generation
  /\ loops \in [Generations -> LoopStates]
  /\ connected \in BOOLEAN /\ connecting \in BOOLEAN
  /\ shouldReconnect \in BOOLEAN /\ wanted \in BOOLEAN
  /\ reconnectAttempt \in 0..MaxFailures
  /\ requests \in 0..MaxRequests
  /\ failures \in 0..MaxFailures

Live == {a \in DOMAIN attempts : attempts[a].socket \in {"connecting", "open"}}

(***************************************************************************)
(* websocket-native-c936.md: "multiple old attempts could create sockets". *)
(* Whatever the order of timeouts, losses, disconnects and new             *)
(* connections, at most one socket is live, only while one is wanted, and  *)
(* `connected` is reported only of a live socket.                          *)
(***************************************************************************)
ConnectionSpec == INSTANCE Connection WITH Sockets <- Generations, live <- Live, up <- connected
ImplementsConnection == ConnectionSpec!Spec

(***************************************************************************)
(* "Cancelling settles the waiter, destroys its probe and invalidates      *)
(* later continuations": an attempt that has not settled is the current    *)
(* generation's and the one that disconnect cancels, a delay that has not  *)
(* elapsed is the one disconnect cuts short, and after disconnect neither  *)
(* is left.                                                                *)
(***************************************************************************)
Cancellable ==
  /\ \A a \in DOMAIN attempts :
       Unsettled(a) => cancelAttempt = a /\ attempts[a].generation = generation
  /\ \A g \in Generations : loops[g] \in {"waiting", "lost"} => cancelRetry = g /\ Current(g)
  /\ ~wanted => cancelAttempt = 0 /\ cancelRetry = 0 /\ webSocket = 0

(***************************************************************************)
(* connect: with continuous reconnection the listener ends up connected,   *)
(* after finitely many failures, unless it is disconnected.                *)
(***************************************************************************)
Reconnects == (wanted /\ shouldReconnect) ~> (connected \/ ~wanted \/ ~shouldReconnect)

=============================================================================
