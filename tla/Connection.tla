------------------------------ MODULE Connection ------------------------------
(***************************************************************************)
(* What ChainWebSocketListener promises its owner: at most one live        *)
(* socket, none unless a connection is wanted, and `connected` only for a  *)
(* live one (docs/websocket-native-c936.md, "Repair and contract").        *)
(***************************************************************************)
CONSTANT Sockets  \* names of sockets

VARIABLES wanted,  \* the owner asked for a connection and has not given it up
          live,    \* sockets being opened or open
          up       \* the connection is reported as connected

connectionVars == <<wanted, live, up>>

Init == wanted = FALSE /\ live = {} /\ up = FALSE

\* The owner asks for a connection.
Request ==
  /\ wanted' = TRUE
  /\ UNCHANGED <<live, up>>

\* A socket is created.
Dial ==
  /\ wanted /\ live = {}
  /\ \E s \in Sockets : live' = {s}
  /\ UNCHANGED <<wanted, up>>

\* The socket is open and subscribed.
Establish ==
  /\ wanted /\ live # {} /\ ~up
  /\ up' = TRUE
  /\ UNCHANGED <<wanted, live>>

\* The socket is closed, by the owner (who wants none any more) or by its loss.
HangUp ==
  /\ live # {}
  /\ live' = {} /\ up' = FALSE
  /\ wanted' \in {wanted, FALSE}

\* No more attempts are made.
GiveUp ==
  /\ wanted /\ live = {}
  /\ wanted' = FALSE
  /\ UNCHANGED <<live, up>>

Next == Request \/ Dial \/ Establish \/ HangUp \/ GiveUp

Spec == Init /\ [][Next]_connectionVars

=============================================================================
