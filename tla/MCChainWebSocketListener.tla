----------------------- MODULE MCChainWebSocketListener -----------------------
(***************************************************************************)
(* A small instance of ChainWebSocketListener: as in the tracer, the local *)
(* node's port is probed before a socket is created.                       *)
(***************************************************************************)
EXTENDS ChainWebSocketListener

=============================================================================
