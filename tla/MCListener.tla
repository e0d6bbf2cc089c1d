------------------------------ MODULE MCListener ------------------------------
(***************************************************************************)
(* Small instances of Listener: blocks of two, no and one transaction.     *)
(***************************************************************************)
EXTENDS Listener

MCTxLists == {<<>>, <<"tx">>, <<"tx", "tx">>, <<"txError", "tx">>}
MCBlockTxs == <<<<>>, <<"tx", "tx">>, <<>>, <<"txError", "tx">>>>

=============================================================================
