---------------------------- MODULE MCBlockIterator ----------------------------
(***************************************************************************)
(* A small instance of BlockIterator: a block has one transaction that can *)
(* be decoded and one that cannot, or loading it fails.                    *)
(***************************************************************************)
EXTENDS BlockIterator

MCTxLists == {<<"tx", "txError">>}

=============================================================================
