----------------------------- MODULE MCTxoIndex -----------------------------
(* The index of unspent outputs on every clean chain of a few transactions. *)
EXTENDS TxoIndexProperties
=============================================================================
