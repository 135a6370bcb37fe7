----------------------------- MODULE MCTxRecord -----------------------------
(***************************************************************************)
(* The instances of MCTxVM with the hooks of bc.NewTx.                     *)
(***************************************************************************)
EXTENDS MCTxVM, TxRecord
=============================================================================
