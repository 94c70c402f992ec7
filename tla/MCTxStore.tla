----------------------------- MODULE MCTxStore -----------------------------
(***************************************************************************)
(* TxStore for TLC.  Every instance is given by the constants in its .cfg. *)
(***************************************************************************)
EXTENDS TxStoreRefinement
=============================================================================
