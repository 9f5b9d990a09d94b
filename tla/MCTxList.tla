------------------------------- MODULE MCTxList -------------------------------
(* TxList for TLC.                                                           *)
EXTENDS TxList, TLC

Symmetry == Permutations(Task)
===============================================================================
