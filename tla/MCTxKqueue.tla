------------------------------ MODULE MCTxKqueue ------------------------------
(* TxKqueue for TLC.                                                         *)
EXTENDS TxKqueue, TLC

Symmetry == Permutations(Filp)
===============================================================================
