------------------------------ MODULE MCTxEpoll ------------------------------
(* TxEpoll for TLC.                                                          *)
EXTENDS TxEpoll, TLC

Symmetry == Permutations(Pollable)
===============================================================================
