------------------------------ MODULE MCTxTimer ------------------------------
(* TxTimer for TLC: a small ring and a small range of ticks.                 *)
EXTENDS TxTimer
===============================================================================
