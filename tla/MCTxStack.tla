------------------------------ MODULE MCTxStack ------------------------------
(* TxStack for TLC.                                                          *)
EXTENDS TxStack
===============================================================================
