------------------------------- MODULE MCTxPort -------------------------------
(* TxPort for TLC.                                                           *)
EXTENDS TxPort
===============================================================================
