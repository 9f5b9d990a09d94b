------------------------------ MODULE MCTxRelay -------------------------------
(* TxRelay for TLC.                                                          *)
EXTENDS TxRelay, TLC
===============================================================================
