------------------------------- MODULE MCTxLoop -------------------------------
(* TxRing, and with it TxLoop, for TLC.                                       *)
EXTENDS TxRing
===============================================================================
