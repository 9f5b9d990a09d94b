----------------------------- MODULE MCTxCatPort ------------------------------
(* TxCatPort for TLC.                                                        *)
EXTENDS TxCatPort
===============================================================================
