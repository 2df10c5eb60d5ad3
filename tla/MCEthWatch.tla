------------------------------- MODULE MCEthWatch -------------------------------
(* Model values for EthWatch. *)
EXTENDS EthWatch, TLC
CONSTANTS t1, t2, t3
MCTxs == {t1, t2, t3}
=============================================================================
