----------------------------- MODULE MCDataRestore -----------------------------
(* Model values for DataRestore: blocks of transfers that differ. *)
EXTENDS DataRestore, TLC
CONSTANTS Alice, Bob, Carol
MCPublicDatas == {<<[type |-> "Transfer", owner |-> o, amount |-> 0]>> : o \in Owners}
=============================================================================
