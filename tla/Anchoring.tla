------------------------------ MODULE Anchoring ------------------------------
(***************************************************************************)
(* What the Ethereum sender promises (zksync_eth_sender/src/lib.rs, "FIFO  *)
(* order"): on the contract, for good, the blocks are committed one after  *)
(* the other, verified one after the other and never before their commit,  *)
(* and withdrawals are completed no more often than blocks are verified.   *)
(***************************************************************************)
EXTENDS Naturals

VARIABLES
    committed,      \* totalBlocksCommitted
    verified,       \* totalBlocksVerified
    completed       \* calls of completeWithdrawals

Init == committed = 0 /\ verified = 0 /\ completed = 0

CommitNext == committed' = committed + 1 /\ UNCHANGED <<verified, completed>>

VerifyNext ==
    /\ verified < committed
    /\ verified' = verified + 1
    /\ UNCHANGED <<committed, completed>>

CompleteNext ==
    /\ completed < verified
    /\ completed' = completed + 1
    /\ UNCHANGED <<committed, verified>>

Next == CommitNext \/ VerifyNext \/ CompleteNext

Spec == Init /\ [][Next]_<<committed, verified, completed>>
=============================================================================
