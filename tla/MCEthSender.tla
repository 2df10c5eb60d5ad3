----------------------------- MODULE MCEthSender -----------------------------
(***************************************************************************)
(* Instances of EthSender for TLC.  Two blocks are the fewest with which a *)
(* verification and a commit wait for the same nonce; the first block has  *)
(* withdrawals in the run on safety, so that all three types of operations *)
(* are sent; with two prices a stuck transaction is replaced and its       *)
(* replacement is at the limit.                                            *)
(***************************************************************************)
EXTENDS EthSender

MCWithdrawalBlocks == {1}

\* Of crashes, reorganisations, failing requests and lost database transactions a
\* behaviour of the run on liveness has one (a crash that loses the open database
\* transaction is one); fairness never asks for a second.
OneFault ==
    LET used == [crashes |-> MaxCrashes - faults.crashes, lost |-> MaxLost - faults.lost,
                 others |-> MaxReorgs - faults.reorgs + MaxErrors - faults.errors]
    IN  Max({used.crashes, used.lost}) + used.others <= 1
=============================================================================
