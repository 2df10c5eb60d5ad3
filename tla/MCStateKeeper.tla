---------------------------- MODULE MCStateKeeper ----------------------------
(***************************************************************************)
(* Instances of StateKeeper.  Account 0 collects the fees, account 1 is    *)
(* Alice with a balance of 2; blocks hold two large operations; the sizes  *)
(* of operations are the real ones, one unit of gas stands for an op.      *)
(***************************************************************************)
EXTENDS StateKeeper

CONSTANTS Alice, Bob, Validator, K1

Account(a, key, balance) ==
    [address |-> a, nonce |-> 0, key |-> key, balance |-> balance]

MCGenesis == (0 :> Account(Validator, NoKey, 0)) @@ (1 :> Account(Alice, K1, 2))

MCTransfer(to, amount, fee, nonce) ==
    [kind |-> "Transfer", from |-> Alice, id |-> 1, to |-> to, amount |-> amount,
     fee |-> fee, nonce |-> nonce, key |-> K1]

MCWithdraw(amount, fee, nonce, fast) ==
    [kind |-> "Withdraw", from |-> Alice, id |-> 1, to |-> Bob, amount |-> amount,
     fee |-> fee, nonce |-> nonce, key |-> K1, fast |-> fast]

MCDeposit(to, amount) == [kind |-> "Deposit", to |-> to, amount |-> amount]
MCFullExit(id, a) == [kind |-> "FullExit", id |-> id, from |-> a]

MCChunks ==
    [Transfer |-> 2, TransferToNew |-> 6, Withdraw |-> 6, Deposit |-> 6, FullExit |-> 6,
     ChangePubKey |-> 6, ForcedExit |-> 6, Close |-> 1]

MCGas ==
    [Base |-> 1, Transfer |-> 1, TransferToNew |-> 1, Withdraw |-> 1, Deposit |-> 1,
     FullExit |-> 1, ChangePubKey |-> 1, ForcedExit |-> 1, Close |-> 1]

\* A transfer that creates an account, a fast withdrawal that needs the deposit
\* and the transfer before it, and a batch that competes with both and is
\* unaffordable without the deposit.
MCVariants ==
    {<<MCTransfer(Bob, 1, 1, 0)>>, <<MCWithdraw(2, 0, 1, TRUE)>>,
     <<MCTransfer(Alice, 1, 0, 0), MCTransfer(Alice, 3, 0, 1)>>}

\* The exit is of an account that is there only after the transfer to Bob: without
\* it, a block of the exit alone has no account update, and a restart goes back.
MCPriorityOps == <<MCDeposit(Alice, 2), MCFullExit(2, Bob)>>

\* Two large operations are in a block.  A deposit and the batch fit too, but the
\* chunks of the batch are taken twice, and the counter wraps.
MCBlockSizes == <<6, 12>>

\* An exit of an account that is there.
MCLivePriorityOps == <<MCDeposit(Alice, 2), MCFullExit(1, Alice)>>

\* A deposit, a batch that takes twice its chunks, and an exit.
MCWrapVariants == {<<MCTransfer(Alice, 1, 0, 0), MCTransfer(Alice, 1, 0, 1)>>}

\* An exit of an account that does not exist, then a deposit.
MCExitPriorityOps == <<MCFullExit(2, Bob), MCDeposit(Alice, 1)>>

MCLiveVariants == {<<MCTransfer(Bob, 1, 1, 0)>>}

\* A transaction that fails until the deposit arrives.
MCPoorVariants == {<<MCTransfer(Alice, 3, 0, 0)>>}
=============================================================================
