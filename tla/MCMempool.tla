------------------------------- MODULE MCMempool -------------------------------
(* Two users, a recipient without an account, a block of 12 chunks. *)
EXTENDS Mempool, TLC

Tx(kind, from, nonce, to, pays) ==
    [kind |-> kind, from |-> from, nonce |-> nonce, to |-> to, pays |-> pays]

MCGenesis == [a \in {"alice", "bob"} |-> [id |-> IF a = "alice" THEN 0 ELSE 1, nonce |-> 0]]

PayCarol == Tx("Transfer", "alice", 0, "carol", TRUE)
PayBob == Tx("Transfer", "alice", 0, "bob", TRUE)
Leave == Tx("Withdraw", "bob", 0, "bob", TRUE)
LeaveAgain == Tx("Withdraw", "bob", 1, "bob", TRUE)

\* A batch of two accounts, a competitor for the nonce of its first transaction,
\* and what its second has to wait for.
MCInputs == {<<PayBob>>, <<Leave>>, <<PayCarol, LeaveAgain>>}

\* A batch and its first transaction on its own.
OverlappingInputs == {<<PayCarol>>, <<PayCarol, Leave>>}

MCChunks == [Transfer |-> 2, TransferToNew |-> 6, Withdraw |-> 6]
MCPriorityChunks == <<6>>
=============================================================================
