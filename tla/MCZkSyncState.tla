---------------------------- MODULE MCZkSyncState ----------------------------
(* Three addresses, four accounts at most, amounts of 0, 1 and 2. *)
EXTENDS Agreement

CONSTANTS Alice, Bob, Carol, Validator, K1, K2

Account(a, key, balance) ==
    [address |-> a, nonce |-> 0, key |-> key, balance |-> balance]

MCGenesis == (0 :> Account(Validator, NoKey, 0)) @@ (1 :> Account(Alice, K1, 2))

MCTransfer(from, id, to, amount, fee, nonce, key) ==
    [kind |-> "Transfer", from |-> from, id |-> id, to |-> to, amount |-> amount,
     fee |-> fee, nonce |-> nonce, key |-> key]

MCRekey(from, id, fee, nonce, key) ==
    [kind |-> "ChangePubKey", from |-> from, id |-> id, fee |-> fee, nonce |-> nonce,
     key |-> key, newKey |-> key, owned |-> TRUE]

MCTxs ==
    {MCTransfer(Alice, 1, to, 1, fee, nonce, K1) :
        to \in {Alice, Bob, Validator}, fee \in {0, 1}, nonce \in {0, 1}}
    \cup {MCRekey(a[1], a[2], 0, n, K2) : a \in {<<Alice, 1>>, <<Bob, 2>>}, n \in {0, 1}}
    \cup {MCTransfer(Bob, 2, Carol, 1, 0, 1, K2),
          [kind |-> "Close", from |-> Alice, id |-> 1, nonce |-> 0],
          [kind |-> "Withdraw", from |-> Alice, id |-> 1, to |-> Carol, amount |-> 1, fee |-> 1,
           nonce |-> 1, key |-> K1]}
    \cup {[kind |-> "ForcedExit", id |-> 1, to |-> to, fee |-> 0, nonce |-> n, key |-> K1] :
             to \in {Bob, Validator}, n \in {0, 1}}

\* A creation, a second creation, then transactions that may fail; a change of
\* key between two spendings of one account.
MCBatches ==
    {<<MCTransfer(Alice, 1, Bob, 1, 0, 0, K1), MCTransfer(Alice, 1, Carol, 1, 0, 1, K1),
       MCTransfer(Alice, 1, Bob, 1, 0, 2, K1)>>,
     <<MCRekey(Alice, 1, 1, 0, K2), MCTransfer(Alice, 1, Carol, 1, 0, 1, K2),
       MCTransfer(Alice, 1, Alice, 1, 1, 2, K1)>>,
     <<MCTransfer(Alice, 1, Carol, 1, 1, 1, K1), MCRekey(Alice, 1, 0, 2, K2)>>}

MCPriorityOps ==
    {[kind |-> "Deposit", to |-> to, amount |-> 2] : to \in {Alice, Carol}}
    \cup {[kind |-> "FullExit", id |-> id, from |-> Carol] : id \in {2, 3}}

\* Single requests, two batches, and blocks that mix both kinds of requests.
MCBlocks ==
    {<<r>> : r \in MCTxs \cup MCPriorityOps} \cup MCBatches
    \cup {<<[kind |-> "Deposit", to |-> Carol, amount |-> 2],
             MCTransfer(Alice, 1, Carol, 1, 1, nonce, K1),
             [kind |-> "FullExit", id |-> 2, from |-> Carol],
             [kind |-> "ForcedExit", id |-> 1, to |-> Carol, fee |-> 0, nonce |-> nonce, key |-> K1]>> :
               nonce \in {0, 1}}
=============================================================================
