----------------------------- MODULE ZkSyncState -----------------------------
(***************************************************************************)
(* The state library as a component: one account tree, and the calls the   *)
(* state keeper makes on it.  Every call of ZkSyncState that changes the   *)
(* tree is an action.  The totals deposited and withdrawn, and the set of  *)
(* transactions executed so far, are history: the properties read them.    *)
(***************************************************************************)
EXTENDS Ledger

CONSTANTS
    Genesis,        \* the account tree at the start
    Txs,            \* transactions that may be executed
    Batches,        \* batches of transactions that may be executed
    PriorityOps,    \* priority operations that may be executed
    MaxDeposited    \* bound: no deposit once this much has entered

ASSUME RequestsAssumption ==
    /\ \A tx \in Txs : IsTransaction(tx)
    /\ \A txs \in Batches : txs \in Seq(Range(txs)) /\ \A k \in DOMAIN txs : IsTransaction(txs[k])
    /\ \A op \in PriorityOps : IsPriorityOp(op)
    /\ MaxAccountId \in Nat /\ MaxDeposited \in Nat

ASSUME GenesisAssumption == IsGenesis(Genesis)

VARIABLES
    accounts,       \* ZkSyncState.balance_tree
    fees,           \* fees collected since the last block was sealed
    deposited,      \* total that entered by priority operations
    withdrawn,      \* total that left to Ethereum
    executed        \* the transactions that succeeded

vars == <<accounts, fees, deposited, withdrawn, executed>>

SumBalances(l) == FoldFunction(+, 0, [i \in DOMAIN l |-> l[i].balance])

FeesOf(results) == [k \in DOMAIN results |-> results[k].fee]
Total(s) == FoldSeq(+, 0, s)

-----------------------------------------------------------------------------
Init ==
    /\ accounts = Genesis
    /\ fees = <<>>
    /\ deposited = SumBalances(Genesis)
    /\ withdrawn = 0
    /\ executed = {}

\* execute_tx: a transaction that fails leaves the tree alone.
Tx(tx) ==
    LET r == ExecuteTx(accounts, tx)
    IN  /\ r.ok
        /\ accounts' = r.ledger
        /\ fees' = Append(fees, r.fee)
        /\ withdrawn' = withdrawn + r.out
        /\ executed' = executed \cup {tx}
        /\ UNCHANGED deposited

\* execute_txs_batch
Batch(txs) ==
    LET run == ExecuteBatch(accounts, txs)
    IN  /\ accounts' = run.ledger
        /\ fees' = fees \o FeesOf(run.results)
        /\ withdrawn' = withdrawn + Total([k \in DOMAIN run.results |-> run.results[k].out])
        /\ executed' = IF run.ok THEN executed \cup Range(txs) ELSE executed
        /\ UNCHANGED deposited

\* execute_priority_op
PriorityOp(op) ==
    LET r == ExecutePriorityOp(accounts, op)
    IN  /\ op.kind = "Deposit" => deposited + op.amount <= MaxDeposited
        /\ accounts' = r.ledger
        /\ deposited' = IF op.kind = "Deposit" THEN deposited + op.amount ELSE deposited
        /\ withdrawn' = withdrawn + r.out
        /\ UNCHANGED <<fees, executed>>

\* collect_fee, called when a block is sealed
CollectFee ==
    /\ fees # <<>>
    /\ accounts' = CollectFees(accounts, fees).ledger
    /\ fees' = <<>>
    /\ UNCHANGED <<deposited, withdrawn, executed>>

Next ==
    \/ \E tx \in Txs : Tx(tx)
    \/ \E txs \in Batches : Batch(txs)
    \/ \E op \in PriorityOps : PriorityOp(op)
    \/ CollectFee

Spec == Init /\ [][Next]_vars

-----------------------------------------------------------------------------
TypeOK ==
    /\ \A i \in DOMAIN accounts :
          accounts[i].balance \in Nat /\ accounts[i].nonce \in Nat
    /\ \A k \in DOMAIN fees : fees[k] \in Nat
    /\ deposited \in Nat /\ withdrawn \in Nat
    /\ executed \subseteq Txs \cup UNION {Range(b) : b \in Batches}

\* No amount is created or lost: what was deposited is on an account, waits as a
\* fee of the open block, or left to Ethereum.  It relates every handler of
\* the state library with the fee collection that happens only at the seal.
Conservation ==
    deposited = SumBalances(accounts) + Total(fees) + withdrawn

\* get_free_account_id counts the accounts ("TODO check for collisions",
\* state.rs:249): the ids must stay an interval, and the addresses distinct,
\* also after a failed batch has deleted the accounts it created.
IdsDense ==
    /\ DOMAIN accounts = 0 .. Cardinality(DOMAIN accounts) - 1
    /\ \A i, j \in DOMAIN accounts :
          accounts[i].address = accounts[j].address => i = j

\* The account tree is one that the state library can go on with: typed, its ids
\* an interval, its addresses distinct.
WellFormed == TypeOK /\ IdsDense

\* A transaction that took effect once never does so again (state handlers,
\* "Nonce mismatch"), whatever was executed in between.
NoReplay == \A tx \in executed : ~ExecuteTx(accounts, tx).ok

\* execute_txs_batch, "Restore the state that was observed before the batch
\* execution" (state.rs:207): after a failure the tree is the one before the batch.
FailedBatchRestores ==
    \A txs \in Batches :
       LET run == ExecuteBatch(accounts, txs) IN ~run.ok => run.ledger = accounts

\* Each update that apply_account_updates is given while a batch is taken back
\* meets its assertions (state.rs:143-196 panics otherwise).
Undoable(l, updates) ==
    \A k \in DOMAIN updates :
       UpdateFits(ApplyUpdates(l, SubSeq(updates, 1, k - 1)), updates[k])

UndoNeverPanics ==
    \A txs \in Batches :
       LET run == BatchPrefix(accounts, txs)
           undone == FlattenSeq([k \in DOMAIN run.results |->
                       ReverseUpdates(Reverse(run.results)[k].updates)])
       IN  ~run.ok => Undoable(run.ledger, undone)

\* execute_txs_batch takes a failed batch back without a panic and without a trace.
BatchUndone == FailedBatchRestores /\ UndoNeverPanics

\* The updates an execution reports, applied to the old tree, give the new one:
\* the database, the mempool and the data restore follow the state by them.
UpdatesTell ==
    /\ \A tx \in Txs :
          LET r == ExecuteTx(accounts, tx)
          IN  Undoable(accounts, r.updates) /\ ApplyUpdates(accounts, r.updates) = r.ledger
    /\ \A op \in PriorityOps :
          LET r == ExecutePriorityOp(accounts, op)
          IN  ApplyUpdates(accounts, r.updates) = r.ledger
    /\ LET c == CollectFees(accounts, fees)
       IN  ApplyUpdates(accounts, c.updates) = c.ledger
=============================================================================
