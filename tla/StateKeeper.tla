----------------------------- MODULE StateKeeper -----------------------------
(***************************************************************************)
(* Block production of the zkSync core server: the state keeper            *)
(* (core/bin/zksync_core/src/state_keeper), the committer (committer.rs)   *)
(* and the tables they write (core/lib/storage), with a crash of the       *)
(* process at any moment and the restart from the database.                *)
(*                                                                         *)
(* The keeper executes a mini-block operation by operation, keeps the      *)
(* outcome in the pending block, and hands pending and sealed blocks to    *)
(* the committer over a channel.  The committer handles each request in    *)
(* one database transaction.  A panic of any task stops the process.       *)
(*                                                                         *)
(* The mempool, the block proposer and the Ethereum watcher are the        *)
(* environment here: any waiting transactions in any order, and the        *)
(* priority operations in the order of their serial ids.                   *)
(***************************************************************************)
EXTENDS Ledger

CONSTANTS
    Genesis,            \* the account tree of block 0
    Variants,           \* what users submit: sequences of transactions, a batch if longer than 1
    PriorityOps,        \* sequence: the operation with serial id n is PriorityOps[n + 1]
    BlockSizes,         \* available_block_chunk_sizes
    Chunks,             \* chunks of public data, by name of operation
    Gas,                \* cost in gas, by name of operation
    GasLimit,           \* TX_GAS_LIMIT
    MaxWithdrawals,     \* max_number_of_withdrawals_per_block
    MaxIterations,      \* max_miniblock_iterations
    FastIterations,     \* fast_miniblock_iterations
    UsizeValues,        \* number of values of a usize, the type of chunks_left
    MaxSubmitted,       \* bound: submissions of transactions
    MaxTxs,             \* bound: transactions or batches in a mini-block
    MaxPriorityOps,     \* bound: priority operations in a mini-block
    ChannelCapacity,    \* requests the channel to the committer holds
    MaxCrashes          \* bound: crashes of the process

ASSUME BlockSizesAssumption ==
    /\ BlockSizes \in Seq(Nat) /\ BlockSizes # <<>>
    /\ \A i, j \in DOMAIN BlockSizes : i <= j => BlockSizes[i] <= BlockSizes[j]

ASSUME BoundsAssumption ==
    /\ PriorityOps \in Seq(Range(PriorityOps))
    /\ MaxSubmitted \in Nat /\ MaxTxs \in Nat /\ MaxPriorityOps \in Nat /\ MaxCrashes \in Nat

ASSUME RequestsAssumption ==
    /\ \A v \in Variants : v \in Seq(Range(v)) /\ \A k \in DOMAIN v : IsTransaction(v[k])
    /\ \A k \in DOMAIN PriorityOps : IsPriorityOp(PriorityOps[k])
    /\ MaxAccountId \in Nat

ASSUME GenesisAssumption == IsGenesis(Genesis)

\* The names of operations that have a size.
Sized ==
    {"Transfer", "TransferToNew", "Withdraw", "ChangePubKey", "ForcedExit", "Close",
     "Deposit", "FullExit"}

MaxBlockSize == BlockSizes[Len(BlockSizes)]

\* A transfer that creates an account needs no less room than one that does not,
\* and the size of a block is a usize.
ASSUME SizesAssumption ==
    /\ Chunks \in [Sized -> Nat] /\ Chunks["Transfer"] <= Chunks["TransferToNew"]
    /\ Gas \in [Sized \cup {"Base"} -> Nat]
    /\ UsizeValues \in Nat /\ MaxBlockSize < UsizeValues

VARIABLES
    \* the process
    mode,               \* "idle", "executing" a mini-block, "restoring", or "down"
    accounts,           \* ZkSyncState: the account tree
    blockNumber,        \* ZkSyncState.block_number: the block being built
    currentPriorityOp,  \* current_unprocessed_priority_op
    success,            \* PendingBlock.success_operations
    failed,             \* PendingBlock.failed_txs
    updates,            \* PendingBlock.account_updates
    fees,               \* PendingBlock.collected_fees
    pending,            \* the counters and flags of PendingBlock
    miniBlock,          \* what is left of the mini-block in execution
    restore,            \* what is left to re-execute, and the failed transactions
    commitQ,            \* tx_for_commitments: the channel to the committer
    ready,              \* MempoolState.ready_txs: the variants that wait in memory
    \* the database
    blocks,             \* blocks and their COMMIT operations, by number
    pendingRows,        \* numbers of the rows of pending_block
    execTxs,            \* executed_transactions, by transaction
    execPriorityOps,    \* executed_priority_operations, by serial id
    stateUpdates,       \* account updates with their order ids, by block
    verified,           \* number of the last block with a VERIFY operation
    mempoolRows,        \* mempool_txs
    \* the environment and history
    known,              \* number of priority operations the watcher has reported
    submitted,          \* number of submissions
    crashes,            \* number of crashes
    sealed,             \* the operations of each committed block, as sealed
    wentBack            \* a restart took an older block for the last one

process == <<mode, accounts, blockNumber, currentPriorityOp, success, failed,
             updates, fees, pending, miniBlock, restore, commitQ, ready>>
database == <<blocks, pendingRows, execTxs, execPriorityOps, stateUpdates,
              verified, mempoolRows, sealed>>
vars == <<process, database, known, submitted, crashes, wentBack>>

-----------------------------------------------------------------------------
(* The pending block *)

\* Mutant: a new block does not start at the next priority operation.
NewPendingFromZero(before) ==
    [chunksLeft |-> MaxBlockSize, index |-> 0, before |-> 0, iteration |-> 0,
     withdrawals |-> 0, gas |-> Gas["Base"], fast |-> FALSE, stored |-> 0]

NewPending(before) ==
    [chunksLeft |-> MaxBlockSize, index |-> 0, before |-> before, iteration |-> 0,
     withdrawals |-> 0, gas |-> Gas["Base"], fast |-> FALSE, stored |-> 0]

\* PendingBlock::new
FreshPending(before) ==
    /\ success' = <<>> /\ failed' = <<>> /\ updates' = <<>> /\ fees' = <<>>
    /\ pending' = NewPending(before)

TxOp(tx, op, index) == [type |-> "tx", tx |-> tx, op |-> op, index |-> index]
PriorityOp(id, op, index) == [type |-> "priority", id |-> id, op |-> op, index |-> index]

NoMiniBlock == [priorityOps |-> <<>>, txs |-> <<>>]
NothingToRestore == [ops |-> <<>>, failed |-> <<>>]

SumOf(s, F(_)) == SumFunction([k \in DOMAIN s |-> F(s[k])])

\* Block::chunks_used, and the size the contract pads the block to.
ChunksUsed(ops) == SumOf(ops, LAMBDA o : Chunks[o.op])
ChunksNeeded(l, txs) == SumOf(txs, LAMBDA tx : Chunks[PlannedOp(l, tx)])

\* Only transactions that convert to an operation cost gas.
GasNeeded(l, txs) ==
    SumOf(txs, LAMBDA tx : IF Convertible(l, tx) THEN Gas[PlannedOp(l, tx)] ELSE 0)

Withdrawals(txs) == Cardinality({k \in DOMAIN txs : txs[k].kind = "Withdraw"})

\* Mutants: the size of the block is not checked.
TxsFitAnySize(txs) ==
    /\ pending.gas + GasNeeded(accounts, txs) <= GasLimit
    /\ pending.withdrawals + Withdrawals(txs) <= MaxWithdrawals

PriorityOpFitsAnySize(data) == pending.gas + Gas[data.kind] <= GasLimit

\* The checks apply_tx and apply_batch make before they execute: the size of
\* the block, the gas of the contract calls, the number of withdrawals.
TxsFit(txs) ==
    /\ pending.chunksLeft >= ChunksNeeded(accounts, txs)
    /\ pending.gas + GasNeeded(accounts, txs) <= GasLimit
    /\ pending.withdrawals + Withdrawals(txs) <= MaxWithdrawals

PriorityOpFits(data) ==
    /\ pending.chunksLeft >= Chunks[data.kind]
    /\ pending.gas + Gas[data.kind] <= GasLimit

\* What executing txs leaves in the pending block; results is <<>> when they
\* failed.  Each success takes chunks from the block, in the width of a usize.
Count(txs, results, chunks) ==
    pending' = [pending EXCEPT
        !.chunksLeft = (@ - Len(results) * chunks) % UsizeValues,
        !.index = @ + Len(results),
        !.gas = @ + GasNeeded(accounts, txs),
        !.withdrawals = @ + Withdrawals(txs),
        !.fast = @ \/ (Len(txs) = 1 /\ txs[1].kind = "Withdraw" /\ txs[1].fast)]

Record(txs, results) ==
    /\ success' = success \o [k \in DOMAIN results |->
                                TxOp(txs[k], results[k].op, pending.index + k - 1)]
    /\ updates' = updates \o FlattenSeq([k \in DOMAIN results |-> results[k].updates])
    /\ fees' = fees \o [k \in DOMAIN results |-> results[k].fee]
    /\ failed' = IF results = <<>> THEN failed \o txs ELSE failed

\* apply_tx and apply_batch, after their checks.  chunks_needed of a batch is
\* that of the whole batch.
ApplyTxs(txs) ==
    LET run == ExecuteBatch(accounts, txs)
    IN  /\ accounts' = run.ledger
        /\ Record(txs, run.results)
        /\ Count(txs, run.results, ChunksNeeded(accounts, txs))
        /\ UNCHANGED <<blockNumber, currentPriorityOp>>

\* Mutant: the number of the next priority operation stays.
ApplyPriorityOpUncounted(id) ==
    LET data == PriorityOps[id + 1]
        r == ExecutePriorityOp(accounts, data)
    IN  /\ accounts' = r.ledger
        /\ success' = Append(success, PriorityOp(id, data.kind, pending.index))
        /\ updates' = updates \o r.updates
        /\ pending' = [pending EXCEPT !.chunksLeft = @ - Chunks[data.kind],
                                      !.index = @ + 1,
                                      !.gas = @ + Gas[data.kind]]
        /\ UNCHANGED <<currentPriorityOp, failed, fees, blockNumber>>

\* apply_priority_op, after its checks
ApplyPriorityOp(id) ==
    LET data == PriorityOps[id + 1]
        r == ExecutePriorityOp(accounts, data)
    IN  /\ accounts' = r.ledger
        /\ success' = Append(success, PriorityOp(id, data.kind, pending.index))
        /\ updates' = updates \o r.updates
        /\ pending' = [pending EXCEPT !.chunksLeft = @ - Chunks[data.kind],
                                      !.index = @ + 1,
                                      !.gas = @ + Gas[data.kind]]
        /\ currentPriorityOp' = currentPriorityOp + 1
        /\ UNCHANGED <<failed, fees, blockNumber>>

-----------------------------------------------------------------------------
(* Leaving the process *)

\* The memory of the process is lost; the database stays.
Stop ==
    /\ mode' = "down"
    /\ accounts' = Genesis /\ blockNumber' = 0 /\ currentPriorityOp' = 0
    /\ FreshPending(0)
    /\ miniBlock' = NoMiniBlock /\ restore' = NothingToRestore
    /\ commitQ' = <<>> /\ ready' = {}

\* A panic in a task: wait_for_tasks ends the process.
Panic == Stop /\ UNCHANGED <<database, known, submitted, crashes, wentBack>>

-----------------------------------------------------------------------------
(* The state keeper *)

\* Mutant: the updates of the fee account are not stored with the block.
UpdatesToStoreNoFees(all) ==
    [first |-> pending.stored, updates |-> SubSeq(all, pending.stored + 1, Len(updates))]

UpdatesToStore(all) ==
    [first |-> pending.stored, updates |-> SubSeq(all, pending.stored + 1, Len(all))]

\* Mutant: the number of the block is raised before the request is built.
SealUnderNextNumber ==
    LET collected == CollectFees(accounts, fees)
        all == updates \o collected.updates
    IN  /\ accounts' = collected.ledger
        /\ commitQ' = Append(commitQ,
              [type |-> "Block", number |-> blockNumber + 1,
               before |-> pending.before, after |-> currentPriorityOp,
               success |-> success, failed |-> failed, root |-> collected.ledger,
               toStore |-> UpdatesToStore(all)])
        /\ blockNumber' = blockNumber + 1
        /\ FreshPending(currentPriorityOp)
        /\ UNCHANGED <<currentPriorityOp>>

\* seal_pending_block; the size of a block with too many chunks panics.
Seal ==
    LET collected == CollectFees(accounts, fees)
        all == updates \o collected.updates
    IN  /\ accounts' = collected.ledger
        /\ commitQ' = Append(commitQ,
              [type |-> "Block", number |-> blockNumber,
               before |-> pending.before, after |-> currentPriorityOp,
               success |-> success, failed |-> failed, root |-> collected.ledger,
               toStore |-> UpdatesToStore(all)])
        /\ blockNumber' = blockNumber + 1
        /\ FreshPending(currentPriorityOp)
        /\ UNCHANGED <<currentPriorityOp>>

SealPanics == ChunksUsed(success) > MaxBlockSize

ChannelHasRoom == Len(commitQ) < ChannelCapacity

\* An operation did not fit: seal the block and try the operation again.
SealAndRetry ==
    /\ ChannelHasRoom
    /\ IF SealPanics THEN Panic
       ELSE /\ Seal
            /\ UNCHANGED <<mode, miniBlock, restore, ready,
                           database, known, submitted, crashes, wentBack>>

Executing == mode = "executing"

\* execute_proposed_block: the priority operations come first.
ExecutePriority ==
    /\ Executing
    /\ miniBlock.priorityOps # <<>>
    /\ LET id == Head(miniBlock.priorityOps)
       IN  IF PriorityOpFits(PriorityOps[id + 1])
           THEN /\ ApplyPriorityOp(id)
                /\ miniBlock' = [miniBlock EXCEPT !.priorityOps = Tail(@)]
                /\ UNCHANGED <<mode, restore, commitQ, ready,
                               database, known, submitted, crashes, wentBack>>
           ELSE SealAndRetry

ExecuteTxs ==
    /\ Executing
    /\ miniBlock.priorityOps = <<>>
    /\ miniBlock.txs # <<>>
    /\ LET txs == Head(miniBlock.txs)
       IN  IF TxsFit(txs)
           THEN /\ ApplyTxs(txs)
                /\ miniBlock' = [miniBlock EXCEPT !.txs = Tail(@)]
                /\ UNCHANGED <<mode, restore, commitQ, ready,
                               database, known, submitted, crashes, wentBack>>
           ELSE SealAndRetry

\* Mutant: the iterations of a block are not counted.
SameIteration == pending.iteration

\* The end of execute_proposed_block: count the iteration, seal after too many,
\* otherwise store the pending block (store_pending_block).
NextIteration == pending.iteration + IF success # <<>> THEN 1 ELSE 0

Iterations == IF pending.fast THEN FastIterations ELSE MaxIterations

StorePending(iteration) ==
    /\ commitQ' = Append(commitQ,
          [type |-> "PendingBlock", number |-> blockNumber,
           success |-> success, failed |-> failed, toStore |-> UpdatesToStore(updates)])
    /\ pending' = [pending EXCEPT !.stored = Len(updates), !.iteration = iteration]
    /\ UNCHANGED <<accounts, blockNumber, currentPriorityOp, success, failed, updates, fees>>

FinishMiniBlock ==
    /\ Executing
    /\ miniBlock = NoMiniBlock
    /\ ChannelHasRoom
    /\ IF NextIteration > Iterations /\ SealPanics THEN Panic
       ELSE /\ mode' = "idle"
            /\ IF NextIteration > Iterations THEN Seal ELSE StorePending(NextIteration)
            /\ UNCHANGED <<miniBlock, restore, ready,
                           database, known, submitted, crashes, wentBack>>

-----------------------------------------------------------------------------
(* The committer and its database transactions *)

\* Mutant: the last row wins.
StoreTxAlways(rows, tx, row) ==
    [t \in DOMAIN rows \cup {tx} |-> IF t = tx THEN row ELSE rows[t]]

\* store_executed_operation: a success replaces the row of an earlier failure,
\* a failure never replaces a row.
StoreTx(rows, tx, row) ==
    [t \in DOMAIN rows \cup {tx} |->
        IF t = tx /\ (row.success \/ tx \notin DOMAIN rows) THEN row ELSE rows[t]]

\* store_executed_priority_operation: the first row stays.
StorePriorityOp(rows, id, row) ==
    [n \in DOMAIN rows \cup {id} |-> IF n \in DOMAIN rows THEN rows[n] ELSE row]

Rows(tables, number, op) ==
    IF op.type = "tx"
    THEN [tables EXCEPT !.txs = StoreTx(@, op.tx,
            [block |-> number, success |-> TRUE, op |-> op.op, index |-> op.index])]
    ELSE [tables EXCEPT !.priorityOps = StorePriorityOp(@, op.id,
            [block |-> number, op |-> op.op, index |-> op.index])]

FailedRow(number) == [block |-> number, success |-> FALSE, op |-> "None", index |-> -1]

TxsOf(ops) == {k \in DOMAIN ops : ops[k].type = "tx"}

ExecutedBy(req) ==
    Range(req.failed) \cup {req.success[k].tx : k \in TxsOf(req.success)}

\* remove_tx: what is left of the rows of a variant.
RemainingOf(v, executed) ==
    FoldLeft(LAMBDA rest, tx : IF tx \in executed THEN rest ELSE Append(rest, tx), <<>>, v)

\* save_block_transactions: the successes, then the failures.
SaveTransactions(req) ==
    LET stored == FoldLeft(LAMBDA tables, op : Rows(tables, req.number, op),
                           [txs |-> execTxs, priorityOps |-> execPriorityOps], req.success)
        all == FoldLeft(LAMBDA rows, tx : StoreTx(rows, tx, FailedRow(req.number)),
                        stored.txs, req.failed)
    IN  /\ execTxs' = all
        /\ execPriorityOps' = stored.priorityOps
        /\ mempoolRows' = {RemainingOf(v, ExecutedBy(req)) : v \in mempoolRows} \ {<<>>}

\* Mutant: the order ids start again in each request.
UpdateRowsFromZero(toStore) ==
    [k \in DOMAIN toStore.updates |-> [order |-> k - 1, update |-> toStore.updates[k]]]

\* commit_state_update: one row for each update, numbered from first_update_order_id.
UpdateRows(toStore) ==
    [k \in DOMAIN toStore.updates |->
        [order |-> toStore.first + k - 1, update |-> toStore.updates[k]]]

StoredFor(number) == IF number \in DOMAIN stateUpdates THEN stateUpdates[number] ELSE <<>>

CommitStateUpdate(req) ==
    stateUpdates' = [n \in DOMAIN stateUpdates \cup {req.number} |->
                        IF n = req.number THEN StoredFor(n) \o UpdateRows(req.toStore)
                        ELSE stateUpdates[n]]

Memory == <<mode, accounts, blockNumber, currentPriorityOp, success, failed,
            updates, fees, pending, miniBlock, restore>>

\* save_pending_block
SavePendingBlock ==
    /\ commitQ # <<>>
    /\ LET req == Head(commitQ)
       IN  /\ req.type = "PendingBlock"
           /\ SaveTransactions(req)
           /\ CommitStateUpdate(req)
           /\ pendingRows' = pendingRows \cup {req.number}
    /\ commitQ' = Tail(commitQ)
    /\ UNCHANGED <<Memory, ready, blocks, verified, sealed, known, submitted, crashes, wentBack>>

\* commit_block; the primary key of blocks refuses a number that is taken.
CommitBlock ==
    /\ commitQ # <<>>
    /\ LET req == Head(commitQ)
       IN  /\ req.type = "Block"
           /\ IF req.number <= Len(blocks) THEN Panic
              ELSE /\ SaveTransactions(req)
                   /\ CommitStateUpdate(req)
                   /\ pendingRows' = pendingRows \ {req.number}
                   /\ blocks' = Append(blocks, [before |-> req.before, after |-> req.after,
                                                root |-> req.root])
                   /\ sealed' = Append(sealed, req.success)
                   /\ commitQ' = Tail(commitQ)
                   /\ UNCHANGED <<Memory, ready, verified, known, submitted, crashes, wentBack>>

\* poll_for_new_proofs_task: the blocks are verified one after the other.
VerifyBlock ==
    /\ mode # "down"
    /\ verified < Len(blocks)
    /\ verified' = verified + 1
    /\ UNCHANGED <<process, blocks, pendingRows, execTxs, execPriorityOps,
                   stateUpdates, mempoolRows, sealed, known, submitted, crashes, wentBack>>

-----------------------------------------------------------------------------
(* Crash and restart *)

Crash ==
    /\ mode # "down"
    /\ crashes < MaxCrashes
    /\ crashes' = crashes + 1
    /\ Stop
    /\ UNCHANGED <<database, known, submitted, wentBack>>

\* sort_by and sort_by_key: in the order of the keys, equal keys as they come.
Earlier(keys, i) ==
    {j \in DOMAIN keys : keys[j] < keys[i] \/ (keys[j] = keys[i] /\ j < i)}

SortedBy(rows, keys) ==
    [k \in DOMAIN rows |->
        rows[CHOOSE i \in DOMAIN rows : Cardinality(Earlier(keys, i)) = k - 1]]

\* The updates stored for a block, in the order of their ids.
LoadedUpdates(number) ==
    LET rows == StoredFor(number)
        sorted == SortedBy(rows, [k \in DOMAIN rows |-> rows[k].order])
    IN  [k \in DOMAIN sorted |-> sorted[k].update]

\* load_state_diff to the last block: the number it returns is the highest that
\* has an update, and the verified one when there is no update.
LastUpdated ==
    LET updated == {n \in verified + 1 .. Len(blocks) : StoredFor(n) # <<>>}
    IN  IF updated = {} THEN verified ELSE Max(updated)

\* Not so after a block without an account update: one that holds only exits of
\* unknown accounts, or only failures.
LastIsFound == LastUpdated = Len(blocks)

\* load_committed_state: the accounts that the updates of the first blocks give.
StateAfter(number) ==
    ApplyUpdates(Genesis, FlattenSeq([n \in 1 .. number |-> LoadedUpdates(n)]))

\* The operations that have a row under a block, the failures apart.
StoredTxs(number) ==
    {TxOp(t, execTxs[t].op, execTxs[t].index) :
        t \in {x \in DOMAIN execTxs : execTxs[x].block = number /\ execTxs[x].success}}

StoredPriorityOps(number) ==
    {PriorityOp(n, execPriorityOps[n].op, execPriorityOps[n].index) :
        n \in {x \in DOMAIN execPriorityOps : execPriorityOps[x].block = number}}

ByIndex(ops) == SortedBy(ops, [k \in DOMAIN ops |-> ops[k].index])

\* Mutant: the transactions come before the priority operations.
LoadedOpsByTable(number) ==
    ByIndex(SetToSeq(StoredTxs(number))) \o ByIndex(SetToSeq(StoredPriorityOps(number)))

\* get_block_executed_ops: ordered by block_index.
LoadedOps(number) == ByIndex(SetToSeq(StoredTxs(number) \cup StoredPriorityOps(number)))

LoadedFailures(number) ==
    SetToSeq({t \in DOMAIN execTxs : execTxs[t].block = number /\ ~execTxs[t].success})

\* get_pending_block: a stored row at or below the last block is outdated.
LoadPending(last) ==
    IF pendingRows = {} \/ Max(pendingRows) <= last THEN NothingToRestore
    ELSE [ops |-> LoadedOps(last + 1), failed |-> LoadedFailures(last + 1)]

\* The assertions of load_account_tree and get_pending_block.
RestartSucceeds ==
    /\ LastUpdated # 0 => blocks[LastUpdated].root = StateAfter(LastUpdated)
    /\ pendingRows # {} => Max(pendingRows) <= LastUpdated + 1

UnprocessedPriorityOp(last) == IF last = 0 THEN 0 ELSE blocks[last].after

\* restore_from_db and ZkSyncStateKeeper::new; the mempool's collect_garbage
\* drops what has a row in executed_transactions.
Restart ==
    /\ mode = "down"
    /\ RestartSucceeds
    /\ mode' = "restoring"
    /\ accounts' = StateAfter(LastUpdated)
    /\ blockNumber' = LastUpdated + 1
    /\ currentPriorityOp' = UnprocessedPriorityOp(LastUpdated)
    /\ FreshPending(UnprocessedPriorityOp(LastUpdated))
    /\ restore' = LoadPending(LastUpdated)
    /\ mempoolRows' = {v \in mempoolRows : v[1] \notin DOMAIN execTxs}
    /\ ready' = mempoolRows'
    /\ wentBack' = (wentBack \/ ~LastIsFound)
    /\ UNCHANGED <<miniBlock, commitQ, blocks, pendingRows, execTxs, execPriorityOps,
                   stateUpdates, verified, sealed, known, submitted, crashes>>

\* initialize: the stored operations are executed again, one by one.
RestoreOp ==
    /\ mode = "restoring"
    /\ restore.ops # <<>>
    /\ LET op == Head(restore.ops)
           fits == IF op.type = "tx" THEN TxsFit(<<op.tx>>)
                   ELSE PriorityOpFits(PriorityOps[op.id + 1])
       IN  IF ~fits THEN Panic
           ELSE /\ IF op.type = "tx" THEN ApplyTxs(<<op.tx>>) ELSE ApplyPriorityOp(op.id)
                /\ restore' = [restore EXCEPT !.ops = Tail(@)]
                /\ UNCHANGED <<mode, miniBlock, commitQ, ready,
                               database, known, submitted, crashes, wentBack>>

\* Mutant: the restored updates do not count as stored.
FinishRestoreUnstored ==
    /\ mode = "restoring"
    /\ restore.ops = <<>>
    /\ mode' = "idle"
    /\ failed' = restore.failed
    /\ restore' = NothingToRestore
    /\ UNCHANGED <<accounts, blockNumber, currentPriorityOp, success, updates, fees, pending,
                   miniBlock, commitQ, ready, database, known, submitted, crashes, wentBack>>

FinishRestore ==
    /\ mode = "restoring"
    /\ restore.ops = <<>>
    /\ mode' = "idle"
    /\ pending' = [pending EXCEPT !.stored = Len(updates)]
    /\ failed' = restore.failed
    /\ restore' = NothingToRestore
    /\ UNCHANGED <<accounts, blockNumber, currentPriorityOp, success, updates, fees,
                   miniBlock, commitQ, ready, database, known, submitted, crashes, wentBack>>

-----------------------------------------------------------------------------
(* The environment: users, Ethereum, the mempool and the block proposer *)

\* The mempool takes a transaction again, also one that waits already or is
\* being executed.
Submit(v) ==
    /\ mode \in {"idle", "executing"}
    /\ submitted < MaxSubmitted
    /\ mempoolRows' = mempoolRows \cup {v}
    /\ ready' = ready \cup {v}
    /\ submitted' = submitted + 1
    /\ UNCHANGED <<Memory, commitQ, blocks, pendingRows, execTxs, execPriorityOps, stateUpdates,
                   verified, sealed, known, crashes, wentBack>>

ReportPriorityOp ==
    /\ known < Len(PriorityOps)
    /\ known' = known + 1
    /\ UNCHANGED <<process, database, submitted, crashes, wentBack>>

NextPriorityOps ==
    LET n == Min({known - currentPriorityOp, MaxPriorityOps})
    IN  [k \in 1 .. n |-> currentPriorityOp + k - 1]

\* The timer of the block proposer ticks.
ProposeMiniBlock(txs) ==
    /\ mode = "idle"
    /\ mode' = "executing"
    /\ miniBlock' = [priorityOps |-> NextPriorityOps, txs |-> txs]
    /\ ready' = ready \ Range(txs)
    /\ UNCHANGED <<accounts, blockNumber, currentPriorityOp, success, failed, updates, fees,
                   pending, restore, commitQ, database, known, submitted, crashes, wentBack>>

Proposals == {s \in BoundedSeq(ready, MaxTxs) : IsInjective(s)}

-----------------------------------------------------------------------------
Init ==
    /\ mode = "idle"
    /\ accounts = Genesis
    /\ blockNumber = 1
    /\ currentPriorityOp = 0
    /\ success = <<>> /\ failed = <<>> /\ updates = <<>> /\ fees = <<>>
    /\ pending = NewPending(0)
    /\ miniBlock = NoMiniBlock
    /\ restore = NothingToRestore
    /\ commitQ = <<>>
    /\ ready = {}
    /\ blocks = <<>>
    /\ pendingRows = {}
    /\ execTxs = <<>>
    /\ execPriorityOps = <<>>
    /\ stateUpdates = <<>>
    /\ verified = 0
    /\ mempoolRows = {}
    /\ known = 0
    /\ submitted = 0
    /\ crashes = 0
    /\ sealed = <<>>
    /\ wentBack = FALSE

Propose == \E txs \in Proposals : ProposeMiniBlock(txs)
Keeper == ExecutePriority \/ ExecuteTxs \/ FinishMiniBlock
Committer == SavePendingBlock \/ CommitBlock
Recovery == Restart \/ RestoreOp \/ FinishRestore
Environment == ReportPriorityOp \/ \E v \in Variants : Submit(v)

Next == Propose \/ Keeper \/ Committer \/ VerifyBlock \/ Crash \/ Recovery \/ Environment

Spec == Init /\ [][Next]_vars

\* The proposer's timer, the tasks of the process and the supervisor that
\* restarts it go on; users, Ethereum, provers and crashes owe nothing.
Fairness ==
    /\ WF_vars(Propose)
    /\ WF_vars(Keeper)
    /\ WF_vars(Committer)
    /\ WF_vars(Recovery)

FairSpec == Spec /\ Fairness

-----------------------------------------------------------------------------
(* Type *)

Running == mode \in {"idle", "executing"}

\* The control state of the process and the counters of the tables.
ControlTypeOK ==
    /\ mode \in {"idle", "executing", "restoring", "down"}
    /\ blockNumber \in Nat /\ currentPriorityOp \in Nat /\ pending.before \in Nat
    /\ \A n \in DOMAIN blocks : blocks[n].before \in Nat /\ blocks[n].after \in Nat
    /\ pendingRows \subseteq Nat
    /\ verified \in 0 .. Len(blocks)
    /\ known \in 0 .. Len(PriorityOps)
    /\ submitted \in 0 .. MaxSubmitted /\ crashes \in 0 .. MaxCrashes

\* The counters of the pending block as well: chunks_left is a usize.
TypeOK ==
    /\ ControlTypeOK
    /\ pending \in [chunksLeft : Nat, index : Nat, before : Nat, iteration : Nat,
                    withdrawals : Nat, gas : Nat, fast : BOOLEAN, stored : Nat]
    /\ miniBlock.priorityOps \in Seq(Nat)

-----------------------------------------------------------------------------
(* Safety *)

\* The operations of the committed blocks, and of those sealed in the channel.
SealedAtLast ==
    FoldLeft(LAMBDA line, req : IF req.type = "Block" THEN Append(line, req.success) ELSE line,
             sealed, commitQ)

\* The keeper builds the block that follows the committed and the sealed ones,
\* also after a restart: commit_block inserts every number exactly once.
\* (load_state_diff, storage chain/state/mod.rs: "If `to_block` is `None`, then
\* it will be assumed to be the number of the latest committed block".)
NumbersFollowCommits ==
    mode # "down" => blockNumber = Len(SealedAtLast) + 1

\* The priority operations of the committed blocks follow each other without a
\* gap or an overlap, as the contract demands of processed_priority_ops.
RangesContiguous ==
    \A n \in DOMAIN blocks :
       /\ blocks[n].before = UnprocessedPriorityOp(n - 1)
       /\ blocks[n].before <= blocks[n].after

IdsOf(ops) ==
    FoldLeft(LAMBDA ids, o : IF o.type = "priority" THEN Append(ids, o.id) ELSE ids, <<>>, ops)

Interval(from, to) == [k \in 1 .. to - from |-> from + k - 1]

\* The range a block announces to the contract is that of the priority
\* operations it contains, in their order: the contract pops so many from its
\* queue and hashes them.  Several crashes may have happened in between.
RangeIsContent ==
    \A n \in DOMAIN blocks : IdsOf(sealed[n]) = Interval(blocks[n].before, blocks[n].after)

\* What the database returns for a committed block is the block that was sealed,
\* operation by operation in order: the Ethereum sender and the witness
\* generator build public data from it that must match the root hash.
StoredBlockIsSealed == \A n \in DOMAIN blocks : LoadedOps(n) = sealed[n]

\* The updates stored up to a block give the accounts of its root hash
\* ("restored root_hash is different", state_keeper/mod.rs:242).
UpdatesGiveRoot == \A n \in DOMAIN blocks : StateAfter(n) = blocks[n].root

\* The updates of a block, stored and then in flight.
UpdatesAtLast(number) ==
    FoldLeft(LAMBDA rows, req :
                IF req.number = number THEN rows \o UpdateRows(req.toStore) ELSE rows,
             StoredFor(number), commitQ)

\* Stored and in flight, the updates of the open block are those the keeper
\* counts as stored, each under its position: first_update_order_id never
\* skips nor repeats one, although it restarts from a re-execution.
UpdateOrder ==
    Running =>
        UpdatesAtLast(blockNumber)
          = UpdateRows([first |-> 0, updates |-> SubSeq(updates, 1, pending.stored)])

\* What the committer writes is what the keeper has sealed or is building:
\* operations, priority operations, accounts and the positions of the updates, in
\* every interleaving of pending blocks, sealed blocks and crashes, unless a
\* restart went back: then the rows of two blocks of one number are mixed.
DatabaseFollowsKeeper ==
    ~wentBack => StoredBlockIsSealed /\ RangeIsContent /\ UpdatesGiveRoot /\ UpdateOrder

\* Executing the stored operations again after a restart has the stored
\* outcome: none fails (it would be overwritten by failed_txs), each gets its
\* index back, and the updates are those in the database.
RestoreFaithful ==
    mode = "restoring" =>
        /\ failed = <<>>
        /\ success \o restore.ops = LoadPending(blockNumber - 1).ops
        /\ restore.ops = <<>> => updates = LoadedUpdates(blockNumber)

\* A stored pending block can be restored if the last block is found ("it must be
\* greater exactly by 1", state_keeper/mod.rs:146, and the root hash assertion);
\* otherwise a pending block that follows the last one ends every restart.
RestartPossible == mode = "down" /\ LastIsFound => RestartSucceeds

\* initialize (state_keeper/mod.rs:335) succeeds, with the block it left, as long as
\* the restarts find the last block.
RestartResumes == ~wentBack => RestoreFaithful /\ RestartPossible

\* A transaction succeeds once, in one block, through crashes, re-execution and
\* resubmission.
SuccessOnce ==
    LET all == IF Running THEN Append(SealedAtLast, success) ELSE sealed
    IN  \A n, m \in DOMAIN all : \A i \in TxsOf(all[n]), j \in TxsOf(all[m]) :
           all[n][i].tx = all[m][j].tx => n = m /\ i = j

\* "All transactions in batch must be either executed successfully, or otherwise
\* fail all together" (mempool.rs:104): all in one block, side by side.
BatchAtomic ==
    \A n \in DOMAIN sealed : \A v \in Variants :
        \A i \in TxsOf(sealed[n]) :
            Len(v) > 1 /\ sealed[n][i].tx \in Range(v) =>
                \E first \in DOMAIN sealed[n] :
                    /\ first + Len(v) - 1 <= Len(sealed[n])
                    /\ \A k \in DOMAIN v :
                          LET o == sealed[n][first + k - 1]
                          IN  o.type = "tx" /\ o.tx = v[k]

\* The open block never holds more than the largest block has room for
\* ("If we can't add the tx to the block due to the size limit, we return this
\* tx, seal the block and execute it again", state_keeper/mod.rs:626).
ContentFits == ChunksUsed(success) <= MaxBlockSize

\* What apply_batch takes from chunks_left is there: the batch that comes next
\* fits as often as it has transactions.
CounterHolds ==
    LET txs == Head(miniBlock.txs)
    IN  Executing /\ miniBlock.txs # <<>> /\ TxsFit(txs) =>
            Len(txs) * ChunksNeeded(accounts, txs) <= pending.chunksLeft

\* The open block begins with the priority operation at which the block of the
\* number below ends, sealed in the channel or stored, also when a restart went
\* back behind the last block (current_unprocessed_priority_op,
\* state_keeper/mod.rs:306).
OpenBlockContinues ==
    LET before == {k \in DOMAIN commitQ :
                      commitQ[k].type = "Block" /\ commitQ[k].number = blockNumber - 1}
    IN  mode # "down" =>
            \/ \E k \in before : pending.before = commitQ[k].after
            \/ /\ before = {} /\ blockNumber - 1 \in 0 .. Len(blocks)
               /\ pending.before = UnprocessedPriorityOp(blockNumber - 1)

\* chunks_left has fallen below zero: apply_batch takes the chunks of the whole
\* batch once for each of its transactions (state_keeper/mod.rs:676).
CounterWrapped ==
    /\ pending.chunksLeft > MaxBlockSize
    /\ \E v \in Variants :
           Len(v) > 1 /\ Range(v) \subseteq {success[k].tx : k \in TxsOf(success)}

\* The block being built has its types and goes on where the last one ends.  It has
\* the next number unless a restart went back, and room for its content unless a
\* batch in it has wrapped the counter of its chunks; both happen.
OpenBlockSound ==
    /\ TypeOK
    /\ OpenBlockContinues
    /\ ~wentBack => NumbersFollowCommits
    /\ ~CounterWrapped => ContentFits

-----------------------------------------------------------------------------
(* Action properties *)

\* A submitted transaction leaves mempool_txs only when the block that executed
\* it is stored ("user had no enough funds for transfer, then deposited some and
\* sent the same transfer again", storage chain/operations/mod.rs:131).
WaitsUntilExecuted ==
    [][\A v \in mempoolRows : v \notin mempoolRows' =>
          commitQ # <<>> /\ Range(v) \subseteq ExecutedBy(Head(commitQ))]_vars

\* A block is stored under the number that follows the last one, also when a
\* restart went back and the keeper builds a number anew: the primary key of
\* blocks stops the process first (save_block, storage chain/block/mod.rs:585).
CommitsInOrder ==
    [][blocks' # blocks => /\ commitQ[1].number = Len(blocks) + 1
                           /\ Len(blocks') = Len(blocks) + 1]_vars

-----------------------------------------------------------------------------
(* Liveness *)

\* A priority operation the watcher has reported is in a committed block at
\* last, whatever crashes happen: the contract lets users exit otherwise.
PriorityOpsProcessed ==
    \A n \in 0 .. Len(PriorityOps) - 1 :
        known > n ~> blocks # <<>> /\ UnprocessedPriorityOp(Len(blocks)) > n
=============================================================================
