-------------------------------- MODULE Mempool --------------------------------
(***************************************************************************)
(* The mempool of the core server (core/bin/zksync_core/src/mempool.rs),   *)
(* its table (core/lib/storage/src/chain/mempool) and what keeps its       *)
(* nonces current: the committer's UpdateNonces, sent inside the database  *)
(* transaction of the block it tells of (committer.rs).                    *)
(*                                                                         *)
(* The execution of a proposal is StateKeeper's; here a transaction        *)
(* succeeds when it can pay and its nonce is the one of its account, and a *)
(* batch succeeds when all of it does.                                     *)
(***************************************************************************)
EXTENDS Integers, Sequences, FiniteSets, SequencesExt, FiniteSetsExt, Functions

CONSTANTS
    Genesis,            \* the accounts of block 0: address -> [id, nonce]
    Inputs,             \* what the API passes on: sequences of transactions
    Chunks,             \* chunks of public data, by name of operation
    MaxBlockChunks,     \* max_block_size_chunks
    MaxWithdrawals,     \* max_number_of_withdrawals_per_block
    PriorityChunks,     \* sequence: chunks of the priority operations, in their order
    MaxSubmitted,       \* bound: requests of the API
    MaxCrashes          \* bound: crashes of the process

ASSUME MempoolAssumption ==
    /\ \A v \in Inputs : v # <<>>
    /\ MaxBlockChunks \in Nat /\ MaxWithdrawals \in Nat
    /\ \A n \in DOMAIN PriorityChunks : PriorityChunks[n] \in 1 .. MaxBlockChunks

VARIABLES
    \* the mempool
    up,             \* the process runs
    nonces,         \* account_nonces: address -> nonce
    ids,            \* account_ids: account id -> address
    ready,          \* ready_txs: variants [txs, batch], batch 0 for a single one
    updatesQ,       \* the UpdateNonces requests that wait in the channel
    \* the block proposer, the state keeper and the committer
    proposed,       \* the proposal in execution
    ledger,         \* the accounts of the state keeper
    block,          \* the pending block: results of its transactions, account updates
    commitQ,        \* the requests to the committer
    notified,       \* the committer has sent UpdateNonces for the first request
    nextPriority,   \* current_priority_op_number
    \* the database
    rows,           \* mempool_txs, in the order of created_at: [tx, batch]
    nextBatch,      \* the next batch_id
    results,        \* executed_transactions: transaction -> success
    committed,      \* the accounts the blocks give, the number of their priority operations
    stored,         \* the stored pending block, and the accounts it gives
    \* the environment and history
    known,          \* priority operations the watcher has reported
    submitted, crashes,
    accepted,       \* variants answered with Ok
    refused         \* variants answered with NonceMismatch

memory == <<up, nonces, ids, ready, updatesQ>>
core == <<proposed, ledger, block, commitQ, notified, nextPriority>>
database == <<rows, nextBatch, results, committed, stored>>
history == <<known, submitted, crashes, accepted, refused>>
vars == <<memory, core, database, history>>

Sum(s, F(_)) == FoldSeq(LAMBDA x, sum : F(x) + sum, 0, s)

-----------------------------------------------------------------------------
(* MempoolState *)

NonceOf(address) == IF address \in DOMAIN nonces THEN nonces[address] ELSE 0

NonceTooLow(tx) == tx.nonce < NonceOf(tx.from)

\* Mutant: a transfer takes the chunks of one to an account that exists.
ChunksForTxAsKnown(accounts, tx) == Chunks[tx.kind]

\* chunks_for_tx: a transfer to an address without an account takes more.
ChunksForTx(accounts, tx) ==
    IF tx.kind = "Transfer" /\ tx.to \notin accounts THEN Chunks["TransferToNew"]
    ELSE Chunks[tx.kind]

RequiredChunks(accounts, txs) == Sum(txs, LAMBDA tx : ChunksForTx(accounts, tx))

Known == DOMAIN nonces

\* Mutant: the id of a new account is not remembered.
ApplyUpdateNoId(m, u) ==
    IF u.type = "Create" THEN [m EXCEPT !.nonces = (u.address :> u.nonce) @@ @]
    ELSE IF u.id \in DOMAIN m.ids THEN [m EXCEPT !.nonces[m.ids[u.id]] = u.nonce]
    ELSE m

\* Mutant: the new nonce is counted up once more.
ApplyUpdatePlusOne(m, u) ==
    IF u.type = "Create"
    THEN [nonces |-> (u.address :> u.nonce) @@ m.nonces, ids |-> (u.id :> u.address) @@ m.ids]
    ELSE IF u.id \in DOMAIN m.ids THEN [m EXCEPT !.nonces[m.ids[u.id]] = u.nonce + 1]
    ELSE m

\* One account update of UpdateNonces; the API refuses to close an account, so
\* that no update deletes one.
ApplyUpdate(m, u) ==
    IF u.type = "Create"
    THEN [nonces |-> (u.address :> u.nonce) @@ m.nonces, ids |-> (u.id :> u.address) @@ m.ids]
    ELSE IF u.id \in DOMAIN m.ids
    THEN [m EXCEPT !.nonces[m.ids[u.id]] = u.nonce]
    ELSE m

-----------------------------------------------------------------------------
(* The table mempool_txs *)

RowsOf(variant) == [k \in DOMAIN variant.txs |-> [tx |-> variant.txs[k], batch |-> variant.batch]]

\* group_by(batch_id): consecutive rows of a batch are one variant.
Starts(table) ==
    {k \in DOMAIN table : k = 1 \/ table[k].batch = 0 \/ table[k].batch # table[k - 1].batch}

Group(table, first) ==
    LET next == {k \in Starts(table) : k > first}
        last == IF next = {} THEN Len(table) ELSE Min(next) - 1
    IN  [txs |-> [k \in 1 .. last - first + 1 |-> table[first + k - 1].tx],
         batch |-> table[first].batch]

\* load_txs: sorted by the nonce of the last transaction, a stable sort.
LoadTxs(table) ==
    LET key(first) == LET g == Group(table, first) IN Last(g.txs).nonce
        firsts == SetToSortSeq(Starts(table),
                               LAMBDA a, b : key(a) < key(b) \/ (key(a) = key(b) /\ a < b))
    IN  [k \in DOMAIN firsts |-> Group(table, firsts[k])]

\* collect_garbage: what is executed is removed, a batch when its first
\* transaction is.
CollectGarbage(table) ==
    LET done == {v \in Range(LoadTxs(table)) : v.txs[1] \in DOMAIN results}
        hashes == UNION {Range(v.txs) : v \in done}
    IN  SelectSeq(table, LAMBDA row : row.tx \notin hashes)

-----------------------------------------------------------------------------
(* Requests of the API *)

IsBatch(txs) == Len(txs) > 1

\* The limits add_batch checks before anything is stored.
BatchFits(txs) ==
    /\ RequiredChunks(Known, txs) <= MaxBlockChunks
    /\ Len(SelectSeq(txs, LAMBDA tx : tx.kind = "Withdraw")) <= MaxWithdrawals

\* Mutant: the transaction is only kept in memory.
AddInMemory(txs) ==
    LET variant == [txs |-> txs, batch |-> IF IsBatch(txs) THEN nextBatch ELSE 0]
    IN  /\ nextBatch' = IF IsBatch(txs) THEN nextBatch + 1 ELSE nextBatch
        /\ ready' = Append(ready, variant)
        /\ accepted' = accepted \cup {txs}
        /\ UNCHANGED <<rows, refused>>

\* add_tx and add_batch: the rows are committed first, the nonces checked after.
Add(txs) ==
    LET variant == [txs |-> txs, batch |-> IF IsBatch(txs) THEN nextBatch ELSE 0]
    IN  /\ rows' = rows \o RowsOf(variant)
        /\ nextBatch' = IF IsBatch(txs) THEN nextBatch + 1 ELSE nextBatch
        /\ IF \E tx \in Range(txs) : NonceTooLow(tx)
           THEN refused' = refused \cup {txs} /\ UNCHANGED <<ready, accepted>>
           ELSE ready' = Append(ready, variant) /\ accepted' = accepted \cup {txs}
                  /\ UNCHANGED refused

NewRequest(txs) ==
    /\ up
    /\ submitted < MaxSubmitted
    /\ submitted' = submitted + 1
    /\ IsBatch(txs) => BatchFits(txs)
    /\ Add(txs)
    /\ UNCHANGED <<up, nonces, ids, updatesQ, core, results, committed, stored, known, crashes>>

\* MempoolRequest::UpdateNonces
UpdateNonces ==
    /\ up
    /\ updatesQ # <<>>
    /\ LET m == FoldLeft(ApplyUpdate, [nonces |-> nonces, ids |-> ids], Head(updatesQ))
       IN  nonces' = m.nonces /\ ids' = m.ids
    /\ updatesQ' = Tail(updatesQ)
    /\ UNCHANGED <<up, ready, core, database, history>>

-----------------------------------------------------------------------------
(* The proposal of a block *)

ChunksOfPriorityOps(from, n) == Sum([k \in 1 .. n |-> PriorityChunks[from + k]], LAMBDA c : c)

\* select_priority_ops: as many of the next operations as fit into a block.
PriorityOpsTaken ==
    Max({n \in 0 .. known - nextPriority :
            ChunksOfPriorityOps(nextPriority, n) <= MaxBlockChunks})

ChunksLeft == MaxBlockChunks - ChunksOfPriorityOps(nextPriority, PriorityOpsTaken)

\* Mutant: a variant that takes all the chunks that are left does not fit.
TxsTakenWithRoom(chunks) ==
    Max({n \in 0 .. Len(ready) :
            n = 0 \/ Sum(SubSeq(ready, 1, n), LAMBDA v : RequiredChunks(Known, v.txs)) < chunks})

\* prepare_tx_for_block: the longest prefix of ready_txs that fits.
TxsTaken(chunks) ==
    Max({n \in 0 .. Len(ready) :
            Sum(SubSeq(ready, 1, n), LAMBDA v : RequiredChunks(Known, v.txs)) <= chunks})

\* Mutant: the variant that does not fit is not pushed back.
RemainingDropped(n) == SubSeq(ready, n + 2, Len(ready))

Remaining(n) == SubSeq(ready, n + 1, Len(ready))

NoProposal == [active |-> FALSE, txs |-> <<>>, priorityOps |-> 0]

\* MempoolRequest::GetBlock, for the block proposer; an empty proposal changes
\* nothing here.  The keeper takes the proposals in their order, one at a time.
GetBlock ==
    /\ up
    /\ proposed = NoProposal
    /\ ready # <<>> \/ known > nextPriority
    /\ LET n == TxsTaken(ChunksLeft)
       IN  /\ proposed' = [active |-> TRUE, txs |-> SubSeq(ready, 1, n),
                           priorityOps |-> PriorityOpsTaken]
           /\ ready' = Remaining(n)
           /\ nextPriority' = nextPriority + PriorityOpsTaken
    /\ UNCHANGED <<up, nonces, ids, updatesQ, ledger, block, commitQ, notified, database, history>>

-----------------------------------------------------------------------------
(* The state keeper and the committer, as far as the mempool depends on them *)

EmptyBlock == [results |-> <<>>, updates |-> <<>>, priorityOps |-> 0]

Created(l, address) ==
    IF address \in DOMAIN l THEN l
    ELSE (address :> [id |-> Cardinality(DOMAIN l), nonce |-> 0]) @@ l

\* Mutant: a nonce that was used is executed again.
ExecutableReplayed(l, tx) == tx.pays /\ tx.from \in DOMAIN l /\ l[tx.from].nonce >= tx.nonce

\* What a transaction takes of the block in the state keeper's count.
ChunksNeeded(tx) ==
    IF tx.kind = "Transfer" /\ tx.to \notin DOMAIN ledger THEN Chunks["TransferToNew"]
    ELSE Chunks[tx.kind]

Executable(l, tx) == tx.pays /\ tx.from \in DOMAIN l /\ l[tx.from].nonce = tx.nonce

UpdateOf(l, address) == [type |-> "Update", id |-> l[address].id, address |-> address,
                         nonce |-> l[address].nonce]
CreateOf(l, address) == [UpdateOf(l, address) EXCEPT !.type = "Create"]

\* One transaction: the new accounts and the account updates, ok FALSE if it fails.
ExecuteTx(run, tx) ==
    IF ~run.ok \/ ~Executable(run.ledger, tx) THEN [run EXCEPT !.ok = FALSE]
    ELSE LET after == [Created(run.ledger, tx.to) EXCEPT ![tx.from].nonce = @ + 1]
         IN  [ok |-> TRUE, ledger |-> after,
              updates |-> run.updates
                \o (IF tx.to \in DOMAIN run.ledger THEN <<>> ELSE <<CreateOf(after, tx.to)>>)
                \o <<UpdateOf(after, tx.from)>>]

\* apply_tx and apply_batch: a variant succeeds or fails as one.
ExecuteVariant ==
    /\ up
    /\ proposed.txs # <<>>
    /\ LET txs == Head(proposed.txs).txs
           run == FoldLeft(ExecuteTx, [ok |-> TRUE, ledger |-> ledger, updates |-> <<>>], txs)
       IN  /\ ledger' = IF run.ok THEN run.ledger ELSE ledger
           /\ block' = [block EXCEPT
                  !.results = @ \o [k \in DOMAIN txs |-> [tx |-> txs[k], success |-> run.ok]],
                  !.updates = @ \o (IF run.ok THEN run.updates ELSE <<>>)]
    /\ proposed' = [proposed EXCEPT !.txs = Tail(@)]
    /\ UNCHANGED <<memory, commitQ, notified, nextPriority, database, history>>

\* The end of execute_proposed_block: the pending block is stored, or sealed.
FinishMiniBlock(seal) ==
    /\ up
    /\ proposed # NoProposal /\ proposed.txs = <<>>
    /\ LET built == [block EXCEPT !.priorityOps = @ + proposed.priorityOps]
       IN  /\ block' = IF seal THEN EmptyBlock ELSE built
           /\ commitQ' = Append(commitQ, [built |-> built, seal |-> seal, ledger |-> ledger])
    /\ proposed' = NoProposal
    /\ UNCHANGED <<memory, ledger, notified, nextPriority, database, history>>

\* commit_block sends UpdateNonces before its transaction is committed.
NotifyMempool ==
    /\ up
    /\ commitQ # <<>> /\ Head(commitQ).seal /\ ~notified
    /\ notified' = TRUE
    /\ updatesQ' = Append(updatesQ, Head(commitQ).built.updates)
    /\ UNCHANGED <<up, nonces, ids, ready, proposed, ledger, block, commitQ, nextPriority,
                   database, history>>

\* store_executed_operation: a failure does not replace a row.
StoreResults(table, new) ==
    LET succeeded == {r.tx : r \in {x \in Range(new) : x.success}}
    IN  [tx \in DOMAIN table \cup {r.tx : r \in Range(new)} |->
            tx \in succeeded \/ (tx \in DOMAIN table /\ table[tx])]

\* save_pending_block, or the end of commit_block: one database transaction.
CommitRequest ==
    /\ up
    /\ commitQ # <<>>
    /\ LET req == Head(commitQ)
           executed == {r.tx : r \in Range(req.built.results)}
       IN  /\ req.seal => notified
           /\ results' = StoreResults(results, req.built.results)
           /\ rows' = SelectSeq(rows, LAMBDA row : row.tx \notin executed)
           /\ stored' = [ledger |-> req.ledger,
                          built |-> IF req.seal THEN EmptyBlock ELSE req.built]
           /\ committed' = IF ~req.seal THEN committed
                           ELSE [ledger |-> req.ledger, priorityOps |->
                                    committed.priorityOps + req.built.priorityOps]
    /\ commitQ' = Tail(commitQ)
    /\ notified' = FALSE
    /\ UNCHANGED <<memory, proposed, ledger, block, nextPriority, nextBatch, history>>

-----------------------------------------------------------------------------
(* Crash and restart *)

Crash ==
    /\ up
    /\ crashes < MaxCrashes
    /\ crashes' = crashes + 1
    /\ up' = FALSE
    /\ nonces' = <<>> /\ ids' = <<>> /\ ready' = <<>> /\ updatesQ' = <<>>
    /\ proposed' = NoProposal /\ ledger' = Genesis /\ block' = EmptyBlock
    /\ commitQ' = <<>> /\ notified' = FALSE /\ nextPriority' = 0
    /\ UNCHANGED <<database, known, submitted, accepted, refused>>

NoncesOf(l) == [a \in DOMAIN l |-> l[a].nonce]
IdsOf(l) == [i \in {l[a].id : a \in DOMAIN l} |-> CHOOSE a \in DOMAIN l : l[a].id = i]

\* restore_from_db: the accounts of the committed blocks, the rows that remain.
RestoreFromDb ==
    /\ nonces' = NoncesOf(committed.ledger) /\ ids' = IdsOf(committed.ledger)
    /\ rows' = CollectGarbage(rows)
    /\ ready' = LoadTxs(CollectGarbage(rows))

\* The state keeper executes the stored pending block again.
Restart ==
    /\ ~up
    /\ up' = TRUE
    /\ RestoreFromDb
    /\ ledger' = stored.ledger
    /\ block' = stored.built
    /\ nextPriority' = committed.priorityOps + stored.built.priorityOps
    /\ UNCHANGED <<updatesQ, proposed, commitQ, notified, nextBatch, results, committed, stored,
                   history>>

-----------------------------------------------------------------------------
PriorityOpArrives ==
    /\ known < Len(PriorityChunks)
    /\ known' = known + 1
    /\ UNCHANGED <<memory, core, database, submitted, crashes, accepted, refused>>

Init ==
    /\ up = TRUE
    /\ nonces = NoncesOf(Genesis) /\ ids = IdsOf(Genesis)
    /\ ready = <<>> /\ updatesQ = <<>>
    /\ proposed = NoProposal /\ ledger = Genesis /\ block = EmptyBlock
    /\ commitQ = <<>> /\ notified = FALSE /\ nextPriority = 0
    /\ rows = <<>> /\ nextBatch = 1 /\ results = <<>>
    /\ committed = [ledger |-> Genesis, priorityOps |-> 0]
    /\ stored = [ledger |-> Genesis, built |-> EmptyBlock]
    /\ known = 0 /\ submitted = 0 /\ crashes = 0
    /\ accepted = {} /\ refused = {}

Request == \E txs \in Inputs : NewRequest(txs)
Execute == ExecuteVariant \/ \E seal \in BOOLEAN : FinishMiniBlock(seal)
Commit == NotifyMempool \/ CommitRequest

Next == Request \/ UpdateNonces \/ GetBlock \/ Execute \/ Commit
          \/ Crash \/ Restart \/ PriorityOpArrives

\* The proposer's timer ticks for ever, every task is polled, the process is
\* started again.
Fairness == WF_vars(UpdateNonces) /\ WF_vars(GetBlock) /\ WF_vars(Execute)
              /\ WF_vars(Commit) /\ WF_vars(Restart)

Spec == Init /\ [][Next]_vars
FairSpec == Spec /\ Fairness

-----------------------------------------------------------------------------
(* Properties *)

VariantType(v) == Range(v.txs) \subseteq UNION {Range(i) : i \in Inputs} /\ v.batch \in 0 .. nextBatch

\* The queue holds variants of submitted transactions, the nonces are those of
\* addresses with an id, and the proposer is never past the reported operations.
TypeOK ==
    /\ up \in BOOLEAN /\ notified \in BOOLEAN
    /\ \A v \in Range(ready) : VariantType(v)
    /\ Range(ids) = DOMAIN nonces
    /\ Range(nonces) \subseteq Nat
    /\ nextPriority \in 0 .. known /\ known \in 0 .. Len(PriorityChunks)
    /\ submitted \in 0 .. MaxSubmitted /\ crashes \in 0 .. MaxCrashes
    /\ Range(results) \subseteq BOOLEAN

\* The nonces of the mempool follow the accounts of the state keeper and are
\* never ahead of them (UpdateNonces is sent for a block that was sealed): no
\* transaction that could still be executed is refused.
NoncesNotAhead ==
    up => \A a \in DOMAIN nonces : a \in DOMAIN ledger /\ nonces[a] <= ledger[a].nonce

\* A result for the transaction, or for one it shares a batch with: the garbage
\* collection takes "one executed transaction <=> all the transactions are
\* executed" for granted (storage/src/chain/mempool/mod.rs:252).
Settled(tx) ==
    \/ tx \in DOMAIN results
    \/ \E txs \in accepted \cup refused :
          IsBatch(txs) /\ tx \in Range(txs) /\ Range(txs) \cap DOMAIN results # {}

\* What the API was told is accepted is in the table until it is settled,
\* whatever crashes in between.
AcceptedIsStored ==
    \A tx \in UNION {Range(txs) : txs \in accepted} :
        Settled(tx) \/ \E row \in Range(rows) : row.tx = tx

\* "in case of the unexpected server reboot sent transactions won't disappear"
\* (storage/src/chain/mempool/mod.rs:16): an accepted transaction waits or has a
\* result.
SentDoNotDisappear ==
    \A txs \in accepted : \A tx \in Range(txs) :
        tx \in DOMAIN results \/ \E row \in Range(rows) : row.tx = tx

InWork ==
    UNION {Range(v.txs) : v \in Range(ready) \cup Range(proposed.txs)}
      \cup {r.tx : r \in UNION {Range(b.results) :
                b \in {block} \cup {c.built : c \in Range(commitQ)}}}

\* While the process runs, what waits in the table waits in memory too, except
\* what was refused: no accepted transaction is forgotten until the restart.
StoredIsInWork ==
    up => \A row \in Range(rows) : row.tx \in InWork \cup UNION {Range(v) : v \in refused}

\* What was accepted waits, in the table and in memory, until it has a result
\* (insert_tx, collect_garbage, propose_new_block).
NothingForgotten == AcceptedIsStored /\ StoredIsInWork

\* What is proposed fits into an empty block by the state keeper's own count of
\* chunks, although the mempool counts with the accounts of committed blocks.
ProposalFits ==
    Sum(proposed.txs, LAMBDA v : Sum(v.txs, ChunksNeeded))
      + ChunksOfPriorityOps(nextPriority - proposed.priorityOps, proposed.priorityOps)
        <= MaxBlockChunks

\* Of two transactions with the nonce of one account at most one is stored as
\* executed with success, although refused ones stay in the table, are loaded
\* by the next restart and may then overtake what was accepted.
OneSuccessPerNonce ==
    \A s, t \in DOMAIN results :
        results[s] /\ results[t] /\ s.from = t.from /\ s.nonce = t.nonce => s = t

\* The mempool decides by nonces and accounts of sealed blocks, of which it hears
\* late: it refuses nothing executable, proposes nothing too large, and nothing is
\* executed twice for it (check_tx_nonce, prepare_tx_for_block, UpdateNonces).
LateAccountsHarmless == TypeOK /\ NoncesNotAhead /\ ProposalFits /\ OneSuccessPerNonce

\* Every accepted variant is executed, however large the batch is and however
\* the process crashes: the one at the head of the queue gets a block with room.
AcceptedIsExecuted ==
    []<>(\A tx \in UNION {Range(txs) : txs \in accepted} : Settled(tx))
=============================================================================
