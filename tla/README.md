# zkSync core server: TLA+ specifications

This directory specifies the server side of the zkSync rollup in `src/zksync/core`, and the contract it talks to: how the
account state is changed by transactions and priority operations, how the state keeper packs them into blocks, how blocks are
stored, proved, anchored on Ethereum and restored from it, what the mempool, the Ethereum watcher and the event notifier keep in
memory, and how each process goes on from the database after a restart. The specifications are written from the Rust and
Solidity source. TLC checks them on small instances, and the TLA+ proof system checks theorems for every value of the constants.

Paths below are relative to `src/zksync/core` unless they start with `src/`.

## 1. The system

The repository holds a React Native wrapper (`src/index.js`, `src/ios`, ...) around a vendored zkSync 1.x tree. The program
logic is the core server: one process (`bin/zksync_core`) made of asynchronous tasks that talk over channels and share a
PostgreSQL database, satellite processes that share only the database, and a contract on Ethereum.

| component | state | operations | interacts with |
|---|---|---|---|
| State library (`lib/state`) | account tree, `account_id_by_address` | `execute_tx`, `execute_txs_batch`, `execute_priority_op`, `collect_fee`, `apply_account_updates` | called by the state keeper and the data restore; its updates go to the database |
| State keeper (`zksync_core/src/state_keeper`) | `ZkSyncState`, `PendingBlock`, `current_unprocessed_priority_op` | execute a mini-block, seal a block, store the pending block, restore | mini-blocks from the proposer, commit requests to the committer (channel), reads the database at start |
| Block proposer (`block_proposer.rs`) | its priority operation counter | a timer asks the mempool for a mini-block and sends it to the keeper | mempool, state keeper |
| Mempool (`mempool.rs`) | nonces, queue of transactions and batches; table `mempool_txs` | `add_tx`, `add_batch`, `propose_new_block`, `UpdateNonces` | API, proposer, committer |
| Committer (`committer.rs`) | none of its own | `save_pending_block`, `commit_block`, verify task | channel from the keeper, database, nonces to the mempool |
| Block storage (`lib/storage/src/chain`) | `blocks`, `pending_block`, `executed_*`, account updates, `mempool_txs`, `operations` | one database transaction per request | everything |
| Ethereum watcher (`eth_watch`) | priority queue, unconfirmed operations, last block seen | poll, confirm, serve priority operations | Ethereum node, proposer, API |
| Ethereum sender (`bin/zksync_eth_sender`) | queue of operations, ongoing operations; tables `eth_operations`, ... | take up operations, send, check, resend | database, Ethereum node |
| Gas adjuster (`zksync_eth_sender/src/gas_adjuster`) | price samples, limit | the price of a new and of a replacing transaction | Ethereum sender |
| Prover server, witness generators, provers (`bin/zksync_witness_generator`, `bin/prover`) | tables `block_witness`, `account_tree_cache`, `prover_runs`, `proofs` | make a witness, hand out a job, store a proof | database, each other only through it |
| Account tree (`lib/crypto/src/merkle_tree`) | compressed tree with a cache of hashes | insert, remove, root, path, internals | keeper, witness generators, data restore |
| Circuit (`lib/circuit`) | none: a relation between a block, its witness and its roots | witness of each operation, constraints | witness generators, provers |
| Data restore (`bin/data_restore`) | events, operations, tree; storage state | rebuild the state from Ethereum events, stage by stage | Ethereum node, database |
| Event notifier (`bin/zksync_api/.../event_notify`) | subscriptions, the last blocks seen | poll the database, tell subscribers | database, web socket clients |
| API server (`bin/zksync_api`) | caches | REST and RPC queries, submission | database, mempool |
| Contracts (`src/zksync/contracts`) | block and priority queue counters, pending withdrawals, exodus mode | deposit, commit, verify, revert, exit | Ethereum sender, watcher, data restore, users |

What is hard in this system:

- **Crash and restart.** The keeper runs ahead of the database. A restart takes the last committed state, and executes the
  operations of the stored pending block again: their outcome, index, order ids and counters must come out as before. The
  mempool, the watcher, the sender, the witness generators and the data restore each have a restart of their own.
- **Partial storage of an open block.** A pending block is stored several times while it grows; the final block stores only what
  is new, under the same number, and the tables are merged when it is read back.
- **Failure in the middle.** A batch that fails is undone update by update; a poll of several queries stops half way; a failed
  transaction may be submitted again and its database row must give way to the later success.
- **Boundaries.** A block is bounded in chunks, gas, withdrawals and iterations.
- **Contiguity.** The contract accepts a block only when its number and its range of priority operations follow those before it.
- **Two stores that do not commit together.** The Ethereum sender writes to the database and to Ethereum, and whatever the
  order, a failure falls between the two. The mempool learns new nonces before the database has them.
- **A chain that changes its mind.** Blocks of Ethereum are reorganised under the watcher and the sender.
- **Four programs that must agree.** Server, witness generator, circuit and data restore each execute a block with code of
  their own.
- **Shared work.** Several witness generators share the cached trees, several provers the jobs, with timeouts as the only lock.
- **Liveness.** A priority operation that waits too long lets users put the contract in exodus mode.

What makes each component correct is listed as hazards, each at its source line, in `PROJECT.json`.

## 2. Modules

| module | models | with |
|---|---|---|
| `Ledger` | pure operators: what each transaction, priority operation, batch and fee collection does to the account tree, and which account updates it reports | `lib/state/src/{state.rs,handler/*}`, `lib/types/src/account` |
| `ZkSyncState` | the state library as a component: one action for each call that changes the tree | `lib/state/src/state.rs` |
| `ZkSyncState_proofs` | theorems about `ZkSyncState` and the operators of `Ledger` | |
| `PublicData` | pure operators: what of a block is written to Ethereum, reading it back, and executing it again | `lib/types/src/operations`, `bin/data_restore/src/{rollup_ops,tree_state}.rs` |
| `Circuit` | pure operators: the witness of each operation, the constraints of the circuit | `lib/circuit/src/{circuit.rs,witness/*}` |
| `Agreement` | `ZkSyncState` with both: what server, witness generator, circuit and data restore make of a block | |
| `StateKeeper` | block production: keeper, committer, tables, crash and restart | `state_keeper/mod.rs`, `committer.rs`, `lib/storage/src/chain` |
| `StateKeeper_proofs` | theorems about `StateKeeper`: the control state, the types of the data, and how the keeper's steps are runs of the state library | |
| `Blocks_proofs` | theorems about `StateKeeper`, part two: what blocks and tables contain | |
| `Mempool` | the mempool with its table, composed with a coarse keeper and committer | `mempool.rs`, `block_proposer.rs`, `lib/storage/src/chain/mempool` |
| `EthWatch` | the watcher on a chain that is reorganised | `zksync_core/src/eth_watch` |
| `EthWatch_proofs` | theorems about `EthWatch` | |
| `TxQueue` | pure operators: the queue of the Ethereum sender and which operation it yields next | `zksync_eth_sender/src/tx_queue` |
| `EthSender` | the sender's loop, its tables, its crash and restart, the chain and the contract's counters | `zksync_eth_sender/src/lib.rs`, `gas_adjuster`, `lib/storage/src/ethereum` |
| `EthSender_proofs` | theorems about `EthSender`; the last part for runs that lose no record | |
| `Anchoring` | abstract specification: commits and verifications in the order of the blocks, no verification before its commit, no completed withdrawals ahead of a verification | the promise in `zksync_eth_sender/src/lib.rs:72-98` |
| `RollupContract` | the main contract: requests, blocks, withdrawals, exodus mode | `src/zksync/contracts/contracts/ZkSync.sol` |
| `DataRestore` | the driver of the data restore with its storage, following `RollupContract` | `bin/data_restore/src`, `lib/storage/src/data_restore` |
| `Proving` | witness generators, provers and the verify task over their tables | `bin/zksync_witness_generator`, `bin/prover`, `lib/storage/src/prover` |
| `Verification_proofs` | theorems about `Proving` and about `RollupContract`, which checks the proofs | |
| `DataFacts` | lemmas on numbers, finite sets, folds, sums and sequences that the proof modules share | |
| `SparseTree` | the compressed account tree beside the sequential one | `lib/crypto/src/merkle_tree` |
| `EventNotifier` | event fetcher, notifier and subscriptions over the tables | `bin/zksync_api/src/api_server/event_notify` |
| `EventNotifier_proofs` | theorems about `EventNotifier` | |
| `MC...` | instances for TLC, one for each run's module | |

### Ledger, ZkSyncState, PublicData, Circuit and Agreement

A ledger is a function from account ids to `[address, nonce, key, balance]`. Each handler returns
`[ok, ledger, updates, fee, op, out]`: whether it succeeded, the new tree, the account updates it hands to the database, the
fee, the executed operation and the amount that leaves to Ethereum. There is one token (tokens never interact: a balance change
touches one token, and a fee is paid in the token of the transaction); a signature is the key that made it and the message it
is for. A batch (`ExecuteBatch`) executes until the first failure and is then undone with reversed updates, as
`execute_txs_batch` does.

Public data is a sequence of chunks; a chunk is the fields of its operation and a place. `Circuit` keeps what the constraints
say: a chunk record has the two branches of the tree it looks at (an account and the rest of the tree, which its path hashes),
the arguments, the signature and its piece of public data; one round checks the branch against the tree built so far, that some
operation accepts the chunk, that arguments and public data stay the same through an operation, and writes one account.
The public input of the proof is a hash of fee account, old root, new root and public data, computed three times: by the
witness generator (`PublicDataCommitment`), inside the circuit (`FinalHash`), and by the contract from what the server sends it
(`BlockCommitment`). `Agreement` takes every reachable account tree and every block of the constant `Blocks`, seals it as the
server does, and compares roots, constraints and the three commitments. This is completeness (what the server executes is provable), not soundness against other witnesses.

### StateKeeper

| variable | code |
|---|---|
| `mode` | where the keeper is: waiting for a mini-block, inside `execute_proposed_block`, inside `initialize`, or the process is down |
| `accounts`, `blockNumber`, `currentPriorityOp` | `ZkSyncState.balance_tree`, `.block_number`, `current_unprocessed_priority_op` |
| `success`, `failed`, `updates`, `fees`, `pending` | the fields of `PendingBlock` (`pending` holds the counters) |
| `miniBlock`, `restore` | what is left of the mini-block, of the stored pending block |
| `commitQ` | the channel `tx_for_commitments` |
| `ready`, `mempoolRows` | what waits in the mempool's memory, table `mempool_txs` |
| `blocks`, `pendingRows`, `execTxs`, `execPriorityOps`, `stateUpdates`, `verified` | the tables |
| `known`, `submitted`, `crashes`, `sealed`, `wentBack` | the environment's counters, and history the properties read: the blocks as sealed, and whether a restart took an older block for the last one |

One step executes one operation (or one batch), or seals a block, or ends a mini-block; one step of the committer is one
database transaction; a crash can happen between any two. A panic is a stop of the process that is not counted as a crash.
Sealing is never a step of its own: it is part of the step in which an operation does not fit and of the end of a mini-block, as
in the code. The mempool, the proposer and the watcher are the environment: any injective choice of waiting transactions, and
the priority operations in the order of their serial ids from `currentPriorityOp` on. A `usize` is `% UsizeValues` in `Count`: a
release build wraps (there is no `overflow-checks` in the profile of the workspace).

### Mempool

| variable | code |
|---|---|
| `nonces`, `ids`, `ready` | `MempoolState`: `account_nonces`, `account_ids`, the transactions queue |
| `updatesQ` | the `UpdateNonces` requests in the channel |
| `proposed`, `ledger`, `block`, `nextPriority` | the mini-block in execution, the keeper's nonces and accounts, its pending block, the proposer's counter |
| `commitQ`, `notified` | the committer's channel, and whether it has told the mempool of the request it is about to commit |
| `rows`, `nextBatch`, `results`, `committed`, `stored` | `mempool_txs`, `executed_transactions`, the committed blocks and the stored pending block |
| `known`, `submitted`, `crashes`, `accepted`, `refused` | environment and history |

A submission stores its rows first and checks the nonce afterwards, as `add_tx` and `add_batch` do, so a refused transaction
stays in the table. `UpdateNonces` is sent before the commit (`committer.rs:181`) and read by the mempool at any later time.
`Restart` loads the rows in the order of nonces over all accounts (`load_txs` sorts so, with a batch under the nonce of its last
transaction), after `collect_garbage` has removed what has a result. The keeper and committer are coarser than in `StateKeeper`:
a proposal executes in one step.

### EthWatch

| variable | code |
|---|---|
| `chain` | the canonical chain, a request or a completed withdrawal in each block; external |
| `task`, `step`, `target`, `gathered` | the query the task waits for, and what it has so far |
| `last`, `unconfirmed`, `queue` | `ETHState` |
| `mode` | `WatcherMode` |
| `completed` | table `complete_withdrawals_transactions` |
| `served`, `started` | what the proposer has taken, and the block the watcher was last restored at |

Every query to the node is a step of its own, so the chain can grow or be reorganised between two queries of one poll, and each
may fail. Reorganisations reach no deeper than `Confirmations`.

### EthSender

| variable | code |
|---|---|
| `commitOps`, `verifyOps` | table `operations`: the blocks whose commit, whose verification the committer has stored |
| `ethOps` | `eth_operations` with `eth_ops_binding` and `eth_tx_hashes`: operation, nonce, transactions, confirmed |
| `params` | `eth_parameters`: next nonce, operations of each type |
| `mode` | where `run()` is; `"sent"` and `"resent"` are the windows between `send_tx` and the commit of the record |
| `queue` | `tx_queue`, with its counter of slots |
| `ongoing`, `cursor`, `at` | `ongoing_ops` (those already drained in this round come first), the operation and the hash looked at |
| `sent`, `mined`, `deep` | Ethereum: transactions that reached the network, those in the chain, each with the contract's counters after it, those with enough confirmations |
| `faults` | how many crashes, reorganisations, failing requests, lost records and raised prices are left |

A hash stands for nonce, operation and price, so a replacement at the same price has the same hash, as it has in the code. The
check of one hash is a step, so a transaction may be mined between the check of the older hashes and the sending of a
replacement. `NextOperation` yields at most one operation, as a set, with the priorities of `get_next_operation`. Whether the
deadline of a transaction has passed is left open: it may be waited for, or be stuck, at any time. A failing request before
anything is sent or stored changes nothing and is a stutter; one while an operation is checked puts the operation off to the
next round (`SkipOperation`). A panic stops the process (`"panicked"`), which is restarted.

`Restart` is `ETHSender::new`: the queue is built from the counters, the unconfirmed rows are ongoing, and operations no row is
bound to are queued. `Anchored` maps the rows of `eth_operations`, in the order of their nonces, to the state of `Anchoring`;
`FIFO` says that every step of the sender is one of `Anchoring` or a stutter. The contract is its two block counters and the
requirements of `commitBlock` and `verifyBlock` (`Accepts`); it executes what is mined, in the order of the nonces (`ContractAfter`).

### RollupContract and DataRestore

`RollupContract` keeps the contract's own names; `l2` roots are the balances themselves, the operations of a block stand for its
commitment, and a proof exists exactly when the operations lead from the verified root to the claimed one (`Provable`).
`Operation` is what the contract makes of public data: deposits, full exits and partial exits; a transfer stands for every
operation that brings no funds and takes none out. `requested` and `processed` are history. The validator is arbitrary: it may claim any root, revert, or stop; users request,
complete withdrawals, trigger exodus mode, cancel deposits and exit. In `commitBlock` the priority operations are compared with
the queue, except for the amount of a full exit; the sub-protocols for failed transfers of ether are the set `sent` in
`CompleteWithdrawals`.

`DataRestore` extends it with the log of events and the driver: `pc` is the stage, `loading` whether it belongs to
`load_state_from_storage`; `committed`, `verified`, `lastWatched` are `EventsState`, `treeNumber` the tree, `opsBlocks` the
operations in memory, and the `db...` variables the tables. Each database transaction is one step, and a driver is stopped between
any two steps. `torn` is history: it was stopped where its tables do not tell its state (not `Recoverable`).

### Proving

`committed` and `verified` are the table `operations`, `witnesses`, `cache`, `proofs` and `runs` the tables of the same names
(`runs` those younger than the timeout). `gen[g]` is a generator of `run_prover_server` with its block and tree; a tree is the
block number each account was last written in, so that loading a wrong diff shows. `keeper` is the state keeper when it loads
its tree from the same cache. A prover asks for a job, proves, and publishes; `Expire` is the 120 seconds without heartbeat. The
query for the next job does not ask for a witness: the prover waits for it, gives up and is restarted. The definitions
carry the name of the module (`ProvingInit`, ...), so that `Verification_proofs` can extend it and `RollupContract`.

### SparseTree and EventNotifier

`SparseTree` is `SparseMerkleTree`: items, nodes with absolute indices, the cache of hashes per node, and `flat`, the
sequential tree. Insertion splits an edge and drops the cached hashes on its path; a hash is the sequence of the leaves below
it. Subtrees hashed in parallel (rayon) share nothing that they write, so hashing is one step.

In `EventNotifier` the fetcher's three queries of a poll are three steps (`fetcher.pc`), two channels carry what it found, and
the notifier takes requests and events in any order (`select!`). A subscription is answered at once from the tables, or waits.
`executed`, `committed`, `verified`, `confirmed` and `pending` are the tables, written by the server.

## 3. Runs

Twelve runs, one for each question. Several properties are conjunctions: their parts are definitions of their own in the module,
each with the comment that states it; the mutants in `PROJECT.json` are aimed at the parts.

| run | property | parts and what they say |
|---|---|---|
| `zksync_state` | `WellFormed` | `TypeOK`; ids stay an interval and addresses distinct (`IdsDense`) |
| | `Conservation` | what was deposited is on an account, waits as a fee, or left to Ethereum |
| | `NoReplay` | no transaction takes effect twice |
| | `BatchUndone` | a failed batch leaves no trace (`FailedBatchRestores`), its undo never meets a panic (`UndoNeverPanics`) |
| | `UpdatesTell` | reported updates, applied to the old tree, give the new one |
| | `ProverAgrees` | the witness generator reaches the server's root and public data (`WitnessFollows`), every constraint of the circuit holds and it proves that root (`CircuitAccepts`) |
| | `ReplayAgrees` | executing the public data again gives the server's accounts and updates |
| `block_production` | `OpenBlockSound` | `TypeOK`; the open block begins at the priority operation where the block below ends, also after a restart that went back (`OpenBlockContinues`); it has the next number unless a restart went back (`NumbersFollowCommits`), and room for its content unless a batch in it has wrapped the counter (`ContentFits`) |
| | `RangesContiguous`, `CommitsInOrder` | the ranges of priority operations join, and blocks are committed in order |
| | `DatabaseFollowsKeeper` | a block is read back as sealed (`StoredBlockIsSealed`), its range names its priority operations (`RangeIsContent`), stored updates give the root (`UpdatesGiveRoot`) in an unbroken order (`UpdateOrder`), unless a restart went back |
| | `RestartResumes` | re-execution is faithful (`RestoreFaithful`) and possible (`RestartPossible`), as long as restarts find the last block |
| | `SuccessOnce`, `BatchAtomic` | no transaction succeeds twice; a batch is all or nothing, also through a restart in which its transactions run one by one |
| `priority_liveness` | `PriorityOpsProcessed` | every reported priority operation is committed, also through a crash |
| `eth_anchoring` | `NeverFails` | `TypeOK`, no assertion fails (`NeverPanics`), the contract accepts all that is mined (`NothingReverts`) |
| | `OneOperationPerNonce` | one operation for each nonce and one nonce for each operation |
| | `QueueMatches` | slots are exact and bounded (`SlotsMatchOngoing`); `completeWithdrawals` follow the verifications (`WithdrawalsFollow`) |
| | `FIFO` | the sender implements `Anchoring` |
| `eth_liveness` | `QueueContinuesTable`, `ConfirmedIsFinal`, `AllConfirmed` | with any one fault: the queue goes on where the table ends; confirmed means final; all is confirmed in the end |
| | `LossIsBounded` | each database transaction that is lost after the sending leaves at most one transaction unrecorded, its nonce is not above the next one of the table, and what is recorded stays one operation for each nonce |
| `mempool` | `NothingForgotten` | what was accepted is stored until it has a result (`AcceptedIsStored`), and what is stored is in work (`StoredIsInWork`) |
| | `LateAccountsHarmless` | the mempool's accounts lag behind the keeper's, and yet: its nonces are never ahead (`NoncesNotAhead`), its proposals fit (`ProposalFits`), no nonce is used twice (`OneSuccessPerNonce`) |
| | `AcceptedIsExecuted` | all that is accepted is executed in the end |
| `eth_watch` | `QueueIsContractQueue` | what is offered is final (`QueueIsFinal`), in the contract's order (`ServedIsContractQueue`), not at the same time pending (`NotTwice`) |
| | `SeenIsKept` | no block is passed over (`NothingSkipped`), completed withdrawals are stored (`WithdrawalsStored`) |
| | `AllTaken` | every final request is taken by the proposer |
| `contract` | `FundsFollow` | the contract holds exactly what it owes (`FundsCovered`), its queue of withdrawals has no holes (`PendingQueueDense`) |
| | `QueueFollowsBlocks` | committed blocks hold the first open requests (`CommittedRequestsLead`); each is executed once, in order (`RequestsInOrder`) |
| | `RequestsAnswered` | no request waits for ever, whatever validators do |
| `data_restore` | `FollowsContract` | the restored blocks are the first verified ones (`RestoredAreVerified`), the driver knows what is committed (`KnowsWhatIsCommitted`), it never panics (`NeverPanics`), until it was stopped where its tables do not tell its state |
| | `CatchesUp` | all verified blocks are restored in the end, with the same exception |
| `proving` | `TreesRestored` | loaded and cached trees are those of their blocks |
| | `SharedWorkSound` | `TypeOK`, with no proof before its witness; a block has one prover unless its job timed out (`OneProverPerBlock`) |
| | `AllVerified` | every committed block is verified |
| `sparse_tree` | `TreesAgree` | the compressed tree with its cache gives the full tree's root (`RootIsReference`), its paths lead to it (`PathsLeadToRoot`), the sequential tree agrees (`FlatAgrees`) |
| `notifications` | `SubscriptionsServed` | what is told is so (`AnswersTrue`), nobody is forgotten (`NoneForgotten`) |
| | `AllAnswered` | whoever waits is told |

**Bounds.**

- `zksync_state`: four account ids, three addresses besides the validator, amounts 0 to 2, deposits up to a total of 6, two keys.
  This reaches accounts that are created, emptied, re-keyed, forced out, and batches that fail after a creation and after a
  change of key. `Blocks` holds each request alone, the batches, and blocks that mix both kinds, so every operation of the
  circuit occurs in every tree, also with the validator as a party.
- `block_production`: blocks of 6 or 12 chunks (the real numbers: 2 for a transfer, 6 for the others), three units of gas besides
  the base, a transfer that creates an account, a fast withdrawal that needs a deposit, a batch, a deposit and a full exit, two
  mempool entries and two priority operations per mini-block, a channel of two, one crash. So every limit is hit: blocks end by
  chunks, gas, withdrawals, iterations and the fast deadline; a pending block is stored before, between and after a crash; two
  blocks and a pending one are in flight. One crash is enough for the questions asked: the restart reads only tables, and
  `RestartResumes` says that the state after it is one the keeper could have been in without it; the theorems of section 5 hold
  for every number of crashes. There is no state constraint. The run contains the restarts that go back (section 6, 1; the history
  variable `wentBack`): an exit of an account that does not exist yet, alone in its block, leads there. It contains the blocks whose
  counter of chunks wraps (section 6, 2; `CounterWrapped`): the batch behind a deposit. A property that the code breaks there
  names the case, and says what still holds in it: numbers, rows and re-execution are those expected unless a restart went back;
  ranges, the order of commits, the point at which the open block begins, single successes and whole batches also then.
- `priority_liveness`: a submission, two priority operations and one crash.
- `eth_anchoring`: two blocks, the first with withdrawals (five operations of the three types), two operations in flight, two
  prices, one raise, one crash. With two blocks a commit and a verification compete for the next slot and nonce, which is the
  only place where their order is open; with two in flight one can be mined, confirmed, replaced or skipped while the other is
  not. A lost database transaction (`MaxLost`) breaks its properties (section 6, 4 and 5), so it is excluded there; what holds when
  one is lost is the subject of `eth_liveness`.
- `eth_liveness`: two blocks, one price (a stuck transaction is sent again at the limit), and one fault of any kind
  (`OneFault`): crash, reorganisation, failing request, or a lost record (a crash between the sending and the commit of the record
  counts as one). `AllConfirmed` promises nothing once a record was lost; `LossIsBounded`, `ConfirmedIsFinal` and
  `QueueContinuesTable` hold then as well.
- `mempool`: two users, blocks of 12 chunks, three submissions, one of them a batch that needs a whole block, a priority
  operation that takes the room, one crash.
- `eth_watch`: one confirmation, expiration 2, six blocks, two events, one reorganisation, one failing query, one restart.
- `contract`: two users, three heights, two requests, three commits, blocks that deposit, withdraw and exit; an expiration of 2.
- `data_restore`: three commits in four heights, one stop between any two steps. Stopped where its tables do not tell its state (between
  two blocks of a round, or after a window without blocks) the driver goes wrong (section 6, 8 and 11); the properties end there
  (`torn`), and hold at all other stops.
- `proving`: three blocks, two generators, two provers, one crash where no tree has been stored (`FaultsAnywhere = FALSE`,
  section 6, 9) and one late answer.
- `sparse_tree`: depth 3 with four leaves, chosen so that edges are compressed over one and over two levels and split at each.
- `notifications`: a transaction and a priority operation in two blocks, a subscriber who may come, go and come back, one restart
  of the notifier; `WatchUnconfirmed = FALSE` excludes section 6, 10.

Deadlock is checked in the Ethereum sender's runs. Elsewhere the system may stop when the bounded submissions, blocks and faults
are used up.

**Fairness.** Each is what a running task or a supervisor gives; nothing is assumed of users, validators or faults.

- `StateKeeper`: weak fairness of `Propose` (the timer of `run_block_proposer_task` ticks for ever), `Keeper` and `Committer` (tasks
  of a running process), and `Recovery` (the supervisor restarts the process; restart and re-execution are straight-line code).
- `EthSender`: weak fairness of the sender's steps and its restart; strong fairness of `LoadNewOperations` (the poll is repeated
  and does not always time out) and, for each nonce, of a replacement that reaches the network (an operation that stays unmined is
  found stuck again and again, and not every send is lost); weak fairness of mining a transaction that pays the limit, and of
  confirmations. Nothing is assumed of cheaper transactions.
- `Mempool`: weak fairness of `UpdateNonces`, `GetBlock`, `Execute`, `Commit` (tasks) and `Restart`.
- `EthWatch`: weak fairness of `Watch`, the polls and the proposer's requests, both driven by timers.
- `RollupContract`: weak fairness of `Mine`, `TriggerExodusIfNeeded` and `Cancel`, which anybody may call; none of validators.
- `DataRestore`: weak fairness of `Mine` and of the driver.
- `Proving`: weak fairness of each generator, of each prover's steps, of `Expire` (the clock) and of `TakeProof` (the poll).
- `EventNotifier`: weak fairness of `Fetch`, `HandleBlock`, `HandleTxs` and of taking a request.

## 4. Abstractions

- Signatures, hashes and Merkle roots: a signature is the key (in the circuit with its message), a root hash is what it is the
  hash of (the equality the code asserts on hashes is the equality of ledgers, collisions aside).
- Amounts are small integers; the amounts and fees that `check_correctness` lets through survive packing unchanged, so packing is
  left out. Nonces stay far below 2^32. There is one token.
- Chunk and gas numbers are constants of the instance; block sizes are the sequence `available_block_chunk_sizes`.
- Database tables are functions from their primary keys; a conflict clause (`DO NOTHING`, `DO UPDATE`) is modelled by what it
  keeps. A database transaction is atomic. The explorer's queries are left out.
- An operation stored in two tables is read back by its index in the block, as the query orders it.
- Gas prices are steps of a replacement's increase (15 %), and their limit is constant: its renewal from samples is left out. The
  sender is enabled (`is_enabled`); with it off it only loads operations. Calldata, gas limits and receipts are left out.
- `Agreement`: closing accounts is disabled in the code and not executed; deposits go to addresses other than zero (the circuit
  refuses the zero address, `lib/circuit/src/circuit.rs:1388`, while neither the contract nor the state library does); whether
  `success` of a full exit is recorded is not compared.
- `RollupContract`: one token, deposits of one unit, the expiration of a block in heights. The proof system is its meaning.
  `verifyBlocks` deletes all requests of the block, while the contract clears at most `MAX_PRIORITY_REQUESTS_TO_DELETE_IN_VERIFY`
  entries (6, `ZkSync.sol:753`): what it leaves lies below `firstPriorityRequestId`, where nothing reads it.
- `Mempool`: the proposer asks for a block when the keeper has taken the last one; behind a slow keeper the code may have several
  proposals in the channel (`block_proposer.rs:95-99`), which the keeper takes in their order.
- `DataRestore`: the tokens of a window are stored with it and left out; the Ethereum node answers truthfully and late.
- `Proving`: `pending_jobs_count` and the number of replicas asked for are statistics nothing reads back; `prover_runs` are only
  those younger than the timeout.
- `EventNotifier`: the cache of recent blocks is not evicted, `MAX_LISTENERS` is not reached, the channels are not full (the code
  drops a request with a message when they are), queries do not fail. VERIFY events of a poll are sent before its COMMIT events,
  and an answer from the tables is not worded like one from an event, as in the code.
- Logging, metrics, timing and wording are left out.

## 5. Theorems

`ZkSyncState_proofs` proves, for every genesis tree and every set of transactions, batches and priority operations:

- `StateWellFormed`: `Spec => []WellFormed`;
- `StateConserves`: `Spec => []Conservation`;
- `StateNeverReplays`: `Spec => []NoReplay`;
- `StateUndoesBatches`: `Spec => []BatchUndone`;
- `StateUpdatesTell`: `Spec => []UpdatesTell`;
- `InvHolds`: `Spec => []IInv`, on which the others rest.

Its assumptions are two, and TLC evaluates both in `zksync_state`. `GenesisAssumption`: the genesis tree holds the fee account,
its ids count from zero and no two accounts share an address. `RequestsAssumption`: nonces, amounts and fees are numbers, and no
signing key hashes to `PubKeyHash::default()` (without which an account that never set a key could sign).

A handler is described once, by two predicates on its result. `Sound(l, brought, r)`: the reported updates lead from the tree `l`
to the new one, one after the other, and reversed they lead back (`Moves`); no account leaves, no address changes and no nonce
falls (`Grows`); the sum of balances, fee and outflow is the old sum and what was brought in. `UsesNonce`: success needs
the nonce of the initiator and raises it by one, failure changes nothing. One lemma for each handler shows both. `ExecuteBatch`,
its undoing and `CollectFees` are folds; each is shown to have a trace, a sequence of trees in which neighbours are linked by
one execution, one taking back or one fee (`BatchHasTrace`, `TakeBackHasTrace`, `CollectHasTrace`), and the predicates are carried
along the trace. That the undoing of a batch reaches the tree before it, with no panic on the way, is `Moves` read backwards.

`NoReplay` and `Conservation` are not inductive. `IInv` has the form of the tree (`Ledgers`: without it a new account could
overwrite one), the types the sums need, and instead of `NoReplay` its reason, which survives every step because nonces never
fall: each executed transaction names an account whose nonce has passed its own (`UsedUp`).

`StateKeeper_proofs` and `Blocks_proofs` prove, from the five assumptions of `StateKeeper` (the block sizes are an ascending, non-empty sequence;
every operation has a number of chunks and an amount of gas, a transfer to a new account no less chunks than another transfer, and a
block's size is a `usize`; the queue of priority operations is a sequence and the bounds are numbers; the requests and the genesis
tree are those of `ZkSyncState`, see above), in two parts. The first, `StateKeeper_proofs`, needs no hypothesis:

- `TypeCorrect`: `Spec => []ControlTypeOK`, the control state and the counters of the tables;
- `PriorityRanges`: `Spec => []RangesContiguous`;
- `CommitOrder`: `Spec => CommitsInOrder`;
- `DataFits`: `Spec => []DataOK`, the types of all the data: blocks, requests, tables and what the folds over them yield;
- `Inductive`: `Spec => []IInv`, on which the others rest;
- `OpenBlockFollows`: `Spec => []OpenBlockContinues`: the open block begins at the priority operation where the block of the number
  below ends, also when a restart went back.

`RangesContiguous` speaks of the table of blocks only, and is not inductive: nothing in it says that the block the committer is
about to store begins where the table ends. `IInv` adds the chain that makes it true. Every sealed block in the channel begins
where its predecessor ends (`Channel`), the predecessor being the newest block of the number below: the one in the channel, or the
one in the table if none waits. The open block does so too (`OpenOK`). The numbers of the sealed blocks in the channel grow and
stay below that of the open block (`Numbered`). The invariant says nothing of how the open block's number relates to the table,
because section 6, 1 breaks that: after a restart that goes back, the keeper builds numbers that are committed already. The
proof shows that even then no gap is ever stored, because the primary key of `blocks` ends the process first.

The chain is stated with pure operators on a queue and a table (`EndsBefore(q, b, n, v)`, `Begins(q, b, k)`), and four lemmas say
how it survives a push or a pop of the channel (`PushSealed`, `PushPending`, `PopPending`, `PopSealed`). Each action of `Next` is
then one lemma or one step that applies one of them.

The second part, `Blocks_proofs`, is about what blocks contain. No theorem of it assumes how restarts go. The specification has the
history variable `wentBack`, which is set when a restart takes an older block for the last one (section 6, 1): the theorems say of
every behaviour what holds in it until then, the exception being part of the property, or of the theorem's conclusion where the
property has none.

- `TransactionsSucceedOnce`: `Spec => [](~ wentBack => SuccessOnce)`;
- `DatabaseIsWhatWasSealed`, `RestartResumesTheBlock`: `Spec => []DatabaseFollowsKeeper` and `Spec => []RestartResumes`;
- `BatchesStayTogether`: `BatchesApart => (Spec => [](~ wentBack => BatchAtomic))`;
- `SinglesAreSound`: `Spec => []OpenBlockSound`, if only single transactions are submitted;
- `Followed`: `Spec => [](~ wentBack => FInv)`, on which these rest.

The argument runs over executions of the state library. A *point* is a ledger with the updates reported since the block began and
the number of the next priority operation; `Runs(x, ops, y)` says that executing `ops` from `x`, one after the other, leads to `y`
and has the recorded outcomes. What `ZkSyncState_proofs` shows of single transactions, of batches and of fees (an instance of it,
`State`, whose operators are shown to be those of this module) makes each step of the keeper such a run, a batch included: its
operations are the same as if each had been executed alone, which is how a restart executes them. A run uses up the nonces of its
transactions (`RunFacts`), it is a function of its operations (`GoesOneWay`), and runs join and split. A *frontier* is what a
restart would find: the blocks sealed, their last ledger, and the open block with the point it has led to (`Sound`). `FInv` says
that there is a frontier `f` which is in the tables (`InDatabase`), and from it

- while the process runs, the requests in the channel advance `f` one after the other to a frontier `g` (`Path`), and the keeper
  has gone on from `g` by a run (`Ahead`): the committer's steps move `f` along the path, the keeper's lengthen it, and a crash
  forgets the path but not `f`;
- while the process restarts, the operations not yet executed again run from the keeper's point to that of `f` (`Restoring`).

`SuccessOnce` follows since a nonce is used up once along all blocks of `g` and the open one, `RestoreFaithful` since runs are
functions, `UpdatesGiveRoot` from the chain of the blocks' stored updates. Between the sequences of the model and the tables are
the folds by which requests are stored, numbers and updates loaded and sorted again; they are unfolded by a relation (`Folds`)
that has one outcome, and reading back is shown to invert storing by `LoadedOpsAre` and `LoadedUpdatesAre`: a stored failure never
hides a success, and rows sorted by their distinct index are the sequence that was stored.

`BatchAtomic` speaks of any success of a transaction that belongs to some batch, so it needs `BatchesApart`: such a transaction is
submitted with that batch alone, as in all instances of section 3. It is not inductive, because it says nothing of what has not
been sealed; `BInv` adds that the rows of `mempool_txs` and the mini-block hold batches as they were submitted, that the open
block, every request and the pending block in the tables have their batches side by side, that lists of failures hold all of a
batch or nothing of it, and that the rows of a batch in `executed_transactions` have one block and one outcome. While a restart
executes operations one by one, the batches of the open block are apart; that they are together again at the end follows
from `FInv`, which says that the outcome is the stored sequence, and from `BInv` of the tables, which do not change meanwhile.

`ContentFits` says that a block never holds more chunks than the largest block has. It is not inductive, and it is false after
section 6, 2: the keeper decides by the counter `chunksLeft`, and `apply_batch` subtracts the chunks of the whole batch once for each
of its transactions, so that the counter can fall below zero and wrap. `CounterHolds` is exactly what the code would have to
check: the batch that comes next, if it fits, fits as many times as it has transactions. Where it holds, `RoomInv` is inductive: the
chunks of the open block's operations and the counter make no more than `MaxBlockSize`. The step that needs care is the execution of
transactions: their chunks are computed once, for the ledger before (`ChunksNeeded`), while the operations are made one by one, so
that a transfer planned as `TransferToNew` may be executed as a `Transfer`. `ExecutionTakes` shows that the operations never need more
than was planned. A batch of one transaction takes its chunks once, so `SingleHolds` derives `CounterHolds` if the mini-block holds
what was submitted, and `SinglesAreSound` joins this with `OpenBlockFollows` and `Followed`. It covers crashes, the re-execution of
the stored operations and restarts that go back. With batches in the block `OpenBlockSound` stays with TLC.

`Verification_proofs` proves of `Proving`, from `ProvingAssumption` (at least one generator; finitely many blocks, numbered from 1; the bounds are numbers) and
for any number of generators and provers, any sequence of blocks, any number of faults and with faults anywhere:

- `TreesAlwaysRestored`: `ProvingSpec => []TreesRestored`;
- `KeeperStoresRightRow`: the row a restarting keeper is about to insert is the tree of the number it goes in under;
- `SharedWorkIsSound`: `ProvingSpec => []SharedWorkSound`.

Why it holds is not obvious: a tree is restored from the hashes cached for another, earlier or later, block, and the keeper
stores the tree of one block under the number of another. `UnchangedBetween` shows that an account outside `load_state_diff` is
the same in both trees, whichever is the later one, so that a cached hash may be kept (`RestoredIsTree`); `LoadedIsTree` shows
that the number `load_committed_state` returns is that of a block with the same tree, in each of its three cases. The inductive
invariant `IInv` is `TreesRestored` with the second theorem's formula, without which the keeper's insert could not be shown
right, since generators and new proofs come between its read and its insert; one lemma for each action of generator, keeper and
server says that the action keeps it, and `FrameKeeps` covers the provers. The invariant holds with faults everywhere, although
there the retries of section 6, 9 fail: what goes wrong there is progress, not what the table holds. `SharedWorkSound` needs
more (`WorkInv`): a prover publishes only for a block that has a witness, and of the provers at work on a block without a proof
all but one have lost their run to a timeout that came too early (`JobsCounted`, on the cardinalities of sets of provers).

`EthSender_proofs` proves, from `SenderAssumption` (the bounds are numbers, at least one operation may be in flight, blocks with
withdrawals are blocks), with any number of lost records, failed saves, crashes and reorganisations:

- `SenderTypes`: `Spec => []TypeOK`;
- `QueueFollowsTable`: `Spec => []QueueContinuesTable`;
- `ConfirmationsAreFinal`: `Spec => []ConfirmedIsFinal`;
- `SenderIsFIFO`: `Spec => FIFO`, the refinement of `Anchoring`.

The inductive invariant `Inv` holds even where section 6, 4 and 5 go wrong. Its parts are the counters of `eth_parameters`, which
count the rows of each type (`Counts`: the n-th commit in the table is the commit of block n); the queue, which goes on where
these counters end, wherever the loop stands and whatever was put back (`Queued`); and what memory says of its rows
(`Remembered`). The refinement is a lemma: a step that adds a row adds the next operation of its type, and `Counts` makes
that a step of `Anchoring`.

The last part of `EthSender_proofs` proves properties that a lost record breaks, each under `NothingLost`: no record of a transaction that
the network has was lost so far. With `MaxLost = 0`, as in `eth_anchoring`, it always holds; the theorems say more, that up to
the first lost record nothing goes wrong:

- `SenderNeverFails`: `Spec => [](NothingLost => NeverFails)`;
- `OperationsHaveOneNonce`, `QueueCountsWhatIsUnderWay`: the same of `OneOperationPerNonce` and `QueueMatches`.

`SafeInv` adds `Safe` to `Inv`: every sent transaction is in the row of its nonce; memory holds each unconfirmed row exactly once
(so slots can be counted by the cardinality of a set); the last hash of an operation pays most; and the contract's counters
after each mined transaction are the number of commits and verifications mined before (`ContractFollows`). From the last part
follows that nothing reverts: nonces are mined in order, and the order of the rows is that of `Anchoring`.

`EthWatch_proofs` proves, from `EthWatchAssumption` (numbers; at least one block may be requested), for every depth of
confirmation, every chain and every interleaving of queries with growth, reorganisations, failures and restarts:

- `QueueIsTheContracts`: `Spec => []QueueIsContractQueue`;
- `NothingSeenIsLost`: `Spec => []SeenIsKept`.

The queue is described by the block it is complete up to, `last - Confirmations`, which no reorganisation reaches (`Holds`). A
poll and a restore are described by the query they wait for and by what they have gathered so far (`Polled`, `Restored`),
because blocks come between the queries. A serial id is the number of requests up to a block (`Number`), and lemmas say
that a reorganisation above a block does not change it.

`EventNotifier_proofs` proves, from `NotifierAssumption` (finitely many operations, kinds apart):

- `AnswersAreTrue`: `Spec => [](TypeOK /\ AnswersTrue)`, also with `WatchUnconfirmed`;
- `SubscribersServed`: `~WatchUnconfirmed => (Spec => []SubscriptionsServed)`; without the hypothesis it is false (section 6, 10).

`Truth` follows each fact from the tables through the fetcher and both channels to the subscriber; `Remembered` says that the
event that answers a waiting subscription is ahead: not yet fetched, or in a channel.

`Verification_proofs` proves of `RollupContract`, from `ContractAssumption` (the bounds are numbers, the owners finitely many, public data are
sequences of operations), for arbitrary validators:

- `QueueFollows`: `Spec => []QueueFollowsBlocks`;
- `FundsFollowed`: `Spec => []FundsFollow`.

`QueueInv` has, for each block that is not verified, the place in the queue at which its priority operations begin; the blocks
adjoin, so that verifying one shifts the others and reverting drops the last. `FundsInv` is `FundsCovered` with the domains that
its sums need and with the fact that nobody has left before exodus mode. That a block is provable enters in `verifyBlock` only:
there the sum of the verified balances changes by what the block's operations bring and take, an induction over its operations.

Inductions are done without the library's induction theorems. `DataFacts` proves that a non-empty bounded set of numbers has a
maximum and each non-empty set of numbers a minimum, so that a statement about all prefixes of a sequence, or all subsets of a
finite set, is proved by looking at the smallest counterexample. On this rest the lemmas that unfold the folds of the community
modules by one element (they are defined by recursive functions) and all facts about sums, maxima and counts.

Only model-checked: `OpenBlockSound` where batches are submitted; `LossIsBounded`; that server, prover and data restore agree
(`ProverAgrees`, `ReplayAgrees`); the properties of `Mempool`, of `SparseTree` (its tree is cut by recursion on the depth) and of
`DataRestore`. Liveness, fairness and everything with `ENABLED` is out of the prover's reach and stays with TLC:
`PriorityOpsProcessed`, `AllConfirmed`, `AcceptedIsExecuted`, `AllTaken`, `RequestsAnswered`, `CatchesUp`, `AllVerified`, `AllAnswered`.

## 6. Where code and documentation disagree

1, 2, 8 and 11 occur in the passing runs too: there the property names the case (`wentBack`, `CounterWrapped`, `torn`). 4 and 5 are
excluded from `eth_anchoring` by a constant and occur in `eth_liveness`. 9 and 10 are excluded by a constant and 6 by what is
submitted; 3 and 7 are about properties no passing run checks. Each has a configuration that leads TLC to it:
`tlc -config X.cfg M` reports the property as violated. They are no runs of `PROJECT.json`.

| | configuration | property | what happens |
|---|---|---|---|
| 1 | `MCStateKeeperRestart.cfg`, `MCStateKeeper` | `NumbersFollowCommits` | `lib/storage/src/chain/state/mod.rs:520`: after a restart the last block is taken to be the highest with an account update, not the latest committed one as the comment at line 427 says. A block that holds only a full exit of an unknown account has none; its number is built again, and the committer fails on the primary key at every restart |
| 2 | `MCStateKeeperWrap.cfg`, `MCStateKeeper` | `ContentFits` | `state_keeper/mod.rs:676`: the chunks of the whole batch are subtracted for each of its transactions. The counter wraps, the size check of line 627 no longer holds, sealing panics |
| 3 | `MCStateKeeperResubmit.cfg`, `MCStateKeeper` | `WaitsUntilExecuted` | `lib/storage/src/chain/mempool/mod.rs:250`: the garbage collection at a restart drops a waiting transaction that failed before, although `lib/storage/src/chain/operations/mod.rs:131-133` expects it to be executed again |
| 4 | `MCEthSenderLostSend.cfg`, `MCEthSender` | `SentIsRecoverable` | `bin/zksync_eth_sender/src/lib.rs:383`: the transaction is sent while the database transaction with its record is open (375 before 383, 503 before 504). A crash in between forgets it, although line 91 asks to save it first; its nonce is then used again |
| 5 | `MCEthSenderFailedSave.cfg`, `MCEthSender` | `NeverPanics` | `bin/zksync_eth_sender/src/lib.rs:368`: the operation is put into `ongoing_ops` before its record commits. When the commit fails it is also returned to the queue, sent twice with one nonce, and confirmed twice; the queue's assertion fails |
| 6 | `MCMempoolOverlap.cfg`, `MCMempool` | `SentDoNotDisappear` | `lib/storage/src/chain/mempool/mod.rs:262`: a batch is collected when its first transaction has a result, but nothing refuses a batch with a transaction that was sent on its own before; the rest of the batch disappears, against lines 16-20 |
| 7 | `MCEthWatchGap.cfg`, `MCEthWatch` | `ConfirmedAreAccepted` | `zksync_core/src/eth_watch/mod.rs:307,310`: restoring subtracts the confirmations twice but stores the block number un-reduced, so the events of the blocks in between never reach the priority queue until the next restart, against line 3 |
| 8 | `MCDataRestoreCrash.cfg`, `MCDataRestore` | `RestoredAreVerified` | `lib/storage/src/data_restore/mod.rs:48`: the first block of a round that is stored sets the state to `None`; a driver stopped before the last one goes on without the rest, against `bin/data_restore/src/data_restore_driver.rs:23` |
| 9 | `MCProvingRetry.cfg`, `MCProving` | `EveryBlockGetsWitness` | `bin/zksync_witness_generator/src/witness_generator.rs:248`: a generator that fails after it cached a tree inserts the same row again when it retries (line 255), fails on the primary key, and does so for ever |
| 10 | `MCEventNotifierLate.cfg`, `MCEventNotifier` | `NoneForgotten` | a VERIFY subscription made after the VERIFY event was handled and before the operation is `confirmed` is never answered (`lib/storage/src/chain/operations_ext/mod.rs:46-50`, `event_notify/state.rs:78-84`, `event_fetcher.rs:26-27`) |
| 11 | `MCDataRestoreEmpty.cfg`, `MCDataRestore` | `NeverPanics` | `lib/storage/src/data_restore/mod.rs:305`: a window without blocks replaces the stored events by none, also the commits that wait for their verification and are still in memory. A driver stopped then has lost them, and at the next verification it panics for want of a commit, against `bin/data_restore/src/data_restore_driver.rs:24` ("The events fetched and saved successfully") |

Seen while modelling, without a configuration: a pending block may hold failed operations (`state_keeper/mod.rs:895`), which the
comment at line 887 excludes, and one that holds nothing else is stored again and again without being sealed (885);
`completeWithdrawals` waits in memory only, so a crash loses it, although `zksync_eth_sender/src/lib.rs:292` has it follow each
verification (a later call makes up for it, if there is one); a transaction stuck at the price limit is replaced by itself,
although `gas_adjuster/mod.rs:18-22` guarantees an increase; the restored number of Ethereum operations is written once per
start (`data_restore_driver.rs:269`); a block whose event the fetcher cannot load is passed over (`event_fetcher.rs:173`); a
deposit creates an account without the check of the maximal id that a transfer makes (`lib/state/src/handler/deposit.rs:44`).

## 7. Not modelled, and the plan

Left to do, in this order:

1. Theorems: the mempool (`NothingForgotten`); that the data restore
   follows the contract, with `QueueFollows` for the blocks it reads; `ReplayAgrees`, with the lemmas of `ZkSyncState_proofs`.
2. The composition of `StateKeeper` with `Mempool` (now two modules with the same tables) and with `EthWatch`, whose
   queue is the environment action of both.
3. The renewal of the gas price limit; the exit circuit.

Not planned: soundness of the circuit, field arithmetic and hashes (arithmetic, out of reach of explicit states); the REST and RPC
queries and the explorer (reads without a protocol); governance, the upgrade gatekeeper and the verifier contract; the prover's
registration and scaling; the SDKs, the wallet wrapper, and the infrastructure scripts.
