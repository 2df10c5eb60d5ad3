------------------------------ MODULE EthSender ------------------------------
(***************************************************************************)
(* ETHSender (zksync_eth_sender/src/lib.rs): anchors the operations of the *)
(* database on Ethereum.  One task takes operations from its queue, binds  *)
(* each to the next nonce of the operator's account, sends a transaction   *)
(* for it, sends another at a higher price when that one is stuck, and     *)
(* records the operation as confirmed once one of them is deep in the      *)
(* chain.  Its tables survive a crash; its queue does not.                 *)
(*                                                                         *)
(* Ethereum is modelled by what the sender relies on: transactions of the  *)
(* account are mined in the order of their nonces, one for each nonce, and *)
(* the end of the chain may be reorganised until it is deep enough.        *)
(***************************************************************************)
EXTENDS TxQueue

CONSTANTS
    MaxBlocks,          \* blocks the committer stores
    WithdrawalBlocks,   \* those with withdrawals
    MaxPrice,           \* gas_price_limit, in steps of a replacement's increase
    MaxCrashes, MaxReorgs, MaxErrors,
    MaxLost,            \* database transactions lost after their transaction was sent
    MaxRaises           \* replacements at a higher price

ASSUME SenderAssumption ==
    /\ {MaxBlocks, MaxCrashes, MaxReorgs, MaxErrors, MaxLost, MaxRaises} \subseteq Nat
    /\ {MaxInFlight, MaxPrice} \subseteq Nat \ {0}
    /\ WithdrawalBlocks \subseteq 1..MaxBlocks

VARIABLES
    commitOps, verifyOps,   \* operations: blocks with a commit, a verification stored
    ethOps,         \* eth_operations with eth_ops_binding and eth_tx_hashes
    params,         \* eth_parameters
    mode,           \* where run() is
    queue,          \* tx_queue
    ongoing,        \* ongoing_ops, those drained and kept in new_ongoing_ops first
    cursor,         \* the operation perform_commitment_step looks at
    at,             \* and its transaction
    sent,           \* transactions that reached the network
    mined,          \* the account's transactions in the chain, in the order of nonces,
                    \* each with the contract after it
    deep,           \* those with wait_confirmations confirmations
    faults          \* how many faults may still happen

database == <<ethOps, params>>
operations == <<commitOps, verifyOps>>
memory == <<queue, ongoing, cursor, at>>
ethereum == <<sent, mined, deep>>
vars == <<operations, database, mode, memory, ethereum, faults>>

Prices == 1..MaxPrice

Tx(nonce, op, price) == [nonce |-> nonce, op |-> op, price |-> price]

(***************************************************************************)
(* The contract and the chain.                                             *)
(***************************************************************************)
\* The requirements of commitBlock, verifyBlock and completeWithdrawals.
Accepts(contract, op) ==
    CASE op.type = "Commit" -> op.block = contract.committed + 1
      [] op.type = "Verify" -> /\ op.block = contract.verified + 1
                               /\ op.block <= contract.committed
      [] op.type = "Withdraw" -> TRUE

Execute(contract, tx) ==
    CASE ~Accepts(contract, tx.op) \/ tx.op = WithdrawOp -> contract
      [] tx.op.type = "Commit" -> [contract EXCEPT !.committed = @ + 1]
      [] tx.op.type = "Verify" -> [contract EXCEPT !.verified = @ + 1]

ContractAfter(n) ==
    IF n = 0 THEN [committed |-> 0, verified |-> 0] ELSE mined[n].contract

IsMined(tx) == \E i \in DOMAIN mined : mined[i].tx = tx

Reverted(tx) == IsMined(tx) /\ ~Accepts(ContractAfter(tx.nonce), tx.op)

IsFinal(tx) == IsMined(tx) /\ ~Reverted(tx) /\ tx.nonce < deep

(***************************************************************************)
(* The tables and the operation looked at.                                 *)
(***************************************************************************)
\* load_unprocessed_operations: those no row is bound to.
Unprocessed(type, stored) ==
    {b \in 1..stored : \A i \in DOMAIN ethOps : ethOps[i].op # Op(type, b)}

\* get_eth_op_id: the rows with the hash of this transaction.
RowsOf(tx) ==
    {i \in DOMAIN ethOps : /\ ethOps[i].op = tx.op
                           /\ ethOps[i].nonce = tx.nonce
                           /\ tx.price \in Range(ethOps[i].txs)}

\* load_unconfirmed_operations
Unconfirmed ==
    LET open == Ascending({i \in DOMAIN ethOps : ~ethOps[i].confirmed})
    IN  [k \in DOMAIN open |-> [row |-> open[k], op |-> ethOps[open[k]].op,
                                nonce |-> ethOps[open[k]].nonce, txs |-> ethOps[open[k]].txs]]

\* Hashes are remembered in the order of sending; a repeated one adds nothing.
Remember(txs, price) == IF price \in Range(txs) THEN txs ELSE Append(txs, price)

Current == ongoing[cursor]
CurrentTx == Tx(Current.nonce, Current.op, Current.txs[at])

\* The transaction sent in the database transaction that is still open.
Unsaved ==
    CASE mode = "sent" -> {Tx(Last(ongoing).nonce, Last(ongoing).op, Last(ongoing).txs[1])}
      [] mode = "resent" -> {Tx(Current.nonce, Current.op, Last(Current.txs))}
      [] OTHER -> {}

\* Losing it is a fault of its own when the network has the transaction.
Losing == \E tx \in Unsaved : tx \in sent /\ RowsOf(tx) = {}

Init ==
    /\ commitOps = 0 /\ verifyOps = 0
    /\ ethOps = <<>>
    /\ params = [nonce |-> 0, commit |-> 0, verify |-> 0, withdraw |-> 0]
    /\ mode = "idle"
    /\ queue = NewQueue(0, params)
    /\ ongoing = <<>> /\ cursor = 1 /\ at = 1
    /\ sent = {} /\ mined = <<>> /\ deep = 0
    /\ faults = [crashes |-> MaxCrashes, reorgs |-> MaxReorgs,
                 errors |-> MaxErrors, lost |-> MaxLost, raises |-> MaxRaises]

(***************************************************************************)
(* load_new_operations                                                     *)
(***************************************************************************)
LoadPanics(q) == AddPanics(q, Unprocessed("Verify", verifyOps))

Loaded(q) ==
    AddOperations(q, Unprocessed("Commit", commitOps), Unprocessed("Verify", verifyOps))

LoadNewOperations ==
    /\ mode = "idle"
    /\ mode' = IF LoadPanics(queue) THEN "panicked" ELSE "sending"
    /\ queue' = IF LoadPanics(queue) THEN queue ELSE Loaded(queue)
    /\ UNCHANGED <<operations, database, ongoing, cursor, at, ethereum, faults>>

\* The poll period ends first, or the database does not answer.
LoadingFails ==
    /\ mode = "idle"
    /\ mode' = "sending"
    /\ UNCHANGED <<operations, database, memory, ethereum, faults>>

(***************************************************************************)
(* initialize_operation: in a database transaction the operation gets its  *)
(* nonce and the transaction its hash; then it is sent, and only then the  *)
(* database transaction is committed.  Failing earlier changes nothing:    *)
(* the operation returns to the queue.                                     *)
(***************************************************************************)
InitializeOperation ==
    /\ mode = "sending"
    /\ \E op \in NextOperation(queue), price \in Prices, arrives \in BOOLEAN :
        /\ queue' = Popped(queue, op)
        /\ ongoing' = Append(ongoing, [row |-> 0, op |-> op, nonce |-> params.nonce,
                                       txs |-> <<price>>])
        /\ sent' = IF arrives THEN sent \cup {Tx(params.nonce, op, price)} ELSE sent
    /\ mode' = "sent"
    /\ UNCHANGED <<operations, database, cursor, at, mined, deep, faults>>

\* Mutant: the row is written with the nonce that get_next_nonce has left behind.
StoredUnderNextNonce(entry) ==
    Append(ethOps, [op |-> entry.op, nonce |-> entry.nonce + 1, txs |-> entry.txs,
                    confirmed |-> FALSE])

\* save_new_eth_tx and add_hash_entry take effect.
Stored(entry) ==
    Append(ethOps, [op |-> entry.op, nonce |-> entry.nonce, txs |-> entry.txs,
                    confirmed |-> FALSE])

\* Mutant: completeWithdrawals takes no nonce of its own.
CountedSameNonce(op) ==
    [params EXCEPT !.nonce = IF op = WithdrawOp THEN @ ELSE @ + 1,
                   !.commit = IF op.type = "Commit" THEN @ + 1 ELSE @,
                   !.verify = IF op.type = "Verify" THEN @ + 1 ELSE @,
                   !.withdraw = IF op.type = "Withdraw" THEN @ + 1 ELSE @]

\* get_next_nonce and report_created_operation
Counted(op) ==
    [params EXCEPT !.nonce = @ + 1,
                   !.commit = IF op.type = "Commit" THEN @ + 1 ELSE @,
                   !.verify = IF op.type = "Verify" THEN @ + 1 ELSE @,
                   !.withdraw = IF op.type = "Withdraw" THEN @ + 1 ELSE @]

SaveNewOperation ==
    /\ mode = "sent"
    /\ ethOps' = Stored(Last(ongoing))
    /\ params' = Counted(Last(ongoing).op)
    /\ ongoing' = [ongoing EXCEPT ![Len(ongoing)].row = Len(ethOps) + 1]
    /\ mode' = "sending"
    /\ UNCHANGED <<operations, queue, cursor, at, ethereum, faults>>

\* The commit fails: the operation returns to the queue and stays in ongoing_ops.
SaveNewOperationFails ==
    /\ mode = "sent"
    /\ faults.lost > 0
    /\ faults' = [faults EXCEPT !.lost = @ - 1]
    /\ queue' = Returned(queue, Last(ongoing).op)
    /\ mode' = "sending"
    /\ UNCHANGED <<operations, database, ongoing, cursor, at, ethereum>>

AllSent ==
    /\ mode = "sending"
    /\ NextOperation(queue) = {}
    /\ mode' = "checking"
    /\ UNCHANGED <<operations, database, memory, ethereum, faults>>

(***************************************************************************)
(* perform_commitment_step for the operations that are ongoing, one after  *)
(* the other, and check_transaction_state for their transactions in turn.  *)
(***************************************************************************)
Checking == mode = "checking" /\ cursor <= Len(ongoing)

\* Mutants: the slot is freed with the verification and again with the withdrawal it
\* brings; it is freed only then; a commit of the block brings one, too.
FreesTwice(q, op) ==
    IF op.type = "Verify" /\ op.block \in WithdrawalBlocks
    THEN AddWithdraw(Reported(Reported(q))) ELSE Reported(q)

FreesWithWithdrawals(q, op) ==
    IF op.type = "Verify" /\ op.block \in WithdrawalBlocks
    THEN AddWithdraw(Reported(q)) ELSE q

WithdrawsOnCommit(q, op) ==
    IF op.block \in WithdrawalBlocks THEN AddWithdraw(Reported(q)) ELSE Reported(q)

\* What follows a confirmation in proceed_next_operations.
AfterConfirmation(q, op) ==
    IF op.type = "Verify" /\ op.block \in WithdrawalBlocks
    THEN AddWithdraw(Reported(q)) ELSE Reported(q)

\* Mutant: the first confirmation is enough.
ConfirmWhenMined ==
    /\ Checking
    /\ IsMined(CurrentTx) /\ ~Reverted(CurrentTx)
    /\ RowsOf(CurrentTx) # {}
    /\ ethOps' = [ethOps EXCEPT ![Min(RowsOf(CurrentTx))].confirmed = TRUE]
    /\ ongoing' = RemoveAt(ongoing, cursor)
    /\ at' = 1
    /\ mode' = IF queue.pending = 0 THEN "panicked" ELSE mode
    /\ queue' = IF queue.pending = 0 THEN queue ELSE AfterConfirmation(queue, Current.op)
    /\ UNCHANGED <<operations, params, cursor, ethereum, faults>>

\* A hash the table does not have is an error, see SkipOperation.
ConfirmOperation ==
    /\ Checking
    /\ IsFinal(CurrentTx)
    /\ RowsOf(CurrentTx) # {}
    /\ ethOps' = [ethOps EXCEPT ![Min(RowsOf(CurrentTx))].confirmed = TRUE]
    /\ ongoing' = RemoveAt(ongoing, cursor)
    /\ at' = 1
    /\ mode' = IF queue.pending = 0 THEN "panicked" ELSE mode
    /\ queue' = IF queue.pending = 0 THEN queue ELSE AfterConfirmation(queue, Current.op)
    /\ UNCHANGED <<operations, params, cursor, ethereum, faults>>

\* failure_handler
FailureHandler ==
    /\ Checking
    /\ Reverted(CurrentTx)
    /\ mode' = "panicked"
    /\ UNCHANGED <<operations, database, memory, ethereum, faults>>

NextOngoing ==
    /\ cursor' = cursor + 1
    /\ at' = 1

\* TxCheckOutcome::Pending: not deep enough, or not mined and not yet stuck.
WaitForTransaction ==
    /\ Checking
    /\ \/ IsMined(CurrentTx) /\ ~Reverted(CurrentTx) /\ ~IsFinal(CurrentTx)
       \/ ~IsMined(CurrentTx) /\ at = Len(Current.txs)
    /\ NextOngoing
    /\ UNCHANGED <<operations, database, mode, queue, ongoing, ethereum, faults>>

\* An older transaction that is not mined is stuck, whatever its deadline.
CheckNextTransaction ==
    /\ Checking
    /\ at < Len(Current.txs)
    /\ ~IsMined(CurrentTx)
    /\ at' = at + 1
    /\ UNCHANGED <<operations, database, mode, queue, ongoing, cursor, ethereum, faults>>

\* A request to the node or to the database fails.
SkipOperation ==
    /\ Checking
    /\ IF IsFinal(CurrentTx) /\ RowsOf(CurrentTx) = {}
       THEN faults' = faults
       ELSE /\ faults.errors > 0
            /\ faults' = [faults EXCEPT !.errors = @ - 1]
    /\ NextOngoing
    /\ UNCHANGED <<operations, database, mode, queue, ongoing, ethereum>>

(***************************************************************************)
(* create_supplement_tx and what follows: the last transaction is stuck    *)
(* (how far its deadline is, is left open), another one replaces it.  It   *)
(* is remembered in memory, sent, and then stored.                         *)
(***************************************************************************)
\* get_gas_price for a stuck transaction: scale_up, then limit_max.
RetryPrices(old) == {IF p > MaxPrice THEN MaxPrice ELSE p : p \in old + 1 .. MaxPrice + 1}

IsStuck == Checking /\ at = Len(Current.txs) /\ ~IsMined(CurrentTx)

\* How often a price is raised is bounded; the limit may be paid again and again.
RaiseTo(price) ==
    IF price = CurrentTx.price THEN faults' = faults
    ELSE /\ faults.raises > 0
         /\ faults' = [faults EXCEPT !.raises = @ - 1]

SendSupplement(nonce, arriving) ==
    /\ IsStuck
    /\ Current.row # 0
    /\ Current.nonce = nonce
    /\ \E price \in RetryPrices(CurrentTx.price), arrives \in arriving :
        /\ RaiseTo(price)
        /\ ongoing' = [ongoing EXCEPT ![cursor].txs = Remember(@, price)]
        /\ sent' = IF arrives THEN sent \cup {Tx(nonce, Current.op, price)} ELSE sent
    /\ mode' = "resent"
    /\ UNCHANGED <<operations, database, queue, cursor, at, mined, deep>>

\* The database refuses the hash before anything is sent, always so for an
\* operation that has no row.
SupplementNotStored ==
    /\ IsStuck
    /\ IF Current.row = 0
       THEN faults' = faults
       ELSE /\ faults.errors > 0
            /\ faults' = [faults EXCEPT !.errors = @ - 1]
    /\ \E price \in RetryPrices(CurrentTx.price) :
        ongoing' = [ongoing EXCEPT ![cursor].txs = Remember(@, price)]
    /\ NextOngoing
    /\ UNCHANGED <<operations, database, mode, queue, ethereum>>

SaveSupplement ==
    /\ mode = "resent"
    /\ ethOps' = [ethOps EXCEPT ![Current.row].txs = Remember(@, Last(Current.txs))]
    /\ mode' = "checking"
    /\ NextOngoing
    /\ UNCHANGED <<operations, params, queue, ongoing, ethereum, faults>>

\* send_tx reports an error, or the commit fails.
SaveSupplementFails ==
    /\ mode = "resent"
    /\ Losing => faults.lost > 0
    /\ faults' = IF Losing THEN [faults EXCEPT !.lost = @ - 1] ELSE faults
    /\ mode' = "checking"
    /\ NextOngoing
    /\ UNCHANGED <<operations, database, queue, ongoing, ethereum>>

EndOfRound ==
    /\ mode = "checking"
    /\ cursor > Len(ongoing)
    /\ mode' = "idle"
    /\ cursor' = 1
    /\ at' = 1
    /\ UNCHANGED <<operations, database, queue, ongoing, ethereum, faults>>

(***************************************************************************)
(* The end of the process, and ETHSender::new.                             *)
(***************************************************************************)
Crash ==
    /\ mode \notin {"down", "panicked"}
    /\ faults.crashes > 0
    /\ Losing => faults.lost > 0
    /\ faults' = [faults EXCEPT !.crashes = @ - 1, !.lost = IF Losing THEN @ - 1 ELSE @]
    /\ mode' = "down"
    /\ queue' = NewQueue(0, params)
    /\ ongoing' = <<>> /\ cursor' = 1 /\ at' = 1
    /\ UNCHANGED <<operations, database, ethereum>>

Restart ==
    LET built == NewQueue(Len(Unconfirmed), params)
    IN  /\ mode \in {"down", "panicked"}
        /\ mode' = IF LoadPanics(built) THEN "panicked" ELSE "idle"
        /\ queue' = IF LoadPanics(built) THEN built ELSE Loaded(built)
        /\ ongoing' = Unconfirmed
        /\ cursor' = 1 /\ at' = 1
        /\ UNCHANGED <<operations, database, ethereum, faults>>

(***************************************************************************)
(* The committer stores operations; Ethereum mines and confirms.           *)
(***************************************************************************)
NewCommitOperation ==
    /\ commitOps < MaxBlocks
    /\ commitOps' = commitOps + 1
    /\ UNCHANGED <<verifyOps, database, mode, memory, ethereum, faults>>

NewVerifyOperation ==
    /\ verifyOps < commitOps
    /\ verifyOps' = verifyOps + 1
    /\ UNCHANGED <<commitOps, database, mode, memory, ethereum, faults>>

Mine(tx) ==
    /\ tx.nonce = Len(mined)
    /\ mined' = Append(mined, [tx |-> tx, contract |-> Execute(ContractAfter(tx.nonce), tx)])
    /\ UNCHANGED <<operations, database, mode, memory, sent, deep, faults>>

Deepen ==
    /\ deep < Len(mined)
    /\ deep' = deep + 1
    /\ UNCHANGED <<operations, database, mode, memory, sent, mined, faults>>

Reorg ==
    /\ faults.reorgs > 0
    /\ faults' = [faults EXCEPT !.reorgs = @ - 1]
    /\ \E n \in deep..Len(mined) - 1 : mined' = SubSeq(mined, 1, n)
    /\ UNCHANGED <<operations, database, mode, memory, sent, deep>>

SenderStep ==
    \/ LoadNewOperations \/ InitializeOperation \/ SaveNewOperation \/ AllSent
    \/ ConfirmOperation \/ FailureHandler \/ WaitForTransaction \/ CheckNextTransaction
    \/ \E nonce \in 0..params.nonce : SendSupplement(nonce, BOOLEAN)
    \/ SaveSupplement \/ EndOfRound

Failure ==
    \/ LoadingFails \/ SaveNewOperationFails \/ SkipOperation
    \/ SupplementNotStored \/ SaveSupplementFails \/ Crash

Environment ==
    \/ NewCommitOperation \/ NewVerifyOperation
    \/ (\E tx \in sent : Mine(tx)) \/ Deepen \/ Reorg

Next == SenderStep \/ Failure \/ Restart \/ Environment

Spec == Init /\ [][Next]_vars

(***************************************************************************)
(* Fairness: the task keeps running and is restarted; a transaction that   *)
(* stays stuck is replaced again and again, and one of the replacements    *)
(* reaches the network; operations are loaded before the poll period ends  *)
(* in some iteration; the network mines what pays the limit, and buries it.*)
(***************************************************************************)
Nonces == 0..(2 * MaxBlocks + Cardinality(WithdrawalBlocks)) - 1

FairSpec ==
    /\ Spec
    /\ WF_vars(SenderStep \/ Restart)
    /\ SF_vars(LoadNewOperations)
    /\ \A nonce \in Nonces : SF_vars(SendSupplement(nonce, {TRUE}))
    /\ WF_vars(\E tx \in sent : tx.price = MaxPrice /\ Mine(tx))
    /\ WF_vars(Deepen)

(***************************************************************************)
(* Properties                                                              *)
(***************************************************************************)
Running == mode \notin {"down", "panicked"}

Ops == {WithdrawOp} \cup {Op(type, b) : type \in {"Commit", "Verify"}, b \in 1..MaxBlocks}

Txs == [nonce : Nat, op : Ops, price : Prices]

\* The types of the tables, of the sender's memory and of the chain.
TypeOK ==
    /\ commitOps \in 0..MaxBlocks /\ verifyOps \in 0..commitOps
    /\ \A i \in DOMAIN ethOps :
        /\ ethOps[i].op \in Ops /\ ethOps[i].nonce \in Nat /\ ethOps[i].confirmed \in BOOLEAN
        /\ ethOps[i].txs # <<>> /\ Range(ethOps[i].txs) \subseteq Prices
    /\ params \in [nonce : Nat, commit : Nat, verify : Nat, withdraw : Nat]
    /\ mode \in {"idle", "sending", "sent", "checking", "resent", "down", "panicked"}
    /\ queue.commitCount \in Nat /\ queue.verifyNext \in Nat
    /\ queue.withdraws \in Nat /\ queue.withdrawCount \in Nat /\ queue.pending \in Nat
    /\ \A i \in DOMAIN ongoing :
        /\ ongoing[i].op \in Ops /\ ongoing[i].nonce \in Nat
        /\ ongoing[i].row \in 0..Len(ethOps) /\ Range(ongoing[i].txs) \subseteq Prices
    /\ cursor \in 1..Len(ongoing) + 1
    /\ sent \subseteq Txs /\ {m.tx : m \in Range(mined)} \subseteq sent /\ deep \in 0..Len(mined)

\* The assertions of the queue (no confirmation without a transaction in flight,
\* no verification inserted behind the next one) and of failure_handler (no
\* transaction reverts) never end the process.
NeverPanics == mode # "panicked"

\* A nonce is used for one operation only and an operation with one nonce only,
\* through every crash and restart: so however many transactions are sent for an
\* operation, Ethereum executes it once.
OneOperationPerNonce ==
    \A s, t \in sent :
        /\ s.nonce = t.nonce => s.op = t.op
        /\ s.op = t.op /\ s.op # WithdrawOp => s.nonce = t.nonce

\* "this way we can be sure that state is always recoverable": but for the one that
\* is just being stored, the table has every transaction that reached the network.
SentIsRecoverable == \A tx \in sent \ Unsaved : RowsOf(tx) # {}

\* Transactions of the network that no row remembers, the one being stored apart.
Unrecorded == {tx \in sent \ Unsaved : RowsOf(tx) = {}}

\* A database transaction lost after its transaction was sent (lib.rs:375, 383) loses
\* one transaction and no more: it carries a nonce of the table or the next one, so
\* that the sender goes on where it stands, and what the table has recorded, before
\* and after, still binds a nonce to one operation and an operation to one nonce.
LossIsBounded ==
    /\ Cardinality(Unrecorded) <= MaxLost - faults.lost
    /\ \A tx \in Unrecorded : tx.nonce <= params.nonce
    /\ \A s, t \in sent \ (Unsaved \cup Unrecorded) :
        /\ s.nonce = t.nonce => s.op = t.op
        /\ s.op = t.op /\ s.op # WithdrawOp => s.nonce = t.nonce

\* The contract accepts every transaction in the chain, whatever price wins at its
\* nonce and however the chain is reorganised: commits and verifications arrive in
\* the order of the blocks and no verification before its commit.
NothingReverts == \A i \in DOMAIN mined : ~Reverted(mined[i].tx)

\* The process never ends itself: neither an assertion of the queue nor a
\* transaction that the contract refuses stops it (failure_handler).
NeverFails == TypeOK /\ NeverPanics /\ NothingReverts

\* An operation marked as confirmed has a transaction the table knows, executed
\* and too deep in the chain for a reorganisation.
ConfirmedIsFinal ==
    \A i \in DOMAIN ethOps : ethOps[i].confirmed =>
        \E price \in Range(ethOps[i].txs) : IsFinal(Tx(ethOps[i].nonce, ethOps[i].op, price))

\* sent_pending_txs is the number of operations in flight, never above the limit:
\* no slot is lost or freed twice by failures, confirmations and restarts.
SlotsMatchOngoing ==
    Running => queue.pending = Len(ongoing) /\ queue.pending <= MaxInFlight

\* The queue goes on where the table ends, also after failures and restarts: its
\* counters are those of the table, its commits the blocks after the last one bound,
\* and no operation waits in it that is bound already.
QueueContinuesTable ==
    Running /\ mode # "sent" =>
        /\ queue.commitCount = params.commit
        /\ queue.verifyNext = params.verify + 1
        /\ queue.withdrawCount = params.withdraw
        /\ \A i \in DOMAIN queue.commits : queue.commits[i] = params.commit + i
        /\ queue.verifies \subseteq Unprocessed("Verify", verifyOps)

\* Completing withdrawals follows the verification that brings them: each confirmed
\* verification of a block with withdrawals has its completeWithdrawals, bound or in
\* the queue, and none is there without one, until a crash loses the queue.
WithdrawalsFollow ==
    LET verified == {i \in DOMAIN ethOps :
                        /\ ethOps[i].op.type = "Verify" /\ ethOps[i].confirmed
                        /\ ethOps[i].op.block \in WithdrawalBlocks}
    IN  faults.crashes = MaxCrashes =>
            queue.withdrawCount + queue.withdraws = Cardinality(verified)

\* What the queue counts is what is under way: slots in flight and withdrawals to
\* complete (TxQueue, proceed_next_operations).
QueueMatches == SlotsMatchOngoing /\ WithdrawalsFollow

\* What the rows of eth_operations, in the order of their nonces, stand for.
LastBlock(type) ==
    LET rows == {i \in DOMAIN ethOps : ethOps[i].op.type = type}
    IN  IF rows = {} THEN 0 ELSE ethOps[Max(rows)].op.block

Anchored == INSTANCE Anchoring WITH
    committed <- LastBlock("Commit"),
    verified <- LastBlock("Verify"),
    completed <- Cardinality({i \in DOMAIN ethOps : ethOps[i].op = WithdrawOp})

\* Operations are bound to nonces in the order Anchoring asks for: through crashes,
\* failed database transactions and lost sends no block is passed over, repeated or
\* verified before its commit, and no withdrawal is completed ahead of a verification.
FIFO == Anchored!Spec

IsConfirmed(op) == \E i \in DOMAIN ethOps : ethOps[i].op = op /\ ethOps[i].confirmed

\* Nothing that Ethereum has was lost by a failing database transaction so far.
NothingLost == faults.lost = MaxLost

\* Every operation the committer stores is confirmed in the end, when crashes,
\* reorganisations and failing requests stop.  A database transaction lost after
\* its transaction was sent can stop the sender for good: SaveNewOperationFails
\* leaves the operation in ongoing_ops and in the queue.
AllConfirmed ==
    \A b \in 1..MaxBlocks :
        /\ commitOps >= b ~> IsConfirmed(Op("Commit", b)) \/ ~NothingLost
        /\ verifyOps >= b ~> IsConfirmed(Op("Verify", b)) \/ ~NothingLost
=============================================================================
