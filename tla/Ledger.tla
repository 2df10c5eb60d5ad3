------------------------------- MODULE Ledger -------------------------------
(***************************************************************************)
(* The account state of the zkSync server and what executing a             *)
(* transaction does to it: core/lib/state (ZkSyncState and its handlers),  *)
(* with Account and AccountUpdate of core/lib/types.                       *)
(*                                                                         *)
(* A ledger is a function from account ids to accounts: the balance tree.  *)
(* The cache account_id_by_address is derived from it (Holder).  Tokens    *)
(* do not interact, so one token stands for all of them; a signature is    *)
(* the key that made it.                                                   *)
(*                                                                         *)
(* Executing returns a record: ok, the new ledger, the account updates it  *)
(* reports (what the database stores), the collected fee, the name of the  *)
(* executed operation and the amount it takes out to Ethereum.             *)
(***************************************************************************)
EXTENDS Integers, FiniteSets, Sequences, SequencesExt

CONSTANTS
    NoKey,          \* PubKeyHash::default(): the account is locked
    ZeroAddress,    \* Address::zero()
    MaxAccountId,   \* params::max_account_id()
    FeeAccountId    \* the account that collects the fees of a block

-----------------------------------------------------------------------------
(* What the ledger is given *)

\* No key hashes to PubKeyHash::default(), so no signature was made with it.
IsTransaction(tx) ==
    /\ tx.kind \in {"Transfer", "Withdraw", "ChangePubKey", "ForcedExit", "Close"}
    /\ tx.nonce \in Nat
    /\ tx.kind # "Close" => tx.fee \in Nat /\ tx.key # NoKey
    /\ tx.kind \in {"Transfer", "Withdraw"} => tx.amount \in Nat

IsPriorityOp(op) ==
    \/ op.kind = "Deposit" /\ op.amount \in Nat
    \/ op.kind = "FullExit"

\* A state to start from: the fee account is there, ids count from zero, no two
\* accounts share an address.
IsGenesis(l) ==
    /\ IsFiniteSet(DOMAIN l) /\ FeeAccountId \in DOMAIN l
    /\ l = [i \in 0 .. Cardinality(DOMAIN l) - 1 |->
              [address |-> l[i].address, nonce |-> l[i].nonce,
               key |-> l[i].key, balance |-> l[i].balance]]
    /\ \A i \in DOMAIN l : l[i].nonce \in Nat /\ l[i].balance \in Nat
    /\ \A i, j \in DOMAIN l : l[i].address = l[j].address => i = j

-----------------------------------------------------------------------------
(* Accounts and updates of accounts *)

\* get_account_by_address: the id that holds an address, as a set of at most one.
Holder(l, a) == {i \in DOMAIN l : l[i].address = a}

\* Mutant: one id too far.
FreeIdAfter(l) == Cardinality(DOMAIN l) + 1

\* get_free_account_id: the number of accounts in the tree.
FreeId(l) == Cardinality(DOMAIN l)

NewAccount(a) == [address |-> a, nonce |-> 0, key |-> NoKey, balance |-> 0]

\* insert_account and remove_account
Insert(l, i, account) ==
    [j \in DOMAIN l \cup {i} |-> IF j = i THEN account ELSE l[j]]

Without(l, i) == [j \in DOMAIN l \ {i} |-> l[j]]

Created(i, account) ==
    [kind |-> "Create", id |-> i, address |-> account.address, nonce |-> account.nonce]

Moved(i, before, after) ==
    [kind |-> "UpdateBalance", id |-> i, old |-> before.balance, new |-> after.balance,
     oldNonce |-> before.nonce, newNonce |-> after.nonce]

Rekeyed(i, before, after) ==
    [kind |-> "ChangePubKeyHash", id |-> i, old |-> before.key, new |-> after.key,
     oldNonce |-> before.nonce, newNonce |-> after.nonce]

\* The assertions of apply_account_updates: it panics when one does not hold.
UpdateFits(l, u) ==
    IF u.kind = "Create"
    THEN Holder(l, u.address) = {}
    ELSE /\ u.id \in DOMAIN l
         /\ u.kind = "Delete" =>
              l[u.id].address = u.address /\ l[u.id].nonce = u.nonce
         /\ u.kind = "UpdateBalance" =>
              l[u.id].balance = u.old /\ l[u.id].nonce = u.oldNonce
         /\ u.kind = "ChangePubKeyHash" =>
              l[u.id].key = u.old /\ l[u.id].nonce = u.oldNonce

\* apply_account_updates and Account::apply_update, one update.
ApplyUpdate(l, u) ==
    CASE u.kind = "Create" ->
           Insert(l, u.id, [NewAccount(u.address) EXCEPT !.nonce = u.nonce])
      [] u.kind = "Delete" -> Without(l, u.id)
      [] u.kind = "UpdateBalance" ->
           [l EXCEPT ![u.id].balance = u.new, ![u.id].nonce = u.newNonce]
      [] u.kind = "ChangePubKeyHash" ->
           [l EXCEPT ![u.id].key = u.new, ![u.id].nonce = u.newNonce]

ApplyUpdates(l, updates) == FoldLeft(ApplyUpdate, l, updates)

\* AccountUpdate::reversed_update
Reversed(u) ==
    CASE u.kind = "Create" -> [u EXCEPT !.kind = "Delete"]
      [] u.kind = "Delete" -> [u EXCEPT !.kind = "Create"]
      [] OTHER -> [u EXCEPT !.old = u.new, !.new = u.old,
                            !.oldNonce = u.newNonce, !.newNonce = u.oldNonce]

\* Mutant: the order of the updates stays.
ReverseUpdatesInOrder(updates) == [k \in DOMAIN updates |-> Reversed(updates[k])]

\* reverse_updates
ReverseUpdates(updates) == [k \in DOMAIN updates |-> Reversed(Reverse(updates)[k])]

-----------------------------------------------------------------------------
(* Executing one operation *)

Failure(l) ==
    [ok |-> FALSE, ledger |-> l, updates |-> <<>>, fee |-> 0, op |-> "None", out |-> 0]

Success(l, updates, fee, op, out) ==
    [ok |-> TRUE, ledger |-> l, updates |-> updates, fee |-> fee, op |-> op, out |-> out]

\* The sender exists under the id the transaction names, and its key signed it.
SignedByOwner(l, tx) ==
    \E i \in Holder(l, tx.from) : i = tx.id /\ l[i].key # NoKey /\ l[i].key = tx.key

\* Mutants: one of the two checks is missing.
CanPayAnyNonce(account, tx, cost) == account.balance >= cost
CanPayAnyBalance(account, tx, cost) == account.nonce = tx.nonce

CanPay(account, tx, cost) == account.nonce = tx.nonce /\ account.balance >= cost

Spend(account, cost) ==
    [account EXCEPT !.balance = @ - cost, !.nonce = @ + 1]

\* The account a transfer credits and, when it does not exist yet, the id it gets.
Receiver(l, a) ==
    IF Holder(l, a) = {} THEN FreeId(l) ELSE CHOOSE i \in Holder(l, a) : TRUE

TransferName(l, a) == IF Holder(l, a) = {} THEN "TransferToNew" ELSE "Transfer"

\* create_op: the checks that do not depend on the nonce or the balance.
Convertible(l, tx) ==
    CASE tx.kind = "Transfer" -> tx.to # ZeroAddress /\ SignedByOwner(l, tx)
      [] tx.kind = "Withdraw" -> SignedByOwner(l, tx)
      [] tx.kind = "ChangePubKey" ->
           tx.id \in Holder(l, tx.from) /\ tx.owned /\ tx.key = tx.newKey
      [] tx.kind = "ForcedExit" ->
           /\ tx.id \in DOMAIN l
           /\ l[tx.id].key = tx.key
           /\ Holder(l, tx.to) # {}
           /\ l[Receiver(l, tx.to)].key = NoKey
      [] tx.kind = "Close" -> FALSE

\* No operation: the padding of a block, and the fields an operation leaves out.
Noop ==
    [op |-> "Noop", id |-> 0, to |-> 0, address |-> ZeroAddress, key |-> NoKey,
     nonce |-> 0, amount |-> 0, fee |-> 0]

\* create_op: the operation a transaction becomes, with the ids of its accounts
\* and, for the exits, the amount found on the account.
CreateTransfer(l, tx) ==
    [Noop EXCEPT !.op = TransferName(l, tx.to), !.id = tx.id, !.to = Receiver(l, tx.to),
                 !.address = tx.to, !.nonce = tx.nonce, !.amount = tx.amount, !.fee = tx.fee]

CreateWithdraw(l, tx) ==
    [Noop EXCEPT !.op = "Withdraw", !.id = tx.id, !.address = tx.to, !.nonce = tx.nonce,
                 !.amount = tx.amount, !.fee = tx.fee]

CreateChangePubKey(l, tx) ==
    [Noop EXCEPT !.op = "ChangePubKey", !.id = tx.id, !.address = tx.from,
                 !.key = tx.newKey, !.nonce = tx.nonce, !.fee = tx.fee]

CreateForcedExit(l, tx) ==
    [Noop EXCEPT !.op = "ForcedExit", !.id = tx.id, !.to = Receiver(l, tx.to),
                 !.address = tx.to, !.nonce = tx.nonce,
                 !.amount = l[Receiver(l, tx.to)].balance, !.fee = tx.fee]

CreateDeposit(l, op) ==
    [Noop EXCEPT !.op = "Deposit", !.id = Receiver(l, op.to), !.address = op.to,
                 !.amount = op.amount]

CreateFullExit(l, op) ==
    [Noop EXCEPT !.op = "FullExit", !.id = op.id, !.address = op.from,
                 !.amount = IF op.id \in Holder(l, op.from) THEN l[op.id].balance ELSE 0]

CreateOp(l, tx) ==
    CASE tx.kind = "Transfer" -> CreateTransfer(l, tx)
      [] tx.kind = "Withdraw" -> CreateWithdraw(l, tx)
      [] tx.kind = "ChangePubKey" -> CreateChangePubKey(l, tx)
      [] tx.kind = "ForcedExit" -> CreateForcedExit(l, tx)
      [] tx.kind = "Deposit" -> CreateDeposit(l, tx)
      [] tx.kind = "FullExit" -> CreateFullExit(l, tx)

-----------------------------------------------------------------------------
(* apply_op: what an operation does to the accounts *)

\* create_account when the receiver is new
Target(l, o) == IF o.to \in DOMAIN l THEN l[o.to] ELSE NewAccount(o.address)

CreationOf(l, i, o) ==
    IF i \in DOMAIN l THEN <<>> ELSE <<Created(i, NewAccount(o.address))>>

\* Mutant: a transfer to the sender is like any other.
TransferBlind(l, o) ==
    LET from == l[o.id]
        paid == Spend(from, o.amount + o.fee)
        before == Target(l, o)
        credited == [before EXCEPT !.balance = @ + o.amount]
    IN  IF ~(o.to <= MaxAccountId /\ CanPay(from, o, o.amount + o.fee))
        THEN Failure(l)
        ELSE Success(Insert(Insert(l, o.id, paid), o.to, credited),
                     CreationOf(l, o.to, o)
                       \o <<Moved(o.id, from, paid), Moved(o.to, before, credited)>>,
                     o.fee, o.op, 0)

\* A transfer to the sender itself only pays the fee.
TransferToSelf(l, o) ==
    LET from == l[o.id]
        paid == Spend(from, o.fee)
    IN  Success(Insert(l, o.id, paid), <<Moved(o.id, from, paid)>>, o.fee, o.op, 0)

Transfer(l, o) ==
    LET from == l[o.id]
        paid == Spend(from, o.amount + o.fee)
        before == Target(l, o)
        credited == [before EXCEPT !.balance = @ + o.amount]
    IN  IF ~(o.to <= MaxAccountId /\ CanPay(from, o, o.amount + o.fee))
        THEN Failure(l)
        ELSE IF o.to = o.id THEN TransferToSelf(l, o)
        ELSE Success(Insert(Insert(l, o.id, paid), o.to, credited),
                     CreationOf(l, o.to, o)
                       \o <<Moved(o.id, from, paid), Moved(o.to, before, credited)>>,
                     o.fee, o.op, 0)

Withdraw(l, o) ==
    LET from == l[o.id]
        paid == Spend(from, o.amount + o.fee)
    IN  IF CanPay(from, o, o.amount + o.fee)
        THEN Success(Insert(l, o.id, paid), <<Moved(o.id, from, paid)>>,
                     o.fee, "Withdraw", o.amount)
        ELSE Failure(l)

\* The nonce moves with the key, the fee after.
ChangePubKey(l, o) ==
    LET from == l[o.id]
        rekeyed == [from EXCEPT !.key = o.key, !.nonce = @ + 1]
        paid == [rekeyed EXCEPT !.balance = @ - o.fee]
    IN  IF CanPay(from, o, o.fee)
        THEN Success(Insert(l, o.id, paid),
                     <<Rekeyed(o.id, from, rekeyed), Moved(o.id, rekeyed, paid)>>,
                     o.fee, "ChangePubKey", 0)
        ELSE Failure(l)

\* Anyone may take the whole balance of a locked account out to its owner.
ForcedExit(l, o) ==
    LET initiator == l[o.id]
        paid == Spend(initiator, o.fee)
        emptied == [l[o.to] EXCEPT !.balance = @ - o.amount]
    IN  IF CanPay(initiator, o, o.fee) /\ l[o.to].balance = o.amount
        THEN Success(Insert(Insert(l, o.id, paid), o.to, emptied),
                     <<Moved(o.id, initiator, paid), Moved(o.to, l[o.to], emptied)>>,
                     o.fee, "ForcedExit", o.amount)
        ELSE Failure(l)

\* Mutant: a deposit does not report the account it creates.
DepositSilent(l, o) ==
    LET before == IF o.id \in DOMAIN l THEN l[o.id] ELSE NewAccount(o.address)
        credited == [before EXCEPT !.balance = @ + o.amount]
    IN  Success(Insert(l, o.id, credited), <<Moved(o.id, before, credited)>>, 0, "Deposit", 0)

Deposit(l, o) ==
    LET before == IF o.id \in DOMAIN l THEN l[o.id] ELSE NewAccount(o.address)
        credited == [before EXCEPT !.balance = @ + o.amount]
    IN  Success(Insert(l, o.id, credited),
                CreationOf(l, o.id, o) \o <<Moved(o.id, before, credited)>>, 0, "Deposit", 0)

\* An exit of an account that does not exist, or that belongs to another
\* address, is executed all the same: it changes nothing and reports no update.
FullExit(l, o) ==
    LET emptied == [l[o.id] EXCEPT !.balance = @ - o.amount]
    IN  IF o.id \in Holder(l, o.address)
        THEN Success(Insert(l, o.id, emptied), <<Moved(o.id, l[o.id], emptied)>>,
                     0, "FullExit", o.amount)
        ELSE Success(l, <<>>, 0, "FullExit", 0)

ApplyOp(l, o) ==
    CASE o.op \in {"Transfer", "TransferToNew"} -> Transfer(l, o)
      [] o.op = "Withdraw" -> Withdraw(l, o)
      [] o.op = "ChangePubKey" -> ChangePubKey(l, o)
      [] o.op = "ForcedExit" -> ForcedExit(l, o)
      [] o.op = "Deposit" -> Deposit(l, o)
      [] o.op = "FullExit" -> FullExit(l, o)

\* execute_tx: apply_tx creates the operation and applies it; closing an
\* account is disabled.
ExecuteTx(l, tx) ==
    IF Convertible(l, tx) THEN ApplyOp(l, CreateOp(l, tx)) ELSE Failure(l)

ExecutePriorityOp(l, op) == ApplyOp(l, CreateOp(l, op))

-----------------------------------------------------------------------------
(* Batches and the fees of a block *)

\* One transaction of a batch is taken back.
TakeBack(l, updates) == ApplyUpdates(l, ReverseUpdates(updates))

\* Mutant: the first transaction is taken back first.
UndoInOrder(l, successes) == FoldLeft(TakeBack, l, successes)

\* Taking back the transactions of a batch, the latest first.
Undo(l, successes) == FoldLeft(TakeBack, l, Reverse(successes))

BatchStep(acc, tx) ==
    LET r == ExecuteTx(acc.ledger, tx)
    IN  IF ~acc.ok THEN acc
        ELSE IF ~r.ok THEN [acc EXCEPT !.ok = FALSE]
        ELSE [acc EXCEPT !.ledger = r.ledger, !.results = Append(@, r)]

\* Execution of a batch until its first failure.
BatchPrefix(l, txs) ==
    FoldLeft(BatchStep, [ok |-> TRUE, ledger |-> l, results |-> <<>>], txs)

\* Mutant: a batch that fails keeps what succeeded before.
ExecuteBatchPartly(l, txs) ==
    LET run == BatchPrefix(l, txs)
    IN  [ok |-> run.ok, results |-> run.results, ledger |-> run.ledger]

\* execute_txs_batch: all the transactions take effect, or none does.
ExecuteBatch(l, txs) ==
    LET run == BatchPrefix(l, txs)
    IN  IF run.ok THEN run
        ELSE [ok |-> FALSE, results |-> <<>>,
              ledger |-> Undo(run.ledger, [k \in DOMAIN run.results |-> run.results[k].updates])]

\* One fee; nothing is done for a fee of zero.
AddFee(acc, fee) ==
    LET before == acc.ledger[FeeAccountId]
        after == [before EXCEPT !.balance = @ + fee]
    IN  IF fee = 0 THEN acc
        ELSE [ledger |-> Insert(acc.ledger, FeeAccountId, after),
              updates |-> Append(acc.updates, Moved(FeeAccountId, before, after))]

\* collect_fee: one update of the fee account for each fee that is not zero.
CollectFees(l, fees) == FoldLeft(AddFee, [ledger |-> l, updates |-> <<>>], fees)

\* chunks_for_tx names the operation by the state before execution.
PlannedOp(l, tx) == IF tx.kind = "Transfer" THEN TransferName(l, tx.to) ELSE tx.kind
=============================================================================
