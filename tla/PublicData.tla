----------------------------- MODULE PublicData -----------------------------
(***************************************************************************)
(* The public data of a block: what of its operations is written to        *)
(* Ethereum, and how the data restore executes a block again from it       *)
(* (core/lib/types operations, data_restore rollup_ops and tree_state).    *)
(*                                                                         *)
(* Public data is a sequence of chunks.  An operation takes as many as its *)
(* type says, the type is at the head of the first; a chunk is modelled as *)
(* the operation's fields, in the order the code writes them, and its      *)
(* place among the chunks.  The amounts and fees that transactions may     *)
(* carry (check_correctness) survive packing unchanged, so they are        *)
(* written as they are.  The token is left out, as in Ledger.              *)
(***************************************************************************)
EXTENDS Ledger

\* The CHUNKS of each operation.
ChunksOf ==
    [Noop |-> 1, Deposit |-> 6, TransferToNew |-> 6, Withdraw |-> 6, Transfer |-> 2,
     FullExit |-> 6, ChangePubKey |-> 6, ForcedExit |-> 6]

-----------------------------------------------------------------------------
(* get_public_data: the fields of each operation *)

TransferData(o) == <<o.op, o.id, o.to, o.amount, o.fee>>
TransferToNewData(o) == <<o.op, o.id, o.amount, o.address, o.to, o.fee>>
WithdrawData(o) == <<o.op, o.id, o.amount, o.fee, o.address>>
ForcedExitData(o) == <<o.op, o.id, o.to, o.amount, o.fee, o.address>>
ChangePubKeyData(o) == <<o.op, o.id, o.key, o.address, o.nonce, o.fee>>
DepositData(o) == <<o.op, o.id, o.amount, o.address>>
FullExitData(o) == <<o.op, o.id, o.address, o.amount>>

FieldsOf(o) ==
    CASE o.op = "Noop" -> <<"Noop">>
      [] o.op = "Transfer" -> TransferData(o)
      [] o.op = "TransferToNew" -> TransferToNewData(o)
      [] o.op = "Withdraw" -> WithdrawData(o)
      [] o.op = "ForcedExit" -> ForcedExitData(o)
      [] o.op = "ChangePubKey" -> ChangePubKeyData(o)
      [] o.op = "Deposit" -> DepositData(o)
      [] o.op = "FullExit" -> FullExitData(o)

\* A sequence of fields cut into the chunks of its operation.
Chunked(fields) == [k \in 1 .. ChunksOf[fields[1]] |-> [fields |-> fields, place |-> k]]

FilledUp(chunks, size, noop) == chunks \o [k \in 1 .. size - Len(chunks) |-> noop]

\* public_data of the executed operations of a block, filled up with noops
PublicData(ops, size) ==
    FilledUp(FlattenSeq([k \in DOMAIN ops |-> Chunked(FieldsOf(ops[k]))]),
             size, Chunked(FieldsOf(Noop))[1])

-----------------------------------------------------------------------------
(* from_public_data: what can be read back; the nonce of a transaction and   *)
(* the addresses of known accounts are not in the data                       *)

TransferFromData(d) ==
    [Noop EXCEPT !.op = "Transfer", !.id = d[2], !.to = d[3], !.amount = d[4], !.fee = d[5]]

TransferToNewFromData(d) ==
    [Noop EXCEPT !.op = "TransferToNew", !.id = d[2], !.amount = d[3], !.address = d[4],
                 !.to = d[5], !.fee = d[6]]

WithdrawFromData(d) ==
    [Noop EXCEPT !.op = "Withdraw", !.id = d[2], !.amount = d[3], !.fee = d[4], !.address = d[5]]

ForcedExitFromData(d) ==
    [Noop EXCEPT !.op = "ForcedExit", !.id = d[2], !.to = d[3], !.amount = d[4], !.fee = d[5],
                 !.address = d[6]]

ChangePubKeyFromData(d) ==
    [Noop EXCEPT !.op = "ChangePubKey", !.id = d[2], !.key = d[3], !.address = d[4],
                 !.nonce = d[5], !.fee = d[6]]

DepositFromData(d) ==
    [Noop EXCEPT !.op = "Deposit", !.id = d[2], !.amount = d[3], !.address = d[4]]

FullExitFromData(d) ==
    [Noop EXCEPT !.op = "FullExit", !.id = d[2], !.address = d[3], !.amount = d[4]]

FromData(d) ==
    CASE d[1] = "Noop" -> Noop
      [] d[1] = "Transfer" -> TransferFromData(d)
      [] d[1] = "TransferToNew" -> TransferToNewFromData(d)
      [] d[1] = "Withdraw" -> WithdrawFromData(d)
      [] d[1] = "ForcedExit" -> ForcedExitFromData(d)
      [] d[1] = "ChangePubKey" -> ChangePubKeyFromData(d)
      [] d[1] = "Deposit" -> DepositFromData(d)
      [] d[1] = "FullExit" -> FullExitFromData(d)

\* get_rollup_ops_from_data: the type at the pointer says how far to move it.
OpsFromData(data) ==
    FoldLeft(LAMBDA acc, chunk :
               IF acc.skip > 0 THEN [acc EXCEPT !.skip = @ - 1]
               ELSE [ops |-> Append(acc.ops, FromData(chunk.fields)),
                     skip |-> ChunksOf[chunk.fields[1]] - 1],
             [ops |-> <<>>, skip |-> 0], data).ops

-----------------------------------------------------------------------------
(* update_tree_states_from_ops_block *)

\* get_account: an operation of an account that is not there is an error.
AccountsExist(l, o) ==
    o.id \in DOMAIN l /\ (o.op \in {"Transfer", "ForcedExit"} => o.to \in DOMAIN l)

\* Mutant: the nonce stays the zero of the public data.
ReplayTxNonceZero(l, o) == IF AccountsExist(l, o) THEN ApplyOp(l, o) ELSE Failure(l)

\* A transaction is applied without its signature: the fields that the public
\* data leaves out come from the account that pays.
ReplayTx(l, o) ==
    IF AccountsExist(l, o) THEN ApplyOp(l, [o EXCEPT !.nonce = l[o.id].nonce])
    ELSE Failure(l)

\* A priority operation is executed anew from its request.
ReplayDeposit(l, o) ==
    ExecutePriorityOp(l, [kind |-> "Deposit", to |-> o.address, amount |-> o.amount])

ReplayFullExit(l, o) ==
    ExecutePriorityOp(l, [kind |-> "FullExit", id |-> o.id, from |-> o.address])

ReplayOp(l, o) ==
    CASE o.op = "Deposit" -> ReplayDeposit(l, o)
      [] o.op = "FullExit" -> ReplayFullExit(l, o)
      [] OTHER -> ReplayTx(l, o)

ReplayStep(acc, r) ==
    [ok |-> acc.ok /\ r.ok, ledger |-> r.ledger, updates |-> acc.updates \o r.updates,
     fees |-> Append(acc.fees, r.fee)]

ReplayAll(l, ops) ==
    FoldLeft(LAMBDA acc, o : ReplayStep(acc, ReplayOp(acc.ledger, o)),
             [ok |-> TRUE, ledger |-> l, updates |-> <<>>, fees |-> <<>>],
             SelectSeq(ops, LAMBDA o : o.op # "Noop"))

\* The fees are collected at the end; the result is ok when no operation failed.
ReplayFees(run, collected) ==
    [ok |-> run.ok, ledger |-> collected.ledger, updates |-> run.updates \o collected.updates]

ReplayRun(run) == ReplayFees(run, CollectFees(run.ledger, run.fees))
Replay(l, ops) == ReplayRun(ReplayAll(l, ops))
=============================================================================
