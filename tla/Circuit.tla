------------------------------- MODULE Circuit -------------------------------
(***************************************************************************)
(* The block circuit of core/lib/circuit and the witness generator that    *)
(* feeds it.  The witness generator turns each executed operation into     *)
(* chunk records: the two branches of the account tree the chunk looks at, *)
(* the arguments, the signature and a piece of public data.  The circuit   *)
(* runs over the chunks, checks each against the tree it has built so far  *)
(* (a Merkle path is the rest of the tree at that time) and writes one    *)
(* account per chunk; the fees go to the validator after the last chunk.   *)
(*                                                                         *)
(* The tree holds an account under every id; the accounts that nobody      *)
(* created are empty.  A signature is the key that made it and the message *)
(* it is for.                                                              *)
(***************************************************************************)
EXTENDS PublicData

\* CircuitAccount::default
EmptyAccount == NewAccount(ZeroAddress)

\* is_account_empty: the balances do not count.
IsEmpty(account) == account.nonce = 0 /\ account.key = NoKey /\ account.address = ZeroAddress

\* The circuit's account tree of a ledger.
Tree(l) == [i \in 0 .. MaxAccountId |-> IF i \in DOMAIN l THEN l[i] ELSE EmptyAccount]

\* get_audits: the account and the rest of the tree, which its path hashes.
Branch(tree, i) ==
    [id |-> i, account |-> tree[i], siblings |-> [j \in DOMAIN tree \ {i} |-> tree[j]]]

NoArguments ==
    [a |-> 0, b |-> 0, amount |-> 0, full |-> 0, fee |-> 0, address |-> ZeroAddress,
     key |-> NoKey, nonce |-> 0]

-----------------------------------------------------------------------------
(* The signed message: get_bytes of a transaction *)

TransferMessage(tx) == <<"Transfer", tx.id, tx.from, tx.to, tx.amount, tx.fee, tx.nonce>>
WithdrawMessage(tx) == <<"Withdraw", tx.id, tx.from, tx.to, tx.amount, tx.fee, tx.nonce>>
ChangePubKeyMessage(tx) == <<"ChangePubKey", tx.id, tx.from, tx.newKey, tx.fee, tx.nonce>>
ForcedExitMessage(tx) == <<"ForcedExit", tx.id, tx.to, tx.fee, tx.nonce>>

\* A signature verifies under the key that made it, for the message it is for.
SignatureOf(key, message) == [key |-> key, message |-> message]

\* SigDataInput: the signature the circuit is given with an operation.
Signature(tx) ==
    CASE tx.kind = "Transfer" -> SignatureOf(tx.key, TransferMessage(tx))
      [] tx.kind = "Withdraw" -> SignatureOf(tx.key, WithdrawMessage(tx))
      [] tx.kind = "ChangePubKey" -> SignatureOf(tx.key, ChangePubKeyMessage(tx))
      [] tx.kind = "ForcedExit" -> SignatureOf(tx.key, ForcedExitMessage(tx))
      [] OTHER -> SignatureOf(NoKey, <<>>)

-----------------------------------------------------------------------------
(* get_pubdata: the witness generator writes the public data a second time   *)

TransferPubdata(o) == <<"Transfer", o.id, o.to, o.amount, o.fee>>
TransferToNewPubdata(o) == <<"TransferToNew", o.id, o.amount, o.address, o.to, o.fee>>
ForcedExitPubdata(o) == <<"ForcedExit", o.id, o.to, o.amount, o.fee, o.address>>
WithdrawPubdata(o) == <<"Withdraw", o.id, o.amount, o.fee, o.address>>
\* The nonce is the account's.
ChangePubKeyPubdata(tree, o) ==
    <<"ChangePubKey", o.id, o.key, o.address, tree[o.id].nonce, o.fee>>
DepositPubdata(o) == <<"Deposit", o.id, o.amount, o.address>>
FullExitPubdata(o) == <<"FullExit", o.id, o.address, o.amount>>

-----------------------------------------------------------------------------
(* Witness generation: what an operation does to the circuit's tree, and    *)
(* the branches of each of its chunks (counted from 0)                      *)

\* One account: the tree before in the first chunk, the tree after in the rest.
OneSided(before, after, i) ==
    [k \in 0 .. 5 |->
        LET b == Branch(IF k = 0 THEN before ELSE after, i) IN [lhs |-> b, rhs |-> b]]

\* Two accounts: the payer is written by the first chunk, the other one by the
\* second; the other side of the first chunk is taken after the payer has paid.
TwoSided(before, between, after, o) ==
    [k \in 0 .. 5 |->
        [lhs |-> Branch(CASE k = 0 -> before [] k = 1 -> between [] OTHER -> after, o.id),
         rhs |-> Branch(IF k \in {0, 1} THEN between ELSE after, o.to)]]

\* The first write of an operation on two accounts.
Paid(tree, o, cost) == [tree EXCEPT ![o.id] = Spend(@, cost)]

Transferred(tree, o) ==
    [Paid(tree, o, o.amount + o.fee) EXCEPT ![o.to].balance = @ + o.amount]

TransferWitness(tree, o) ==
    [tree |-> Transferred(tree, o),
     sides |-> TwoSided(tree, Paid(tree, o, o.amount + o.fee), Transferred(tree, o), o),
     data |-> TransferPubdata(o),
     args |-> [NoArguments EXCEPT !.a = tree[o.id].balance, !.b = o.amount + o.fee,
                                  !.amount = o.amount, !.full = o.amount, !.fee = o.fee]]

TransferredToNew(tree, o) == [Transferred(tree, o) EXCEPT ![o.to].address = o.address]

TransferToNewWitness(tree, o) ==
    [tree |-> TransferredToNew(tree, o),
     sides |-> TwoSided(tree, Paid(tree, o, o.amount + o.fee), TransferredToNew(tree, o), o),
     data |-> TransferToNewPubdata(o),
     args |-> [NoArguments EXCEPT !.a = tree[o.id].balance, !.b = o.amount + o.fee,
                                  !.amount = o.amount, !.full = o.amount, !.fee = o.fee,
                                  !.address = o.address]]

ForcedOut(tree, o) == [Paid(tree, o, o.fee) EXCEPT ![o.to].balance = @ - o.amount]

\* between: the tree in which the second account is looked at for the first time.
ForcedExitWitnessOver(tree, between, o) ==
    [tree |-> ForcedOut(tree, o), sides |-> TwoSided(tree, between, ForcedOut(tree, o), o),
     data |-> ForcedExitPubdata(o),
     args |-> [NoArguments EXCEPT !.a = tree[o.id].balance, !.b = o.fee,
                                  !.amount = o.amount, !.full = o.amount, !.fee = o.fee,
                                  !.address = o.address]]

\* Mutant: the target is looked at only before the initiator has paid.
ForcedExitWitnessOneTree(tree, o) == ForcedExitWitnessOver(tree, tree, o)
ForcedExitWitness(tree, o) == ForcedExitWitnessOver(tree, Paid(tree, o, o.fee), o)

WithdrawWitness(tree, o) ==
    LET after == [tree EXCEPT ![o.id] = Spend(@, o.amount + o.fee)]
    IN  [tree |-> after, sides |-> OneSided(tree, after, o.id),
         data |-> WithdrawPubdata(o),
         args |-> [NoArguments EXCEPT !.a = tree[o.id].balance, !.b = o.amount + o.fee,
                                      !.amount = o.amount, !.full = o.amount, !.fee = o.fee,
                                      !.address = o.address]]

\* The left branch stays the account before in every chunk.
ChangePubKeyWitness(tree, o) ==
    LET after == [tree EXCEPT ![o.id] = [Spend(@, o.fee) EXCEPT !.key = o.key]]
    IN  [tree |-> after,
         sides |-> [k \in 0 .. 5 |->
                      [lhs |-> Branch(tree, o.id), rhs |-> Branch(after, o.id)]],
         data |-> ChangePubKeyPubdata(tree, o),
         args |-> [NoArguments EXCEPT !.a = tree[o.id].balance, !.b = o.fee, !.fee = o.fee,
                                      !.address = o.address, !.key = o.key,
                                      !.nonce = o.nonce]]

\* Mutant: the account of a first deposit keeps the empty address.
DepositWitnessNoAddress(tree, o) ==
    LET after == [tree EXCEPT ![o.id].balance = @ + o.amount]
    IN  [tree |-> after, sides |-> OneSided(tree, after, o.id), data |-> DepositPubdata(o),
         args |-> [NoArguments EXCEPT !.a = o.amount, !.full = o.amount,
                                      !.address = o.address]]

DepositWitness(tree, o) ==
    LET after == [tree EXCEPT ![o.id].balance = @ + o.amount, ![o.id].address = o.address]
    IN  [tree |-> after, sides |-> OneSided(tree, after, o.id),
         data |-> DepositPubdata(o),
         args |-> [NoArguments EXCEPT !.a = o.amount, !.full = o.amount,
                                      !.address = o.address]]

\* is_success: the exit found an account of the requesting address.
FullExitWitness(tree, o) ==
    LET success == tree[o.id].address = o.address
        after == IF success THEN [tree EXCEPT ![o.id].balance = 0] ELSE tree
    IN  [tree |-> after, sides |-> OneSided(tree, after, o.id),
         data |-> FullExitPubdata(o),
         args |-> [NoArguments EXCEPT !.a = tree[o.id].balance, !.full = o.amount,
                                      !.address = o.address]]

NoopWitness(tree) ==
    [tree |-> tree, sides |-> OneSided(tree, tree, FeeAccountId), data |-> <<"Noop">>,
     args |-> NoArguments]

WitnessOf(tree, o) ==
    CASE o.op = "Transfer" -> TransferWitness(tree, o)
      [] o.op = "TransferToNew" -> TransferToNewWitness(tree, o)
      [] o.op = "ForcedExit" -> ForcedExitWitness(tree, o)
      [] o.op = "Withdraw" -> WithdrawWitness(tree, o)
      [] o.op = "ChangePubKey" -> ChangePubKeyWitness(tree, o)
      [] o.op = "Deposit" -> DepositWitness(tree, o)
      [] o.op = "FullExit" -> FullExitWitness(tree, o)
      [] o.op = "Noop" -> NoopWitness(tree)

\* calculate_operations: the chunk records of one operation.
Operations(w, signature) ==
    LET data == Chunked(w.data)
    IN  [k \in DOMAIN data |->
           [type |-> w.data[1], chunk |-> k - 1, data |-> data[k], args |-> w.args,
            lhs |-> w.sides[k - 1].lhs, rhs |-> w.sides[k - 1].rhs,
            signature |-> signature]]

\* The fees of all chunks go to the validator's account.
PayValidator(tree, fees) == [tree EXCEPT ![FeeAccountId].balance = @ + fees]

\* build_block_witness over executed operations with their transactions: the
\* chunks filled up with noops, the public data, and the tree with the fees.
WitnessStep(acc, w, signature) ==
    [tree |-> w.tree, fees |-> acc.fees + w.args.fee,
     chunks |-> acc.chunks \o Operations(w, signature)]

WitnessAll(tree, executed) ==
    FoldLeft(LAMBDA acc, e : WitnessStep(acc, WitnessOf(acc.tree, e.o), Signature(e.tx)),
             [tree |-> tree, fees |-> 0, chunks |-> <<>>], executed)

NoopChunk(tree) == Operations(NoopWitness(tree), Signature([kind |-> "Noop"]))[1]

\* public_data_commitment, of one block: a hash is what was hashed.
PublicDataCommitment(before, after, data) == <<FeeAccountId, before, after, data>>

DataOf(chunks) == [k \in DOMAIN chunks |-> chunks[k].data]

\* collect_fees, calculate_pubdata_commitment
WitnessRun(tree, run, chunks) ==
    LET after == PayValidator(run.tree, run.fees)
    IN  [chunks |-> chunks, data |-> DataOf(chunks), tree |-> after,
         commitment |-> PublicDataCommitment(tree, after, DataOf(chunks))]

FilledRun(tree, run, size) ==
    WitnessRun(tree, run, FilledUp(run.chunks, size, NoopChunk(run.tree)))

BlockWitness(tree, executed, size) == FilledRun(tree, WitnessAll(tree, executed), size)

-----------------------------------------------------------------------------
(* The circuit: each operation says whether the chunk is one of its own, the *)
(* public data it composes, and the account it leaves in the current branch  *)

\* The message of the signature is the one the circuit composed.
MessageIs(c, message) == c.signature.message = message

\* So is its key.
SignedBy(c, key, message) == c.signature.key = key /\ MessageIs(c, message)

\* The payer's chunk: the arguments name its balance and its cost.
Pays(c, payer, cost) == c.args.a = payer.balance /\ c.args.b = cost /\ c.args.a >= c.args.b

TransferPays(c, cur) ==
    /\ c.chunk = 0
    /\ Pays(c, cur.account, c.args.amount + c.args.fee)
    /\ SignedBy(c, c.lhs.account.key,
                <<"Transfer", c.lhs.id, c.lhs.account.address, c.rhs.account.address,
                  c.args.amount, c.args.fee, cur.account.nonce>>)

TransferGains(c, cur) == c.chunk = 1 /\ ~IsEmpty(cur.account)

AfterTransfer(c, cur) ==
    IF TransferPays(c, cur) THEN Spend(cur.account, c.args.amount + c.args.fee)
    ELSE [cur.account EXCEPT !.balance = @ + c.args.amount]

CircuitTransfer(c, cur) ==
    [valid |-> TransferPays(c, cur) \/ TransferGains(c, cur),
     data |-> <<"Transfer", c.lhs.id, c.rhs.id, c.args.amount, c.args.fee>>,
     account |-> AfterTransfer(c, cur)]

\* The sender signs a transfer without knowing whether the account exists.
TransferToNewPays(c, cur) ==
    /\ c.chunk = 0
    /\ Pays(c, cur.account, c.args.amount + c.args.fee)
    /\ SignedBy(c, c.lhs.account.key,
                <<"Transfer", c.lhs.id, c.lhs.account.address, c.args.address,
                  c.args.amount, c.args.fee, cur.account.nonce>>)

TransferToNewCreates(c, cur) == c.chunk = 1 /\ IsEmpty(cur.account)

AfterTransferToNew(c, cur) ==
    CASE TransferToNewPays(c, cur) -> Spend(cur.account, c.args.amount + c.args.fee)
      [] TransferToNewCreates(c, cur) ->
           [cur.account EXCEPT !.balance = c.args.amount, !.address = c.args.address]
      [] OTHER -> cur.account

CircuitTransferToNew(c, cur) ==
    [valid |-> TransferToNewPays(c, cur) \/ TransferToNewCreates(c, cur) \/ c.chunk > 1,
     data |-> <<"TransferToNew", c.lhs.id, c.args.amount, c.args.address, c.rhs.id,
                c.args.fee>>,
     account |-> AfterTransferToNew(c, cur)]

ForcedExitPays(c, cur) ==
    /\ c.chunk = 0
    /\ Pays(c, cur.account, c.args.fee)
    /\ SignedBy(c, c.lhs.account.key,
                <<"ForcedExit", c.lhs.id, c.rhs.account.address, c.args.fee,
                  c.lhs.account.nonce>>)

\* The target loses all it has; it must have no key.
ForcedExitLeaves(c, cur) ==
    /\ c.chunk = 1
    /\ ~IsEmpty(cur.account)
    /\ c.rhs.account.key = NoKey
    /\ c.args.full = cur.account.balance
    /\ c.rhs.account.address = c.args.address

AfterForcedExit(c, cur) ==
    CASE ForcedExitPays(c, cur) -> Spend(cur.account, c.args.fee)
      [] ForcedExitLeaves(c, cur) -> [cur.account EXCEPT !.balance = @ - c.args.full]
      [] OTHER -> cur.account

CircuitForcedExit(c, cur) ==
    [valid |-> ForcedExitPays(c, cur) \/ ForcedExitLeaves(c, cur) \/ c.chunk > 1,
     data |-> <<"ForcedExit", c.lhs.id, c.rhs.id, c.args.full, c.args.fee, c.args.address>>,
     account |-> AfterForcedExit(c, cur)]

WithdrawPays(c, cur) ==
    /\ c.chunk = 0
    /\ Pays(c, cur.account, c.args.full + c.args.fee)
    /\ MessageIs(c, <<"Withdraw", cur.id, cur.account.address, c.args.address, c.args.full,
                      c.args.fee, cur.account.nonce>>)

\* The signer's key is compared with the account's in every chunk.
SignerOwns(c, cur) == c.signature.key = cur.account.key

AfterWithdraw(c, cur) ==
    IF WithdrawPays(c, cur) /\ SignerOwns(c, cur)
    THEN Spend(cur.account, c.args.full + c.args.fee) ELSE cur.account

CircuitWithdraw(c, cur) ==
    [valid |-> (WithdrawPays(c, cur) \/ c.chunk > 0) /\ SignerOwns(c, cur),
     data |-> <<"Withdraw", cur.id, c.args.full, c.args.fee, c.args.address>>,
     account |-> AfterWithdraw(c, cur)]

\* The new key signs its own registration.
ChangePubKeyValid(c, cur) ==
    /\ Pays(c, c.lhs.account, c.args.fee)
    /\ c.args.address = cur.account.address
    /\ c.chunk = 0 => SignedBy(c, c.args.key,
                               <<"ChangePubKey", cur.id, c.args.address, c.args.key,
                                 c.args.fee, cur.account.nonce>>)

\* Valid chunks need not change the account: it changes in the first one when
\* the nonce in the public data is the account's.
AfterChangePubKey(c, cur) ==
    IF ChangePubKeyValid(c, cur) /\ c.chunk = 0 /\ c.args.nonce = cur.account.nonce
    THEN [Spend(cur.account, c.args.fee) EXCEPT !.key = c.args.key]
    ELSE cur.account

CircuitChangePubKey(c, cur) ==
    [valid |-> ChangePubKeyValid(c, cur),
     data |-> <<"ChangePubKey", cur.id, c.args.key, c.args.address, c.args.nonce, c.args.fee>>,
     account |-> AfterChangePubKey(c, cur)]

\* Either the account is empty or it has the depositor's address, not both.
CircuitDeposit(c, cur) ==
    LET valid == /\ c.args.fee = 0
                 /\ (c.args.address = cur.account.address) # IsEmpty(cur.account)
                 /\ c.args.full = c.args.a
    IN  [valid |-> valid,
         data |-> <<"Deposit", cur.id, c.args.full, c.args.address>>,
         account |-> IF valid /\ c.chunk = 0
                     THEN [cur.account EXCEPT !.balance = @ + c.args.full,
                                              !.address = c.args.address]
                     ELSE cur.account]

\* An exit takes the whole balance, or nothing when the address is another.
CircuitFullExit(c, cur) ==
    LET owner == c.args.address = cur.account.address
        exits == /\ c.chunk = 0
                 /\ c.args.full = IF owner THEN cur.account.balance ELSE 0
    IN  [valid |-> (exits \/ c.chunk > 0) /\ c.args.fee = 0,
         data |-> <<"FullExit", cur.id, c.args.address, c.args.full>>,
         account |-> IF exits /\ owner THEN [cur.account EXCEPT !.balance = 0] ELSE cur.account]

CircuitNoop(c, cur) ==
    [valid |-> c.args.fee = 0, data |-> <<"Noop">>, account |-> cur.account]

\* execute_op: exactly the operation of the chunk's type can accept it.
Execute(c, cur) ==
    CASE c.type = "Transfer" -> CircuitTransfer(c, cur)
      [] c.type = "TransferToNew" -> CircuitTransferToNew(c, cur)
      [] c.type = "ForcedExit" -> CircuitForcedExit(c, cur)
      [] c.type = "Withdraw" -> CircuitWithdraw(c, cur)
      [] c.type = "ChangePubKey" -> CircuitChangePubKey(c, cur)
      [] c.type = "Deposit" -> CircuitDeposit(c, cur)
      [] c.type = "FullExit" -> CircuitFullExit(c, cur)
      [] c.type = "Noop" -> CircuitNoop(c, cur)

\* select_branch
Selected(c) == IF c.type = "Deposit" \/ c.chunk = 0 THEN c.lhs ELSE c.rhs

\* verify_correct_chunking
InSequence(s, c) == c.chunk = s.next
IsLast(c) == c.chunk + 1 = ChunksOf[c.type]

\* The arguments and the public data of an operation stay the same in all its
\* chunks; the nonce in the public data is not compared by itself.
SameAsBefore(s, c, data) ==
    c.chunk > 0 => [c.args EXCEPT !.nonce = 0] = [s.args EXCEPT !.nonce = 0] /\ data = s.data

\* check_account_data, allocate_merkle_root: the branch is one of the tree's.
InTree(tree, b) ==
    /\ tree[b.id] = b.account
    /\ \A j \in DOMAIN b.siblings : tree[j] = b.siblings[j]

\* select_pubdata_chunk: the chunk's piece of the data that the circuit composed.
RightPiece(c, data) == c.data = Chunked(data)[c.chunk + 1]

\* The fee of an operation counts once, with its last chunk.
FeesAfter(s, c) == IF IsLast(c) THEN s.fees + c.args.fee ELSE s.fees

\* One round of the main cycle of synthesize.
Checked(s, c, cur, r) ==
    [ok |-> /\ s.ok
            /\ InSequence(s, c)
            /\ InTree(s.tree, cur)
            /\ r.valid
            /\ SameAsBefore(s, c, r.data)
            /\ RightPiece(c, r.data),
     tree |-> [s.tree EXCEPT ![cur.id] = r.account],
     next |-> IF IsLast(c) THEN 0 ELSE c.chunk + 1,
     fees |-> FeesAfter(s, c),
     args |-> c.args, data |-> r.data, published |-> Append(s.published, c.data)]

CircuitStep(s, c) == Checked(s, c, Selected(c), Execute(c, Selected(c)))

\* The hash the circuit composes of its roots and the chunks' public data.
FinalHash(before, after, published) == <<FeeAccountId, before, after, published>>

\* The whole circuit: ok when every constraint holds and the public input is this hash.
CircuitEnd(tree, s, commitment) ==
    [ok |-> /\ s.ok
            /\ s.next = 0
            /\ commitment = FinalHash(tree, PayValidator(s.tree, s.fees), s.published),
     tree |-> PayValidator(s.tree, s.fees)]

CircuitRun(tree, chunks, commitment) ==
    CircuitEnd(tree,
               FoldLeft(CircuitStep,
                        [ok |-> TRUE, tree |-> tree, next |-> 0, fees |-> 0,
                         args |-> NoArguments, data |-> <<>>, published |-> <<>>], chunks),
               commitment)
=============================================================================
