------------------------------ MODULE Agreement ------------------------------
(***************************************************************************)
(* Four programs execute the operations of a block: the state library in   *)
(* the server (Ledger), the witness generator and the block circuit        *)
(* (Circuit), and the data restore (PublicData).  From every account tree  *)
(* that ZkSyncState reaches, a block is executed by all four: they must    *)
(* agree, or a block that the server has sealed can never be proved, or    *)
(* never be restored.                                                      *)
(***************************************************************************)
EXTENDS ZkSyncState, Circuit

CONSTANT Blocks     \* sequences of transactions and priority operations

IsPriority(request) == request.kind \in {"Deposit", "FullExit"}

\* What the server puts into a block: the requests that succeed, with their
\* operations, and the fees at the end.
Executed(l, request) ==
    IF IsPriority(request) THEN ExecutePriorityOp(l, request) ELSE ExecuteTx(l, request)

Include(acc, request, r) ==
    IF ~r.ok THEN acc
    ELSE [ledger |-> r.ledger, updates |-> acc.updates \o r.updates,
          fees |-> Append(acc.fees, r.fee),
          executed |-> Append(acc.executed, [o |-> CreateOp(acc.ledger, request), tx |-> request])]

ExecutedAll(l, requests) ==
    FoldLeft(LAMBDA acc, request : Include(acc, request, Executed(acc.ledger, request)),
             [ledger |-> l, updates |-> <<>>, fees |-> <<>>, executed |-> <<>>], requests)

OpsOf(run) == [k \in DOMAIN run.executed |-> run.executed[k].o]

\* One chunk more than needed, so that every block ends with a noop.
SizeFor(ops) == 1 + Total([k \in DOMAIN ops |-> ChunksOf[ops[k].op]])

Closed(run, collected) ==
    [ledger |-> collected.ledger, updates |-> run.updates \o collected.updates,
     executed |-> run.executed, ops |-> OpsOf(run), size |-> SizeFor(OpsOf(run))]

SealedRun(run) == Closed(run, CollectFees(run.ledger, run.fees))
Sealed(l, requests) == SealedRun(ExecutedAll(l, requests))

Witness(b) == BlockWitness(Tree(accounts), b.executed, b.size)

\* createBlockCommitment: what the contract asks the verifier about, from the public
\* data and the root that the server sends it.
BlockCommitment(b) == <<FeeAccountId, Tree(accounts), Tree(b.ledger), PublicData(b.ops, b.size)>>

\* The witness generator compares the root hash of its own tree with the one
\* the server stored ("assert_eq!(... block.new_root_hash", witness/utils.rs:736),
\* and asks to prove the commitment that the contract makes of the server's block.
WitnessFollows(b, w) == w.tree = Tree(b.ledger) /\ w.commitment = BlockCommitment(b)

\* Whatever the server executes, the circuit accepts: every constraint holds on
\* the chunks of the witness, and the root it proves is the server's.
CircuitAccepts(b, proved) == proved.ok /\ proved.tree = Tree(b.ledger)

\* Whatever the server seals can be proved: witness generator and circuit follow.
ProverAgrees ==
    \A requests \in Blocks : \A b \in {Sealed(accounts, requests)} :
       /\ WitnessFollows(b, Witness(b))
       /\ CircuitAccepts(b, CircuitRun(Tree(accounts), Witness(b).chunks, Witness(b).commitment))

\* The data restore, which reads only the public data, reaches the same accounts
\* and reports the same updates, so it stores what the server stored.
RestoreFollows(b, replayed) ==
    replayed.ok /\ replayed.ledger = b.ledger /\ replayed.updates = b.updates

ReplayAgrees ==
    \A requests \in Blocks : \A b \in {Sealed(accounts, requests)} :
       RestoreFollows(b, Replay(accounts, OpsFromData(PublicData(b.ops, b.size))))
=============================================================================
