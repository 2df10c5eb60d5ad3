------------------------------- MODULE TxQueue -------------------------------
(***************************************************************************)
(* The queue of the Ethereum sender (zksync_eth_sender/src/tx_queue):      *)
(* which operation is sent next.  Commits and withdrawals wait in queues   *)
(* that count what was taken out, verifications in a sparse queue that     *)
(* yields them in the order of their blocks.                               *)
(***************************************************************************)
EXTENDS Naturals, Sequences, SequencesExt

CONSTANTS
    MaxInFlight         \* max_pending_txs: operations sent and not confirmed

Op(type, block) == [type |-> type, block |-> block]

\* completeWithdrawals names no block.
WithdrawOp == Op("Withdraw", 0)

\* Mutant: with_sent_pending_txs is forgotten.
NewQueueAllSlotsFree(inFlight, stats) ==
    [commits |-> <<>>, commitCount |-> stats.commit,
     verifies |-> {}, verifyNext |-> stats.verify + 1,
     withdraws |-> 0, withdrawCount |-> stats.withdraw,
     pending |-> 0]

\* The elements of a finite set of numbers, the smallest first.
Ascending(S) ==
    CHOOSE s \in [1..Cardinality(S) -> S] : \A i, j \in DOMAIN s : i < j => s[i] < s[j]

\* TxQueueBuilder::build: an empty queue after so many operations of each type,
\* of which inFlight are sent and not confirmed.
NewQueue(inFlight, stats) ==
    [commits |-> <<>>, commitCount |-> stats.commit,
     verifies |-> {}, verifyNext |-> stats.verify + 1,
     withdraws |-> 0, withdrawCount |-> stats.withdraw,
     pending |-> inFlight]

\* add_commit_operation, in the order of the blocks, unless commit_operation_exists
AddCommits(q, blocks) ==
    [q EXCEPT !.commits = @ \o Ascending(blocks \ Range(@))]

\* add_verify_operation
AddVerifies(q, blocks) == [q EXCEPT !.verifies = @ \cup blocks]

\* add_operation_to_queue for the commits and verifications of these blocks
AddOperations(q, commits, verifies) == AddVerifies(AddCommits(q, commits), verifies)

\* SparseQueue::insert asserts that the block was not taken out yet.
AddPanics(q, verifies) == \E b \in verifies \ q.verifies : b < q.verifyNext

AddWithdraw(q) == [q EXCEPT !.withdraws = @ + 1]

VerifyReady(q) == q.verifyNext < q.commitCount + 1 /\ q.verifyNext \in q.verifies

WithdrawReady(q) == q.withdrawCount + 1 < q.verifyNext /\ q.withdraws > 0

\* Mutant: the commit of the block is not waited for.
NextAnyVerify(q) ==
    IF q.pending >= MaxInFlight THEN {}
    ELSE IF q.verifyNext \in q.verifies THEN {Op("Verify", q.verifyNext)}
    ELSE IF WithdrawReady(q) THEN {WithdrawOp}
    ELSE IF q.commits # <<>> THEN {Op("Commit", Head(q.commits))}
    ELSE {}

\* Mutant: one operation more than the limit.
NextPastLimit(q) ==
    IF q.pending > MaxInFlight THEN {}
    ELSE IF VerifyReady(q) THEN {Op("Verify", q.verifyNext)}
    ELSE IF WithdrawReady(q) THEN {WithdrawOp}
    ELSE IF q.commits # <<>> THEN {Op("Commit", Head(q.commits))}
    ELSE {}

\* pop_front and get_next_operation: the operation to send, as a set of at most
\* one.  Verifications come first, then withdrawals, then commits.
NextOperation(q) ==
    IF q.pending >= MaxInFlight THEN {}
    ELSE IF VerifyReady(q) THEN {Op("Verify", q.verifyNext)}
    ELSE IF WithdrawReady(q) THEN {WithdrawOp}
    ELSE IF q.commits # <<>> THEN {Op("Commit", Head(q.commits))}
    ELSE {}

Popped(q, op) ==
    CASE op.type = "Commit" ->
           [q EXCEPT !.commits = Tail(@), !.commitCount = @ + 1, !.pending = @ + 1]
      [] op.type = "Verify" ->
           [q EXCEPT !.verifies = @ \ {op.block}, !.verifyNext = @ + 1, !.pending = @ + 1]
      [] op.type = "Withdraw" ->
           [q EXCEPT !.withdraws = @ - 1, !.withdrawCount = @ + 1, !.pending = @ + 1]

\* Mutants: a commit is returned to the back of its queue; it is still counted.
ReturnedToBack(q, op) ==
    CASE op.type = "Commit" ->
           [q EXCEPT !.commits = Append(@, op.block), !.commitCount = @ - 1, !.pending = @ - 1]
      [] op.type = "Verify" ->
           [q EXCEPT !.verifies = @ \cup {q.verifyNext - 1}, !.verifyNext = @ - 1, !.pending = @ - 1]
      [] op.type = "Withdraw" ->
           [q EXCEPT !.withdraws = @ + 1, !.withdrawCount = @ - 1, !.pending = @ - 1]

ReturnedStillCounted(q, op) ==
    CASE op.type = "Commit" ->
           [q EXCEPT !.commits = <<op.block>> \o @, !.pending = @ - 1]
      [] op.type = "Verify" ->
           [q EXCEPT !.verifies = @ \cup {q.verifyNext - 1}, !.verifyNext = @ - 1, !.pending = @ - 1]
      [] op.type = "Withdraw" ->
           [q EXCEPT !.withdraws = @ + 1, !.withdrawCount = @ - 1, !.pending = @ - 1]

\* return_popped
Returned(q, op) ==
    CASE op.type = "Commit" ->
           [q EXCEPT !.commits = <<op.block>> \o @, !.commitCount = @ - 1, !.pending = @ - 1]
      [] op.type = "Verify" ->
           [q EXCEPT !.verifies = @ \cup {q.verifyNext - 1}, !.verifyNext = @ - 1, !.pending = @ - 1]
      [] op.type = "Withdraw" ->
           [q EXCEPT !.withdraws = @ + 1, !.withdrawCount = @ - 1, !.pending = @ - 1]

\* report_commitment
Reported(q) == [q EXCEPT !.pending = @ - 1]
=============================================================================
