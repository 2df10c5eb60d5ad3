----------------------------- MODULE RollupContract -----------------------------
(***************************************************************************)
(* The main contract (contracts/contracts/ZkSync.sol): the queue of        *)
(* priority requests, the committed and verified blocks, the withdrawals   *)
(* and exodus mode.                                                        *)
(*                                                                         *)
(* There is one token, and every address has the account of its name.  The *)
(* root of a block stands for the balances it commits to; a proof exists   *)
(* exactly for the root that the block's operations give (the circuit).    *)
(***************************************************************************)
EXTENDS Integers, Sequences, FiniteSets, SequencesExt, FiniteSetsExt, Functions

CONSTANTS
    Owners,                 \* addresses of users
    PublicDatas,            \* what a validator may commit: sequences of operations
    PriorityExpiration,     \* PRIORITY_EXPIRATION
    ExpectVerificationIn,   \* EXPECT_VERIFICATION_IN
    MaxHeight,              \* bound: the last block of Ethereum
    MaxRequests,            \* bound: priority requests
    MaxCommits              \* bound: calls of commitBlock

\* An operation of a block as the public data tells it. A transfer stands for
\* what neither brings funds nor takes them out.
Operation ==
    [type : {"Deposit", "FullExit", "PartialExit"}, owner : Owners, amount : Nat]
      \cup [type : {"Transfer"}, owner : Owners, amount : {0}]

ASSUME ContractAssumption ==
    /\ PriorityExpiration \in Nat \ {0} /\ ExpectVerificationIn \in Nat
    /\ MaxHeight \in Nat /\ MaxRequests \in Nat /\ MaxCommits \in Nat
    /\ IsFiniteSet(Owners) /\ PublicDatas \subseteq Seq(Operation)

VARIABLES
    height,             \* block.number
    priorityRequests,   \* id -> [type, owner, amount, expirationBlock]
    firstPriorityRequestId, totalOpenPriorityRequests, totalCommittedPriorityRequests,
    blocks,             \* number -> [committedAt, priorityOperations, withdrawals, root, ops]
    totalBlocksCommitted, totalBlocksVerified,
    pendingWithdrawals, \* index -> owner
    firstPendingWithdrawalIndex, numberOfPendingWithdrawals,
    balancesToWithdraw, \* owner -> amount
    exodusMode, exited, \* exited: the owners that have left
    vault,              \* the ether of the contract
    commits,            \* how often commitBlock succeeded
    requested,          \* history: all requests made, in their order
    processed           \* history: the priority operations of verified blocks

queue == <<priorityRequests, firstPriorityRequestId, totalOpenPriorityRequests>>
withdrawal == <<pendingWithdrawals, firstPendingWithdrawalIndex, numberOfPendingWithdrawals,
                balancesToWithdraw, vault>>
rollup == <<blocks, totalBlocksCommitted, totalBlocksVerified, totalCommittedPriorityRequests,
            commits, processed>>
exodus == <<exodusMode, exited>>
vars == <<height, queue, rollup, withdrawal, exodus, requested>>

MinOf(a, b) == IF a < b THEN a ELSE b

TotalOf(f) == SumFunction(f)

\* A mapping of the storage with one more entry, or with a new value for one.
Put(f, x, value) == [y \in DOMAIN f \cup {x} |-> IF y = x THEN value ELSE f[y]]

\* The elements of a sequence that are in K, in their order.
Selected(s, K) == FoldLeft(LAMBDA kept, x : IF x \in K THEN Append(kept, x) ELSE kept, <<>>, s)

-----------------------------------------------------------------------------
(* The balances of layer 2 and the proof of a block *)

\* The circuit: an exit may take what the account has, a full exit takes all.
Possible(l2, op) ==
    CASE op.type = "PartialExit" -> op.amount <= l2[op.owner]
      [] op.type = "FullExit" -> op.amount = l2[op.owner]
      [] OTHER -> TRUE

Apply(l2, op) ==
    [l2 EXCEPT ![op.owner] = IF op.type = "Deposit" THEN @ + op.amount ELSE @ - op.amount]

Provable(l2, ops, root) ==
    LET At(n) == FoldLeft(Apply, l2, SubSeq(ops, 1, n))
    IN  (\A n \in DOMAIN ops : Possible(At(n - 1), ops[n])) /\ root = At(Len(ops))

VerifiedRoot == blocks[totalBlocksVerified].root

-----------------------------------------------------------------------------
(* Requests of users *)

OpenRequest(request) ==
    [type |-> request.type, owner |-> request.owner, amount |-> request.amount,
     expirationBlock |-> height + PriorityExpiration]

\* Mutant: the id counts from the requests that are committed.
AddPriorityRequestAfterCommitted(request) ==
    /\ priorityRequests' =
          Put(priorityRequests, firstPriorityRequestId + totalCommittedPriorityRequests,
              OpenRequest(request))
    /\ totalOpenPriorityRequests' = totalOpenPriorityRequests + 1
    /\ UNCHANGED firstPriorityRequestId

AddPriorityRequest(request) ==
    /\ priorityRequests' =
          Put(priorityRequests, firstPriorityRequestId + totalOpenPriorityRequests,
              OpenRequest(request))
    /\ totalOpenPriorityRequests' = totalOpenPriorityRequests + 1
    /\ UNCHANGED firstPriorityRequestId

\* MaxHeight leaves every request the time to expire.
Request(request) ==
    /\ ~exodusMode
    /\ Len(requested) < MaxRequests /\ height + PriorityExpiration <= MaxHeight
    /\ AddPriorityRequest(request)
    /\ requested' = Append(requested, request)

RegisterDeposit(owner, amount) == Request([type |-> "Deposit", owner |-> owner, amount |-> amount])

DepositETH(owner) ==
    /\ RegisterDeposit(owner, 1)
    /\ vault' = vault + 1
    /\ UNCHANGED <<height, rollup, exodus, pendingWithdrawals, firstPendingWithdrawalIndex,
                   numberOfPendingWithdrawals, balancesToWithdraw>>

\* The amount of a full exit is not known when it is requested.
FullExit(owner) ==
    /\ Request([type |-> "FullExit", owner |-> owner, amount |-> 0])
    /\ UNCHANGED <<height, rollup, withdrawal, exodus>>

-----------------------------------------------------------------------------
(* Blocks *)

IsPriority(op) == op.type \in {"Deposit", "FullExit"}

PriorityOps(ops) == Selected(ops, {op \in Range(ops) : IsPriority(op)})

\* depositPubdataMatch, fullExitPubdataMatch: the amount of an exit is ignored.
Matches(request, op) ==
    /\ request.type = op.type /\ request.owner = op.owner
    /\ op.type = "Deposit" => request.amount = op.amount

\* Mutant: the operations need not be those of the queue.
CollectedByNumber(ops) ==
    LET current == firstPriorityRequestId + totalCommittedPriorityRequests
    IN  current + Len(PriorityOps(ops)) <= firstPriorityRequestId + totalOpenPriorityRequests

\* collectOnchainOps: the priority operations are the next ones of the queue.
Collected(ops) ==
    LET current == firstPriorityRequestId + totalCommittedPriorityRequests
        taken == PriorityOps(ops)
    IN  /\ \A n \in DOMAIN taken :
              /\ current + n - 1 \in DOMAIN priorityRequests
              /\ Matches(priorityRequests[current + n - 1], taken[n])
        /\ current + Len(taken) <= firstPriorityRequestId + totalOpenPriorityRequests

\* withdrawalsDataHash stands for what it is the hash of.
WithdrawalsData(ops) ==
    LET exits == Selected(ops, {op \in Range(ops) : op.type \in {"PartialExit", "FullExit"}})
    IN  [n \in DOMAIN exits |-> [owner |-> exits[n].owner, amount |-> exits[n].amount,
                                 addToQueue |-> exits[n].type = "PartialExit"]]

\* createCommittedBlock: the operations stand for the commitment.
CommittedBlock(ops, root) ==
    [committedAt |-> height, priorityOperations |-> Len(PriorityOps(ops)),
     withdrawals |-> WithdrawalsData(ops), root |-> root, ops |-> ops]

\* commitBlock: the root is whatever the validator says.
CommitBlock(ops, root) ==
    /\ ~exodusMode
    /\ commits < MaxCommits
    /\ Collected(ops)
    /\ blocks' = Put(blocks, totalBlocksCommitted + 1, CommittedBlock(ops, root))
    /\ totalBlocksCommitted' = totalBlocksCommitted + 1
    /\ totalCommittedPriorityRequests' =
          totalCommittedPriorityRequests + Len(PriorityOps(ops))
    /\ commits' = commits + 1
    /\ UNCHANGED <<height, queue, totalBlocksVerified, processed, withdrawal, exodus, requested>>

\* storeBalanceToWithdraw
StoreBalance(balances, w) == [balances EXCEPT ![w.owner] = @ + w.amount]

Queued(data) == Selected(data, {w \in Range(data) : w.addToQueue})

\* The pending withdrawals with these ones from an index on.
WithQueue(next, queued) ==
    [n \in DOMAIN pendingWithdrawals \cup (next .. next + Len(queued) - 1) |->
        IF n >= next /\ n < next + Len(queued) THEN queued[n - next + 1].owner
        ELSE pendingWithdrawals[n]]

\* Mutant: the entries start where the queue does.
ProcessOnchainWithdrawalsAtFirst(data) ==
    LET queued == Queued(data)
    IN  /\ balancesToWithdraw' = FoldLeft(StoreBalance, balancesToWithdraw, data)
        /\ pendingWithdrawals' = WithQueue(firstPendingWithdrawalIndex, queued)
        /\ numberOfPendingWithdrawals' = numberOfPendingWithdrawals + Len(queued)

ProcessOnchainWithdrawals(data) ==
    LET queued == Queued(data)
        next == firstPendingWithdrawalIndex + numberOfPendingWithdrawals
    IN  /\ balancesToWithdraw' = FoldLeft(StoreBalance, balancesToWithdraw, data)
        /\ pendingWithdrawals' = WithQueue(next, queued)
        /\ numberOfPendingWithdrawals' = numberOfPendingWithdrawals + Len(queued)

\* deleteRequests; the contract clears at most six entries of the mapping, and those
\* it leaves lie below firstPriorityRequestId.
DeleteRequests(number) ==
    /\ number <= totalOpenPriorityRequests
    /\ priorityRequests' = Restrict(priorityRequests,
            {id \in DOMAIN priorityRequests : id >= firstPriorityRequestId + number})
    /\ firstPriorityRequestId' = firstPriorityRequestId + number
    /\ totalOpenPriorityRequests' = totalOpenPriorityRequests - number

\* verifyBlockProof
BlockProof(number) ==
    Provable(blocks[number - 1].root, blocks[number].ops, blocks[number].root)

VerifyBlock ==
    LET number == totalBlocksVerified + 1
    IN  /\ ~exodusMode
        /\ number <= totalBlocksCommitted
        /\ BlockProof(number)
        /\ ProcessOnchainWithdrawals(blocks[number].withdrawals)
        /\ DeleteRequests(blocks[number].priorityOperations)
        /\ totalCommittedPriorityRequests' =
              totalCommittedPriorityRequests - blocks[number].priorityOperations
        /\ totalBlocksVerified' = number
        /\ processed' = processed \o PriorityOps(blocks[number].ops)
    /\ UNCHANGED <<height, blocks, totalBlocksCommitted, commits, firstPendingWithdrawalIndex,
                   vault, exodus, requested>>

\* Mutant: the requests of the reverted blocks stay committed.
RequestsFreedNone(numbers) == 0

RequestsFreed(numbers) == TotalOf([n \in numbers |-> blocks[n].priorityOperations])

\* isBlockCommitmentExpired
CommitmentExpired ==
    /\ totalBlocksCommitted > totalBlocksVerified
    /\ height > blocks[totalBlocksVerified + 1].committedAt + ExpectVerificationIn

\* The latest blocks are dropped, also in exodus mode.
RevertBlocks(max) ==
    /\ CommitmentExpired
    /\ LET number == MinOf(max, totalBlocksCommitted - totalBlocksVerified)
           reverted == totalBlocksCommitted - number + 1 .. totalBlocksCommitted
       IN  /\ blocks' = Restrict(blocks, DOMAIN blocks \ reverted)
           /\ totalBlocksCommitted' = totalBlocksCommitted - number
           /\ totalCommittedPriorityRequests' =
                 totalCommittedPriorityRequests - RequestsFreed(reverted)
    /\ UNCHANGED <<height, queue, totalBlocksVerified, commits, processed, withdrawal, exodus,
                   requested>>

-----------------------------------------------------------------------------
(* Withdrawals *)

\* The amount that stays when the transfer has failed.
Unsent(owner, sent, amount) == IF owner \in sent THEN 0 ELSE amount

\* completeWithdrawals: `sent' are the owners whose address takes the ether.
CompleteWithdrawals(n, sent) ==
    LET number == MinOf(n, numberOfPendingWithdrawals)
        indices == firstPendingWithdrawalIndex .. firstPendingWithdrawalIndex + number - 1
        paid == {pendingWithdrawals[i] : i \in indices}
        left == [o \in Owners |-> IF o \in paid THEN Unsent(o, sent, balancesToWithdraw[o])
                                  ELSE balancesToWithdraw[o]]
    IN  /\ number > 0
        /\ firstPendingWithdrawalIndex' = firstPendingWithdrawalIndex + number
        /\ numberOfPendingWithdrawals' = numberOfPendingWithdrawals - number
        /\ pendingWithdrawals' =
              Restrict(pendingWithdrawals, DOMAIN pendingWithdrawals \ indices)
        /\ balancesToWithdraw' = left
        /\ vault' = vault - TotalOf([o \in paid \cap sent |-> balancesToWithdraw[o]])
        /\ UNCHANGED <<height, queue, rollup, exodus, requested>>

RegisterWithdrawal(owner, amount) ==
    balancesToWithdraw' = [balancesToWithdraw EXCEPT ![owner] = @ - amount]

WithdrawETH(owner) ==
    /\ balancesToWithdraw[owner] > 0
    /\ \E amount \in 1 .. balancesToWithdraw[owner] :
          /\ RegisterWithdrawal(owner, amount)
          /\ vault' = vault - amount
    /\ UNCHANGED <<height, queue, rollup, exodus, requested, pendingWithdrawals,
                   firstPendingWithdrawalIndex, numberOfPendingWithdrawals>>

-----------------------------------------------------------------------------
(* Exodus mode *)

\* Mutant: a request counts as answered once it is committed.
OldestUncommitted == firstPriorityRequestId + totalCommittedPriorityRequests

OldestRequest == firstPriorityRequestId

TriggerExodusIfNeeded ==
    /\ ~exodusMode
    /\ OldestRequest \in DOMAIN priorityRequests
    /\ height >= priorityRequests[OldestRequest].expirationBlock
    /\ exodusMode' = TRUE
    /\ UNCHANGED <<height, queue, rollup, withdrawal, exited, requested>>

\* Mutant: only what no block has committed is given back.
RefundedUncommitted(ids) ==
    [o \in Owners |-> Cardinality(
        {id \in ids : /\ id >= firstPriorityRequestId + totalCommittedPriorityRequests
                      /\ priorityRequests[id].type = "Deposit"
                      /\ priorityRequests[id].owner = o})]

\* The deposits among the requests with these ids (of one unit each).
Refunded(ids) ==
    [o \in Owners |-> Cardinality(
        {id \in ids : priorityRequests[id].type = "Deposit" /\ priorityRequests[id].owner = o})]

CancelOutstandingDeposits(n) ==
    LET number == MinOf(n, totalOpenPriorityRequests)
        refunded == Refunded(firstPriorityRequestId .. firstPriorityRequestId + number - 1)
    IN  /\ exodusMode
        /\ number > 0
        /\ balancesToWithdraw' = [o \in Owners |-> balancesToWithdraw[o] + refunded[o]]
        /\ DeleteRequests(number)
        /\ UNCHANGED <<height, rollup, exodus, requested, pendingWithdrawals, vault,
                       firstPendingWithdrawalIndex, numberOfPendingWithdrawals>>

\* The proof is of the whole balance under the last verified root.
Exit(owner) ==
    /\ exodusMode
    /\ owner \notin exited
    /\ balancesToWithdraw' = [balancesToWithdraw EXCEPT ![owner] = @ + VerifiedRoot[owner]]
    /\ exited' = exited \cup {owner}
    /\ UNCHANGED <<height, queue, rollup, exodusMode, requested, pendingWithdrawals, vault,
                   firstPendingWithdrawalIndex, numberOfPendingWithdrawals>>

-----------------------------------------------------------------------------
NoFunds == [o \in Owners |-> 0]

Init ==
    /\ height = 1
    /\ priorityRequests = <<>> /\ requested = <<>> /\ processed = <<>>
    /\ firstPriorityRequestId = 0 /\ totalOpenPriorityRequests = 0
    /\ totalCommittedPriorityRequests = 0
    /\ blocks = [n \in {0} |-> [committedAt |-> 0, priorityOperations |-> 0,
                                withdrawals |-> <<>>, root |-> NoFunds, ops |-> <<>>]]
    /\ totalBlocksCommitted = 0 /\ totalBlocksVerified = 0 /\ commits = 0
    /\ pendingWithdrawals = <<>>
    /\ firstPendingWithdrawalIndex = 0 /\ numberOfPendingWithdrawals = 0
    /\ balancesToWithdraw = NoFunds /\ vault = 0
    /\ exodusMode = FALSE /\ exited = {}

\* Time passes on Ethereum.
Mine ==
    /\ height < MaxHeight
    /\ height' = height + 1
    /\ UNCHANGED <<queue, rollup, withdrawal, exodus, requested>>

\* A validator may say the right root or that nothing has changed.
Validator ==
    \/ \E ops \in PublicDatas :
          LET old == blocks[totalBlocksCommitted].root
          IN  \E root \in {old, FoldLeft(Apply, old, ops)} : CommitBlock(ops, root)
    \/ VerifyBlock
    \/ \E max \in 1 .. MaxCommits : RevertBlocks(max)

Users ==
    \/ \E owner \in Owners :
          DepositETH(owner) \/ FullExit(owner) \/ WithdrawETH(owner) \/ Exit(owner)
    \/ \E sent \in SUBSET Owners, n \in {1, MaxRequests} : CompleteWithdrawals(n, sent)

Cancel == \E n \in {1, MaxRequests} : CancelOutstandingDeposits(n)

Next == Mine \/ Validator \/ Users \/ TriggerExodusIfNeeded \/ Cancel

Spec == Init /\ [][Next]_vars

\* Blocks are mined, and the users call what anybody may call. Nothing is
\* assumed of the validators.
FairSpec ==
    Spec /\ WF_vars(Mine) /\ WF_vars(TriggerExodusIfNeeded) /\ WF_vars(Cancel)

-----------------------------------------------------------------------------
(* Properties *)

\* The counters and amounts never pass below zero: the subtractions of the
\* contract are of unsigned numbers.
TypeOK ==
    /\ {height, totalOpenPriorityRequests, totalCommittedPriorityRequests,
        firstPriorityRequestId, numberOfPendingWithdrawals, vault} \subseteq Nat
    /\ totalBlocksVerified \in 0 .. totalBlocksCommitted
    /\ DOMAIN blocks = 0 .. totalBlocksCommitted
    /\ DOMAIN priorityRequests =
          firstPriorityRequestId .. firstPriorityRequestId + totalOpenPriorityRequests - 1
    /\ balancesToWithdraw \in [Owners -> Nat]
    /\ \A n \in 0 .. totalBlocksVerified : blocks[n].root \in [Owners -> Nat]
    /\ exodusMode \in BOOLEAN /\ exited \subseteq Owners

OpenDeposits ==
    Cardinality({id \in DOMAIN priorityRequests : priorityRequests[id].type = "Deposit"})

\* The contract holds exactly what it owes: balances to withdraw, deposits that
\* no verified block has taken, and the balances of the last verified block of
\* those who have not left (through commits with wrong roots, reverts, failed
\* transfers, full exits and exodus mode).
FundsCovered ==
    vault = TotalOf(balancesToWithdraw) + OpenDeposits
              + TotalOf([o \in Owners \ exited |-> VerifiedRoot[o]])

\* The blocks that are committed and not verified hold the first of the open
\* requests, in the order of the queue, however blocks are reverted in between:
\* so verifyBlock never fails in deleteRequests.
CommittedRequestsLead ==
    ~exodusMode =>
        LET ops == FlattenSeq([n \in 1 .. totalBlocksCommitted - totalBlocksVerified |->
                                 PriorityOps(blocks[totalBlocksVerified + n].ops)])
        IN  /\ totalCommittedPriorityRequests = Len(ops)
            /\ Len(ops) <= totalOpenPriorityRequests
            /\ \A n \in DOMAIN ops :
                  LET r == requested[firstPriorityRequestId + n]
                  IN  r.type = ops[n].type /\ r.owner = ops[n].owner

\* Each request is executed once, in the order of its serial id, or given back.
RequestsInOrder ==
    /\ Len(processed) <= firstPriorityRequestId
    /\ ~exodusMode => Len(processed) = firstPriorityRequestId
    /\ \A n \in DOMAIN processed :
          requested[n].type = processed[n].type /\ requested[n].owner = processed[n].owner

\* The priority queue follows the blocks through commits, verifications and
\* reverts (collectOnchainOps, deleteRequests, revertBlocks).
QueueFollowsBlocks == CommittedRequestsLead /\ RequestsInOrder

\* The indices that PendingWithdrawalsComplete tells of (from which the server
\* finds the transaction of a withdrawal) are entries of the queue, each made once.
PendingQueueDense ==
    DOMAIN pendingWithdrawals =
        firstPendingWithdrawalIndex
          .. firstPendingWithdrawalIndex + numberOfPendingWithdrawals - 1

\* Deposits, balances, the queue of withdrawals and the vault stay in step
\* (storeBalanceToWithdraw, completeWithdrawals, withdrawETH).
FundsFollow == TypeOK /\ FundsCovered /\ PendingQueueDense

\* A validator that does nothing, or commits what cannot be proved, does not
\* hold anybody's deposit: every request is processed or cancelled in the end.
RequestsAnswered == []<>(totalOpenPriorityRequests = 0)
=============================================================================
