-------------------------------- MODULE EthWatch --------------------------------
(***************************************************************************)
(* The Ethereum watcher (core/bin/zksync_core/src/eth_watch): it reads the *)
(* events of the contract from a chain whose last blocks may be replaced,  *)
(* keeps the confirmed priority operations for the block proposer and      *)
(* stores the completed withdrawals.                                       *)
(*                                                                         *)
(* A block of Ethereum holds at most one event that matters: a request or  *)
(* the completion of a withdrawal, with the transaction that made it.      *)
(***************************************************************************)
EXTENDS Integers, Sequences, FiniteSets, SequencesExt, FiniteSetsExt, Functions

CONSTANTS
    Confirmations,      \* number_of_confirmations_for_event
    Expiration,         \* PRIORITY_EXPIRATION, in blocks
    MaxRequested,       \* operations one GetPriorityQueueOps has chunks for
    Txs,                \* transactions of Ethereum
    MaxBlock,           \* bound: height of the chain
    MaxEvents,          \* bound: events on the chain
    MaxReorgs,          \* bound: reorganisations
    MaxErrors,          \* bound: failed queries
    MaxRestarts         \* bound: restarts of the process

ASSUME EthWatchAssumption ==
    /\ Confirmations \in Nat /\ Expiration \in Nat \ {0}
    /\ MaxRequested \in Nat \ {0} /\ MaxBlock \in Nat \ {0} /\ MaxEvents \in Nat

VARIABLES
    chain,          \* the canonical chain: sequence of [event, tx]
    \* the watcher
    task,           \* "down", "restore", "idle" or "poll"
    step,           \* what the task asks the node for next
    target,         \* the block number the task has read
    gathered,       \* what the task has got so far: [unconfirmed, queue]
    last,           \* last_ethereum_block
    unconfirmed,    \* unconfirmed_queue
    queue,          \* priority_queue: serial id -> [tx, block, outdated]
    mode,           \* "Working" or "Backoff"
    completed,      \* complete_withdrawals_transactions: tx -> index in the queue
    \* the block proposer and history
    served,         \* the priority operations taken so far, by serial id
    started,        \* the block the watcher has last been restored at
    reorgs, errors, restarts

task_vars == <<task, step, target, gathered>>
state == <<last, unconfirmed, queue>>
bounds == <<reorgs, errors, restarts>>
vars == <<chain, task_vars, state, mode, completed, served, started, bounds>>

-----------------------------------------------------------------------------
(* The events of the contract *)

BlocksWith(event) == {b \in DOMAIN chain : chain[b].event = event}

Event(event, b) ==
    [id |-> Cardinality({a \in BlocksWith(event) : a < b}), tx |-> chain[b].tx, block |-> b]

\* web3.eth().logs: the events of the blocks `from' to `to', with their serial ids.
Logs(event, from, to) == {Event(event, b) : b \in BlocksWith(event) \cap (from .. to)}

Height == Len(chain)

SaturatingSub(a, b) == IF b > a THEN 0 ELSE a - b

\* The contract goes to exodus mode when the oldest open request has expired.
Expired ==
    \E e \in Logs("request", 1, Height) : e.id = Len(served) /\ e.block + Expiration <= Height

Empty == [event |-> "none", tx |-> "none"]

Busy == {b \in DOMAIN chain : chain[b] # Empty}

Fresh == Txs \ {chain[b].tx : b \in Busy}

\* A transaction whose event a reorganisation has dropped comes again.
Mine ==
    /\ Height < MaxBlock
    /\ ~Expired
    /\ \/ chain' = Append(chain, Empty)
       \/ /\ Cardinality(Busy) < MaxEvents /\ Fresh # {}
          /\ \E event \in {"request", "completion"} :
                chain' = Append(chain, [event |-> event, tx |-> CHOOSE tx \in Fresh : TRUE])
    /\ UNCHANGED <<task_vars, state, mode, completed, served, started, bounds>>

\* The last Confirmations blocks, or fewer, are replaced by as many others: the
\* last event is gone, comes from another transaction, or comes a block later.
Reorg ==
    /\ reorgs < MaxReorgs
    /\ Busy # {}
    /\ LET b == Max(Busy) IN
          /\ b > Height - Confirmations
          /\ \/ chain' = [chain EXCEPT ![b] = Empty]
             \/ \E tx \in Fresh : chain' = [chain EXCEPT ![b].tx = tx]
             \/ b < Height /\ chain' = [chain EXCEPT ![b] = Empty, ![b + 1] = chain[b]]
    /\ reorgs' = reorgs + 1
    /\ UNCHANGED <<task_vars, state, mode, completed, served, started, errors, restarts>>

-----------------------------------------------------------------------------
(* The queries *)

\* Mutant: the last accepted block is asked for again.
UnconfirmedOpsFromAccepted(block) ==
    Logs("request", SaturatingSub(block, Confirmations), Height)

\* get_unconfirmed_ops: up to the latest block of the moment.
UnconfirmedOps(block) == Logs("request", SaturatingSub(block, Confirmations) + 1, Height)

\* Mutant: a poll starts one block too late.
AcceptedFromNext ==
    IF task = "restore"
    THEN SaturatingSub(SaturatingSub(target, 2 * Confirmations), Expiration)
    ELSE SaturatingSub(last + 2, Confirmations)

\* The block from which new events are accepted ...
AcceptedFrom ==
    IF task = "restore"
    THEN SaturatingSub(SaturatingSub(target, 2 * Confirmations), Expiration)
    ELSE SaturatingSub(last + 1, Confirmations)

\* Mutant: events are accepted without confirmations.
AcceptedToHead == IF task = "restore" THEN SaturatingSub(target, 2 * Confirmations) ELSE target

\* ... and the last one. A restart subtracts the confirmations twice.
AcceptedTo ==
    SaturatingSub(target, IF task = "restore" THEN 2 * Confirmations ELSE Confirmations)

\* What a failed query leaves: a restart panics, a poll is given up as it was.
\* Mutant: the number of the block stays.
FailAfterNumber ==
    /\ task' = (IF task = "restore" THEN "down" ELSE "idle")
    /\ last' = target
    /\ UNCHANGED <<unconfirmed, queue>>

Fail ==
    /\ task' = (IF task = "restore" THEN "down" ELSE "idle")
    /\ UNCHANGED state

QueryFails ==
    /\ task \in {"restore", "poll"}
    /\ errors < MaxErrors
    /\ errors' = errors + 1
    /\ Fail
    /\ mode' \in IF task = "poll" THEN {"Working", "Backoff"} ELSE {mode}
    /\ step' = "none" /\ target' = 0 /\ gathered' = [unconfirmed |-> {}, queue |-> <<>>]
    /\ UNCHANGED <<chain, completed, served, started, reorgs, restarts>>

-----------------------------------------------------------------------------
(* Restoring and polling *)

Begin(name, first) ==
    /\ task' = name /\ step' = first /\ target' = Height
    /\ gathered' = [unconfirmed |-> {}, queue |-> <<>>]

\* The block number is asked for until it is answered.
Restore ==
    /\ task = "down"
    /\ Begin("restore", "unconfirmed")
    /\ UNCHANGED <<chain, state, mode, completed, served, started, bounds>>

\* PollETHNode; Backoff ends when its delay has passed.
Poll ==
    /\ task = "idle"
    /\ mode' = "Working"
    /\ \/ /\ Height > last
          /\ Begin("poll", "withdrawals")
       \/ /\ Height <= last /\ mode = "Backoff"
          /\ UNCHANGED task_vars
    /\ UNCHANGED <<chain, state, completed, served, started, bounds>>

\* The state is replaced as a whole when all the queries have been answered.
SetNewState ==
    /\ task' = "idle" /\ step' = "none" /\ target' = 0
    /\ gathered' = [unconfirmed |-> {}, queue |-> <<>>]
    /\ last' = target
    /\ started' = IF task = "restore" THEN target ELSE started

RestoreUnconfirmed ==
    /\ task = "restore" /\ step = "unconfirmed"
    /\ step' = "withdrawals"
    /\ gathered' = [gathered EXCEPT
                      !.unconfirmed = UnconfirmedOps(SaturatingSub(target, Confirmations))]
    /\ UNCHANGED <<chain, task, target, state, mode, completed, served, started, bounds>>

Stored(events) == [tx \in {e.tx : e \in events} |-> (CHOOSE e \in events : e.tx = tx).id]

\* HashMap::extend, and an upsert of rows: what is new replaces what was there.
Extended(map, new) ==
    [x \in DOMAIN map \cup DOMAIN new |-> IF x \in DOMAIN new THEN new[x] ELSE map[x]]

\* A query, then one database transaction that writes every row or none.
StoreCompleteWithdrawals ==
    /\ step = "withdrawals"
    /\ step' = "requests"
    /\ completed' = Extended(completed, Stored(Logs("completion", AcceptedFrom, AcceptedTo)))
    /\ UNCHANGED <<chain, task, target, gathered, state, mode, served, started, bounds>>

Received(events) ==
    [id \in {e.id : e \in events} |->
        LET e == CHOOSE e \in events : e.id = id
        IN  [tx |-> e.tx, block |-> e.block, outdated |-> FALSE]]

\* sift_outdated_ops
Sifted(ops) == Restrict(ops, {id \in DOMAIN ops : ~ops[id].outdated})

RestoreQueue ==
    /\ task = "restore" /\ step = "requests"
    /\ SetNewState
    /\ unconfirmed' = gathered.unconfirmed
    /\ queue' = Received(Logs("request", AcceptedFrom, AcceptedTo))
    /\ UNCHANGED <<chain, mode, completed, served, bounds>>

PollPriorityOps ==
    /\ task = "poll" /\ step = "requests"
    /\ step' = "unconfirmed"
    /\ gathered' = [gathered EXCEPT
          !.queue = Extended(Sifted(queue), Received(Logs("request", AcceptedFrom, AcceptedTo)))]
    /\ UNCHANGED <<chain, task, target, state, mode, completed, served, started, bounds>>

PollUnconfirmed ==
    /\ task = "poll" /\ step = "unconfirmed"
    /\ SetNewState
    /\ unconfirmed' = UnconfirmedOps(target)
    /\ queue' = gathered.queue
    /\ UNCHANGED <<chain, mode, completed, served, bounds>>

-----------------------------------------------------------------------------
(* Requests, time and restarts *)

\* Mutant: the lowest ids in the queue are taken, whether or not one is missing.
PriorityRequestsPresent(first, max) ==
    LET ids == SetToSortSeq({id \in DOMAIN queue : id >= first}, <)
    IN  SubSeq(ids, 1, IF Len(ids) < max THEN Len(ids) ELSE max)

\* get_priority_requests: from `first' on, up to the first id that is missing.
PriorityRequests(first, max) ==
    LET Run(n) == \A id \in first .. first + n - 1 : id \in DOMAIN queue
        n == CHOOSE n \in 0 .. max : Run(n) /\ (n = max \/ ~Run(n + 1))
    IN  [i \in 1 .. n |-> first + i - 1]

\* The proposer asks from current_priority_op_number on, and takes all it gets.
GetPriorityQueueOps ==
    /\ task = "idle"
    /\ LET ids == PriorityRequests(Len(served), MaxRequested)
       IN  /\ ids # <<>>
           /\ served' = served \o [i \in DOMAIN ids |-> queue[ids[i]].tx]
    /\ UNCHANGED <<chain, task_vars, state, mode, completed, started, bounds>>

\* PRIORITY_OP_EXPIRATION passes. A request that is as old and not taken would
\* have put the contract in exodus mode.
Age ==
    /\ task = "idle"
    /\ \E id \in DOMAIN queue :
          /\ id < Len(served) /\ ~queue[id].outdated
          /\ queue' = [queue EXCEPT ![id].outdated = TRUE]
    /\ UNCHANGED <<chain, task_vars, last, unconfirmed, mode, completed, served, started, bounds>>

\* The process stops; what it held in memory is gone.
Restart ==
    /\ restarts < MaxRestarts
    /\ task # "down"
    /\ restarts' = restarts + 1
    /\ task' = "down" /\ step' = "none" /\ target' = 0
    /\ gathered' = [unconfirmed |-> {}, queue |-> <<>>]
    /\ last' = 0 /\ unconfirmed' = {} /\ queue' = <<>> /\ mode' = "Working"
    /\ UNCHANGED <<chain, completed, served, started, reorgs, errors>>

Init ==
    /\ chain = <<>>
    /\ task = "down" /\ step = "none" /\ target = 0
    /\ gathered = [unconfirmed |-> {}, queue |-> <<>>]
    /\ last = 0 /\ unconfirmed = {} /\ queue = <<>> /\ mode = "Working"
    /\ completed = <<>> /\ served = <<>> /\ started = 0
    /\ reorgs = 0 /\ errors = 0 /\ restarts = 0

Watch ==
    \/ Restore \/ Poll
    \/ RestoreUnconfirmed \/ StoreCompleteWithdrawals \/ RestoreQueue
    \/ PollPriorityOps \/ PollUnconfirmed
    \/ GetPriorityQueueOps

Next == Mine \/ Reorg \/ Watch \/ QueryFails \/ Age \/ Restart

Spec == Init /\ [][Next]_vars

\* The timer sends PollETHNode for ever, the proposer asks in every round and
\* the node answers. Nothing is assumed of the chain.
FairSpec == Spec /\ WF_vars(Watch)

-----------------------------------------------------------------------------
(* Properties *)

Entries == [tx : Txs, block : 1 .. MaxBlock, outdated : BOOLEAN]

\* The variables hold what their declarations say.
TypeOK ==
    /\ chain \in Seq([event : {"request", "completion"}, tx : Txs] \cup {Empty})
    /\ task \in {"down", "restore", "idle", "poll"}
    /\ step \in {"none", "unconfirmed", "withdrawals", "requests"}
    /\ (task \in {"restore", "poll"}) = (step # "none")
    /\ {target, last, started} \subseteq 0 .. Height
    /\ IsInjective(served) /\ Range(served) \subseteq Txs
    /\ \A ops \in {queue, gathered.queue} :
          DOMAIN ops \subseteq 0 .. MaxEvents /\ Range(ops) \subseteq Entries
    /\ \A e \in unconfirmed \cup gathered.unconfirmed : e.tx \in Txs /\ e.block \in 1 .. MaxBlock
    /\ mode \in {"Working", "Backoff"}
    /\ DOMAIN completed \subseteq Txs

\* The n-th request of the canonical chain was made by tx in a block up to b
\* (said without Logs).
IsRequest(n, tx, b) ==
    \E i \in 1 .. b :
        /\ chain[i] = [event |-> "request", tx |-> tx]
        /\ Cardinality({j \in 1 .. i - 1 : chain[j].event = "request"}) = n

\* Whatever reorganisations of fewer than Confirmations blocks, errors and
\* restarts come between the queries, a priority operation is offered only
\* when it is on the chain under its serial id and no reorganisation can reach
\* it (mod.rs:104 "to eliminate risk of block reorg").
QueueIsFinal ==
    \A id \in DOMAIN queue : IsRequest(id, queue[id].tx, Height - Confirmations)

\* What blocks are made of is the contract's queue, in its order, without a hole.
ServedIsContractQueue ==
    \A n \in DOMAIN served : IsRequest(n - 1, served[n], Height - Confirmations)

\* The blocks whose events the watcher must have seen: those up to the last one
\* confirmed, without the window a restart leaves out.
Seen ==
    {b \in 1 .. last - Confirmations :
        b \in started - 2 * Confirmations - Expiration .. started - 2 * Confirmations
        \/ b > started - Confirmations}

\* No error, backoff or restart makes the watcher skip a confirmed request: it
\* is in the queue until it has been taken (apart from the window that
\* ConfirmedAreAccepted is about).
NothingSkipped ==
    task \in {"idle", "poll"} =>
        \A b \in Seen : chain[b].event = "request" =>
            \/ \E id \in DOMAIN queue : queue[id].tx = chain[b].tx
            \/ \E n \in DOMAIN served : served[n] = chain[b].tx

\* A completed withdrawal is stored when its block has been passed, with the
\* index the contract gives it; nothing is stored that can still disappear.
WithdrawalsStored ==
    /\ task \in {"idle", "poll"} =>
          \A b \in Seen : chain[b].event = "completion" => chain[b].tx \in DOMAIN completed
    /\ \A tx \in DOMAIN completed :
          \E i \in 1 .. Height - Confirmations :
             /\ chain[i] = [event |-> "completion", tx |-> tx]
             /\ completed[tx] = Cardinality({j \in 1 .. i - 1 : chain[j].event = "completion"})

\* What the watcher has passed it has kept: requests in the queue, completed
\* withdrawals in the database (process_new_blocks).
SeenIsKept == NothingSkipped /\ WithdrawalsStored

\* No request is both waiting for its confirmations and already accepted: a
\* user is never shown a deposit as pending that the server may have executed.
NotTwice == \A e \in unconfirmed : e.id \notin DOMAIN queue

\* The blocks, the queue and the unconfirmed deposits show one history: that of the
\* contract (process_new_blocks, sift_outdated_ops).
QueueIsContractQueue == TypeOK /\ QueueIsFinal /\ ServedIsContractQueue /\ NotTwice

\* mod.rs:3 "New events are accepted to the zkSync network once they have the
\* sufficient amount of confirmations".
ConfirmedAreAccepted ==
    task = "idle" =>
        \A b \in 1 .. last - Confirmations : chain[b].event = "request" =>
            \/ \E id \in DOMAIN queue : queue[id].tx = chain[b].tx
            \/ \E n \in DOMAIN served : served[n] = chain[b].tx

\* The next request lies in the blocks that the last start has left out.
LeftOut ==
    \E b \in DOMAIN chain \cap (started - 2 * Confirmations + 1 .. started - Confirmations) :
        chain[b].event = "request" /\ IsRequest(Len(served), chain[b].tx, Height)

\* Every confirmed request is taken in the end, whatever fails on the way,
\* unless the last start has left it out.
AllTaken ==
    []<>(LeftOut \/ ~\E tx \in Txs : IsRequest(Len(served), tx, Height - Confirmations))
=============================================================================
