---------------------------- MODULE EventNotifier ----------------------------
(***************************************************************************)
(* The subscriptions of the API server                                     *)
(* (bin/zksync_api/src/api_server/event_notify): a fetcher polls the       *)
(* tables that the core fills and sends what is new through two channels;  *)
(* a notifier takes events and requests of subscribers in any order and    *)
(* answers each subscription once, from the tables when it comes late,     *)
(* otherwise from an event.                                                *)
(***************************************************************************)
EXTENDS Integers, FiniteSets, SequencesExt, FiniteSetsExt

CONSTANTS
    Txs, PriorityOps,   \* the operations
    Account,            \* an account that each of them changes
    Subscribers,
    MaxBlock,           \* bound: blocks
    MaxRestarts,        \* bound: restarts of the API server
    WatchUnconfirmed    \* FALSE: nobody asks for VERIFY between it and its confirmation

Ops == Txs \cup PriorityOps
Actions == {"COMMIT", "VERIFY"}
Blocks == 1 .. MaxBlock

ASSUME NotifierAssumption ==
    /\ IsFiniteSet(Ops) /\ Txs \cap PriorityOps = {} /\ Account \notin Ops
    /\ {MaxBlock, MaxRestarts} \subseteq Nat
    /\ WatchUnconfirmed \in BOOLEAN

VARIABLES
    executed,                       \* executed_transactions, executed_priority_operations
    committed, verified, confirmed, \* operations: last COMMIT, VERIFY, confirmed VERIFY
    pending,                        \* pending_block: its number, 0 for none
    fetcher,                        \* EventFetcher
    blockEvents, txEvents,          \* the channels to the notifier
    blockInfos,                     \* cache_of_blocks_info
    subs,                           \* the subscriptions
    restarts                        \* counter of the bounded event

tables == <<executed, committed, verified, confirmed, pending>>
vars == <<tables, fetcher, blockEvents, txEvents, blockInfos, subs, restarts>>

InBlock(b) == {o \in DOMAIN executed : executed[o].block = b}
Succeeded(b) == {o \in InBlock(b) : executed[o].success}
Failed(b) == InBlock(b) \ Succeeded(b)

-----------------------------------------------------------------------------
(* The core *)

\* save_pending_block; a priority operation always succeeds.
Execute(o, success) ==
    /\ o \in Ops \ DOMAIN executed /\ committed < MaxBlock
    /\ o \in PriorityOps => success
    /\ executed' = [p \in DOMAIN executed \cup {o} |->
                      IF p = o THEN [block |-> committed + 1, success |-> success,
                                        index |-> IF success THEN Cardinality(Succeeded(committed + 1)) ELSE 0]
                      ELSE executed[p]]
    /\ pending' = committed + 1
    /\ UNCHANGED <<committed, verified, confirmed, fetcher, blockEvents, txEvents, blockInfos, subs,
                   restarts>>

\* Mutant: the pending block stays.
CommitBlockKeepsPending ==
    /\ Succeeded(committed + 1) # {}
    /\ committed' = committed + 1
    /\ UNCHANGED <<executed, verified, confirmed, pending, fetcher, blockEvents, txEvents, blockInfos,
                   subs, restarts>>

\* execute_operation: COMMIT; save_block removes the pending block.
CommitBlock ==
    /\ Succeeded(committed + 1) # {}
    /\ committed' = committed + 1 /\ pending' = 0
    /\ UNCHANGED <<executed, verified, confirmed, fetcher, blockEvents, txEvents, blockInfos, subs,
                   restarts>>

\* execute_operation: VERIFY
VerifyBlock ==
    /\ verified < committed
    /\ verified' = verified + 1
    /\ UNCHANGED <<executed, committed, confirmed, pending, fetcher, blockEvents, txEvents,
                   blockInfos, subs, restarts>>

\* The Ethereum sender sets confirmed.
ConfirmBlock ==
    /\ confirmed < verified
    /\ confirmed' = confirmed + 1
    /\ UNCHANGED <<executed, committed, verified, pending, fetcher, blockEvents, txEvents,
                   blockInfos, subs, restarts>>

-----------------------------------------------------------------------------
(* The fetcher: EventFetcher::run *)

NoPending == [number |-> 0, successes |-> 0, failures |-> 0]
PendingNow ==
    IF pending = 0 THEN NoPending
    ELSE [number |-> pending, successes |-> Cardinality(Succeeded(pending)),
          failures |-> Cardinality(Failed(pending))]

\* EventFetcher::new
NewFetcher ==
    [pc |-> "verified", committed |-> committed, verified |-> verified,
     pending |-> IF pending > committed THEN PendingNow ELSE NoPending]

\* Mutant: only the last new block is sent.
EventsLast(action, from, to) == IF from = to THEN <<>> ELSE <<[action |-> action, block |-> to]>>

\* send_operations: "There may be more than one block in the gap."
Events(action, from, to) == [k \in 1 .. to - from |-> [action |-> action, block |-> from + k]]

FetchVerified ==
    /\ fetcher.pc = "verified"
    /\ blockEvents' = blockEvents \o Events("VERIFY", fetcher.verified, verified)
    /\ fetcher' = [fetcher EXCEPT !.pc = "committed", !.verified = verified]
    /\ UNCHANGED <<tables, txEvents, blockInfos, subs, restarts>>

FetchCommitted ==
    /\ fetcher.pc = "committed"
    /\ blockEvents' = blockEvents \o Events("COMMIT", fetcher.committed, committed)
    /\ fetcher' = [fetcher EXCEPT !.pc = "pending", !.committed = committed]
    /\ UNCHANGED <<tables, txEvents, blockInfos, subs, restarts>>

\* update_pending_block: the successful operations after those of the last poll, and
\* as many failed ones as there are new ones, which are in no order.
FetchPending ==
    LET new == PendingNow
        old == IF fetcher.pending.number = new.number THEN fetcher.pending
               ELSE [NoPending EXCEPT !.number = new.number]
        changed == new.number > fetcher.committed /\ new # old
    IN  /\ fetcher.pc = "pending"
        /\ fetcher' = [fetcher EXCEPT !.pc = "verified", !.pending = IF changed THEN new ELSE @]
        /\ \/ ~changed /\ UNCHANGED txEvents
           \/ /\ changed
              /\ \E failures \in kSubset(new.failures - old.failures, Failed(pending)) :
                    txEvents' = Append(txEvents,
                       [block |-> pending,
                        ops |-> {o \in Succeeded(pending) : executed[o].index >= old.successes} \cup failures])
        /\ UNCHANGED <<tables, blockEvents, blockInfos, subs, restarts>>

-----------------------------------------------------------------------------
(* The notifier: OperationNotifier *)

NoAnswer == [block |-> 0, committed |-> FALSE, verified |-> FALSE, success |-> FALSE]
NoSub == [state |-> "none", entity |-> Account, action |-> "COMMIT", answer |-> NoAnswer]

\* SubStorage::notify, respond_once: a subscription is answered once.
Answered(sub, answer) == [sub EXCEPT !.state = "answered", !.answer = answer]

\* The answer of an event about an operation in a block.
EventAnswer(o, block, action) ==
    [block |-> block, committed |-> TRUE, verified |-> action = "VERIFY",
     success |-> executed[o].success]

\* handle_executed_operations
Notified(ops, block, action) ==
    [s \in Subscribers |->
       IF subs[s].state = "waiting" /\ subs[s].entity \in ops /\ subs[s].action = action
       THEN Answered(subs[s], EventAnswer(subs[s].entity, block, action)) ELSE subs[s]]

\* The last block that has changed the account in the tables: those of
\* last_committed_state_for_account hold the updates of the pending block too.
AccountAt(action) ==
    Max({0} \cup {executed[o].block : o \in {p \in DOMAIN executed :
                    executed[p].success /\ (action = "VERIFY" => executed[p].block <= verified)}})

\* get_account_state: the account as it is when the event is handled.
AccountAnswer(action) ==
    [block |-> AccountAt(action),
     committed |-> TRUE, verified |-> action = "VERIFY", success |-> TRUE]

\* handle_new_block
HandleBlock ==
    /\ blockEvents # <<>>
    /\ LET event == Head(blockEvents)
           byOp == Notified(InBlock(event.block), event.block, event.action)
       IN  subs' = [s \in Subscribers |->
              IF subs[s].state = "waiting" /\ subs[s].entity = Account /\ subs[s].action = event.action
              THEN Answered(subs[s], AccountAnswer(event.action)) ELSE byOp[s]]
    /\ blockEvents' = Tail(blockEvents)
    /\ UNCHANGED <<tables, fetcher, txEvents, blockInfos, restarts>>

\* handle_new_executed_batch
HandleTxs ==
    /\ txEvents # <<>>
    /\ subs' = Notified(Head(txEvents).ops, Head(txEvents).block, "COMMIT")
    /\ txEvents' = Tail(txEvents)
    /\ UNCHANGED <<tables, fetcher, blockEvents, blockInfos, restarts>>

\* Mutant: the block is cached although it is not verified yet.
CacheAnyBlock(b) == blockInfos' = [c \in DOMAIN blockInfos \cup {b} |->
                                     IF c \in DOMAIN blockInfos THEN blockInfos[c] ELSE c <= confirmed]

\* get_block_info: "Unverified blocks can still change, so we can't cache them."
CacheBlock(b) ==
    blockInfos' = IF b <= confirmed THEN [c \in DOMAIN blockInfos \cup {b} |-> TRUE] ELSE blockInfos

IsVerified(b) == IF b \in DOMAIN blockInfos THEN blockInfos[b] ELSE b <= confirmed

\* The answer of the tables, as a set of at most one: get_tx_receipt.
TxAnswer(t) ==
    {[block |-> executed[o].block, committed |-> executed[o].success,
      verified |-> executed[o].block <= confirmed, success |-> executed[o].success] :
     o \in {t} \cap DOMAIN executed}

\* get_executed_priority_operation, get_block_info: nothing while the operation is
\* in the pending block.
PriorityOpAnswer(p) ==
    {[block |-> executed[o].block, committed |-> TRUE,
      verified |-> IsVerified(executed[o].block), success |-> TRUE] :
     o \in {q \in {p} \cap DOMAIN executed : executed[q].block <= committed}}

Insert(s) == subs' = [subs EXCEPT ![s].state = "waiting"]

\* Mutant: a VERIFY subscription is answered with what the tables have.
FinalAny(answers, action) == answers

\* The answers that end a new subscription at once
Final(answers, action) == {a \in answers : action = "VERIFY" => a.verified}

\* add_transaction_sub, add_priority_op_sub
AddOperation(s) ==
    LET o == subs[s].entity
        answers == IF o \in Txs THEN TxAnswer(o) ELSE PriorityOpAnswer(o)
    IN  /\ subs[s].state = "requested" /\ o # Account
        /\ WatchUnconfirmed \/ subs[s].action = "COMMIT" \/ verified = confirmed
        /\ IF o \in PriorityOps /\ answers # {} THEN CacheBlock(executed[o].block)
           ELSE UNCHANGED blockInfos
        /\ IF Final(answers, subs[s].action) = {} THEN Insert(s)
           ELSE subs' = [subs EXCEPT ![s] = Answered(@, CHOOSE a \in answers : TRUE)]
        /\ UNCHANGED <<tables, fetcher, blockEvents, txEvents, restarts>>

\* account_state_by_address
AccountKnown == AccountAt("COMMIT") > 0

\* add_account_update_sub: an account that is not in the tables yet is refused.
AddAccount(s) ==
    /\ subs[s].state = "requested" /\ subs[s].entity = Account
    /\ IF AccountKnown THEN Insert(s) ELSE subs' = [subs EXCEPT ![s] = NoSub]
    /\ UNCHANGED <<tables, fetcher, blockEvents, txEvents, blockInfos, restarts>>

\* handle_unsub
Unsubscribe(s) ==
    /\ subs[s].state = "waiting"
    /\ subs' = [subs EXCEPT ![s] = NoSub]
    /\ UNCHANGED <<tables, fetcher, blockEvents, txEvents, blockInfos, restarts>>

\* subscribe_tx, subscribe_ethop, subscribe_account: one subscription at a time
Subscribe(s, entity, action) ==
    /\ subs[s].state \notin {"requested", "waiting"}
    /\ subs' = [subs EXCEPT ![s] = [NoSub EXCEPT !.state = "requested", !.entity = entity, !.action = action]]
    /\ UNCHANGED <<tables, fetcher, blockEvents, txEvents, blockInfos, restarts>>

\* The server starts again; its connections are closed.
RestartApi ==
    /\ restarts < MaxRestarts
    /\ restarts' = restarts + 1
    /\ fetcher' = NewFetcher /\ blockEvents' = <<>> /\ txEvents' = <<>> /\ blockInfos' = <<>>
    /\ subs' = [s \in Subscribers |-> NoSub]
    /\ UNCHANGED tables

Init ==
    /\ executed = <<>> /\ committed = 0 /\ verified = 0 /\ confirmed = 0 /\ pending = 0
    /\ fetcher = NewFetcher /\ blockEvents = <<>> /\ txEvents = <<>> /\ blockInfos = <<>>
    /\ subs = [s \in Subscribers |-> NoSub]
    /\ restarts = 0

Fetch == FetchVerified \/ FetchCommitted \/ FetchPending

Next ==
    \/ \E o \in Ops, success \in BOOLEAN : Execute(o, success)
    \/ CommitBlock \/ VerifyBlock \/ ConfirmBlock
    \/ Fetch \/ HandleBlock \/ HandleTxs
    \/ \E s \in Subscribers :
          \/ AddOperation(s) \/ AddAccount(s) \/ Unsubscribe(s)
          \/ \E entity \in Ops \cup {Account}, action \in Actions : Subscribe(s, entity, action)
    \/ RestartApi

Spec == Init /\ [][Next]_vars

\* The fetcher polls for ever; the notifier waits on the two channels and on the
\* requests, and select! takes each of them in the end.
Fairness ==
    /\ WF_vars(Fetch) /\ WF_vars(HandleBlock) /\ WF_vars(HandleTxs)
    /\ \A s \in Subscribers : WF_vars(AddOperation(s) \/ AddAccount(s))

FairSpec == Spec /\ Fairness

-----------------------------------------------------------------------------
Answer == [block : 0 .. MaxBlock, committed : BOOLEAN, verified : BOOLEAN, success : BOOLEAN]

TypeOK ==
    /\ DOMAIN executed \subseteq Ops
    /\ \A o \in DOMAIN executed : executed[o] \in
         [block : 1 .. committed + 1, success : BOOLEAN, index : 0 .. Cardinality(Ops)]
    /\ confirmed <= verified /\ verified <= committed /\ committed \in 0 .. MaxBlock
    /\ pending \in {0, committed + 1}
    /\ fetcher.pc \in {"verified", "committed", "pending"}
    /\ fetcher.committed <= committed /\ fetcher.verified <= verified
    /\ DOMAIN blockInfos \subseteq 1 .. committed
    /\ subs \in [Subscribers -> [state : {"none", "requested", "waiting", "answered"},
                                 entity : Ops \cup {Account}, action : Actions, answer : Answer]]

\* What a subscriber is told is so: the operation is in that block with that
\* outcome, and who asked for VERIFY hears of a block that has been verified, be it
\* from an event, from the tables or from a cached block.
AnswersTrue ==
    \A s \in Subscribers :
       LET sub == subs[s] IN
       sub.state = "answered" =>
          /\ sub.entity \in DOMAIN executed =>
                sub.answer.block = executed[sub.entity].block /\ sub.answer.success = executed[sub.entity].success
          /\ sub.answer.verified => sub.answer.block <= verified
          /\ sub.action = "VERIFY" => sub.answer.verified

\* The block event that a subscription waits for has yet to be read, or is on its way.
EventAhead(action, b) ==
    \/ b > (IF action = "COMMIT" THEN fetcher.committed ELSE fetcher.verified)
    \/ \E k \in DOMAIN blockEvents : blockEvents[k] = [action |-> action, block |-> b]

\* The code's intent that no subscriber is forgotten between the look at the tables
\* and the events ("Once tha new data is available, it is sent to the
\* OperationNotifier, which broadcasts it to the subscribers", event_fetcher.rs:27):
\* as long as a subscription waits, the event that answers it is still to come.
NoneForgotten ==
    \A s \in Subscribers :
       LET sub == subs[s] IN
       sub.state = "waiting" /\ sub.entity \in DOMAIN executed =>
          EventAhead(sub.action, executed[sub.entity].block)

\* A subscription ends with a true answer and with nothing else (handle_new_block,
\* subscribe).
SubscriptionsServed == TypeOK /\ AnswersTrue /\ NoneForgotten

\* ... and it comes: a subscription does not outlast the event.
AllAnswered ==
    \A s \in Subscribers, b \in Blocks :
       (subs[s].state = "waiting" /\ subs[s].entity \in InBlock(b) /\
          b <= (IF subs[s].action = "COMMIT" THEN committed ELSE verified))
       ~> subs[s].state # "waiting"
=============================================================================
