------------------------------ MODULE DataRestore ------------------------------
(***************************************************************************)
(* The data restore driver (bin/data_restore): it rebuilds the blocks of   *)
(* layer 2 from the events of the contract and the calldata of             *)
(* commitBlock, in stages (events, operations, tree) whose progress it     *)
(* keeps in the database.                                                  *)
(*                                                                         *)
(* An event of a commit carries the operations of its transaction.  What   *)
(* replaying the operations does to the accounts is in PublicData.         *)
(***************************************************************************)
EXTENDS RollupContract

CONSTANTS
    EthBlocksStep,          \* ETH_BLOCKS_STEP
    EndEthBlocksOffset,     \* END_ETH_BLOCKS_OFFSET
    MaxCrashes              \* bound: crashes of the driver

ASSUME RestoreAssumption ==
    /\ EthBlocksStep \in Nat /\ EndEthBlocksOffset \in Nat /\ MaxCrashes \in Nat
    /\ Cardinality(PublicDatas) >= MaxCommits

VARIABLES
    log,            \* events of the contract, each with the height of its Ethereum block
    finite,         \* the command line: --finite
    pc, loading,    \* the stage, and whether it belongs to load_state_from_storage
    committed, verified, lastWatched,   \* EventsState
    treeNumber,     \* TreeState: state.block_number
    opsBlocks,      \* the blocks of operations that are not stored yet
    dbState, dbCommitted, dbVerified, dbWatched, dbOps, dbBlocks, ethStats,
    crashes,
    torn            \* history: the driver was stopped where the tables do not tell its state

events == <<committed, verified, lastWatched>>
dbEvents == <<dbCommitted, dbVerified, dbWatched>>
db == <<dbState, dbEvents, dbOps, dbBlocks, ethStats>>
memory == <<pc, loading, events, treeNumber, opsBlocks>>
restoreVars == <<log, finite, memory, db, crashes, torn>>
allVars == <<vars, restoreVars>>

\* The contract has been created in the block before the first one of Init.
Genesis == 0

\* Mutant: the number of the next block.
LastNumberNext(bs) == IF bs = <<>> THEN 0 ELSE Last(bs).number + 1

LastNumber(bs) == IF bs = <<>> THEN 0 ELSE Last(bs).number

-----------------------------------------------------------------------------
(* The contract emits its events *)

\* The data of each commit differ, so that a block shows which commit it is from.
FreshData ==
    CHOOSE ops \in PublicDatas :
        \A n \in DOMAIN log : log[n].type = "BlockCommit" => log[n].ops # ops

Emit(event) == log' = Append(log, event @@ [height |-> height])

Contract ==
    /\ \/ Mine /\ UNCHANGED log
       \/ /\ CommitBlock(FreshData, blocks[totalBlocksCommitted].root)
          /\ Emit([type |-> "BlockCommit", number |-> totalBlocksCommitted + 1,
                   ops |-> FreshData])
       \/ VerifyBlock /\ Emit([type |-> "BlockVerification", number |-> totalBlocksVerified + 1])
       \/ \E max \in 1 .. MaxCommits :
             /\ RevertBlocks(max)
             /\ Emit([type |-> "BlocksRevert", verified |-> totalBlocksVerified,
                      committed |-> totalBlocksCommitted'])
    /\ UNCHANGED <<finite, memory, db, crashes, torn>>

-----------------------------------------------------------------------------
(* EventsState *)

\* Mutant: the events of reverted blocks are kept.
SeeKeepingReverted(s, event) ==
    CASE event.type = "BlockCommit" ->
            [s EXCEPT !.committed = Append(@, [number |-> event.number, ops |-> event.ops])]
      [] event.type = "BlockVerification" -> [s EXCEPT !.verified = Append(@, event.number)]
      [] OTHER -> s

\* update_blocks_state, for one event
See(s, event) ==
    CASE event.type = "BlockCommit" ->
            [s EXCEPT !.committed = Append(@, [number |-> event.number, ops |-> event.ops])]
      [] event.type = "BlockVerification" -> [s EXCEPT !.verified = Append(@, event.number)]
      [] event.type = "BlocksRevert" ->
            [committed |-> SelectSeq(s.committed, LAMBDA b : b.number <= event.committed),
             verified |-> SelectSeq(s.verified, LAMBDA n : n <= event.verified)]

\* Mutant: the window ends where it began.
ToBlockSame == MinOf(lastWatched + EthBlocksStep, height - EndEthBlocksOffset)

\* get_new_events_and_last_watched_block
ToBlock == MinOf(lastWatched + 1 + EthBlocksStep, height - EndEthBlocksOffset)

\* Mutant: the window starts with the last block of the one before.
NewLogsOverlapping ==
    SelectSeq(log, LAMBDA e : e.height >= lastWatched /\ e.height <= ToBlock)

NewLogs == SelectSeq(log, LAMBDA e : e.height > lastWatched /\ e.height <= ToBlock)

\* Mutant: all events are forgotten.
UnverifiedNone == <<>>

\* remove_verified_events
Unverified == SubSeq(committed, Len(verified) + 1, Len(committed))

\* update_storage_state, in the transaction of the stage that ends
SetState(stage) == dbState' = stage

\* update_block_events: the stored events are replaced.
StoreBlockEvents(newCommitted, newVerified) ==
    dbCommitted' = newCommitted /\ dbVerified' = newVerified

StoreWatched(n) == dbWatched' = n

\* save_events_state: one transaction
StoreEvents(newCommitted, newVerified, watched) ==
    StoreBlockEvents(newCommitted, newVerified) /\ StoreWatched(watched) /\ SetState("Events")

\* EventsState::update_events_state: what the driver holds after these logs
Watched(logs) == FoldLeft(See, [committed |-> Unverified, verified |-> <<>>], logs)

\* update_events_state: without new events the stored ones are replaced by none.
UpdateEvents ==
    /\ pc = "events"
    /\ LET new == Watched(NewLogs)
       IN  /\ committed' = new.committed /\ verified' = new.verified
           /\ lastWatched' = ToBlock
           /\ IF NewLogs = <<>> THEN StoreEvents(<<>>, <<>>, ToBlock)
              ELSE StoreEvents(new.committed, new.verified, ToBlock)
           /\ pc' = IF NewLogs = <<>> \/ (new.committed = <<>> /\ new.verified = <<>>)
                    THEN "events" ELSE "operations"
    /\ UNCHANGED <<vars, log, finite, loading, treeNumber, opsBlocks, dbOps, dbBlocks, ethStats,
                   crashes, torn>>

-----------------------------------------------------------------------------
(* The stages after the events *)

\* save_rollup_ops
StoreOperations(newOps) == dbOps' = newOps /\ SetState("Operations")

\* get_only_verified_committed_events: the commits that were verified, by position
NewOperationBlocks == SubSeq(committed, 1, Len(verified))

\* update_operations_state (it panics when there are too few commits), and the
\* trees of all new blocks are computed
UpdateOperations ==
    /\ pc = "operations"
    /\ Len(committed) >= Len(verified)
    /\ opsBlocks' = NewOperationBlocks /\ StoreOperations(NewOperationBlocks)
    /\ treeNumber' = treeNumber + Len(NewOperationBlocks)
    /\ pc' = IF NewOperationBlocks = <<>> /\ ~loading THEN "events" ELSE "tree"
    /\ UNCHANGED <<vars, log, finite, loading, events, dbEvents, dbBlocks, ethStats, crashes,
                   torn>>

\* save_block_operations: the block is stored as committed and verified.
SaveBlockOperations(block) == dbBlocks' = Append(dbBlocks, block) /\ SetState("None")

\* storage_interactor::update_tree_state: each block has its transaction.
StoreBlock ==
    /\ pc = "tree" /\ opsBlocks # <<>>
    /\ SaveBlockOperations(Head(opsBlocks))
    /\ opsBlocks' = Tail(opsBlocks)
    /\ UNCHANGED <<vars, log, finite, pc, loading, events, treeNumber, dbEvents, dbOps, ethStats,
                   crashes, torn>>

\* initialize_eth_stats: the operations that count as sent
InitializeStats(lastBlock) == ethStats' = lastBlock

\* update_eth_stats: the table that the sender of Ethereum reads; only in the loop
UpdateStats == IF loading THEN UNCHANGED ethStats ELSE InitializeStats(LastNumber(dbBlocks))

EndRound ==
    /\ pc = "tree" /\ opsBlocks = <<>>
    /\ pc' = IF finite /\ treeNumber = totalBlocksVerified THEN "done" ELSE "events"
    /\ UpdateStats
    /\ loading' = FALSE
    /\ UNCHANGED <<vars, log, finite, events, treeNumber, opsBlocks, dbState, dbEvents, dbOps,
                   dbBlocks, crashes, torn>>

-----------------------------------------------------------------------------
(* Crashes and restarts *)

\* Not so when an empty window has removed the stored commits of blocks that are
\* still to be verified, and when some blocks of a round are stored and others are
\* not (the first one sets the state to "None").
Recoverable ==
    /\ pc = "events" => Unverified = SubSeq(dbCommitted, Len(dbVerified) + 1, Len(dbCommitted))
    /\ pc = "tree" => opsBlocks = <<>> \/ dbState = "Operations"

Crash ==
    /\ crashes < MaxCrashes
    /\ pc \in {"events", "operations", "tree"}
    /\ crashes' = crashes + 1
    /\ torn' = (torn \/ ~Recoverable)
    /\ pc' = "down"
    /\ UNCHANGED <<vars, log, finite, loading, events, treeNumber, opsBlocks, db>>

\* Without a block in storage "continue" panics: the database is cleared and
\* set_genesis_state runs again.
RestartGenesis ==
    /\ pc = "down" /\ dbBlocks = <<>>
    /\ pc' = "events" /\ loading' = FALSE
    /\ committed' = <<>> /\ verified' = <<>> /\ lastWatched' = Genesis
    /\ treeNumber' = 0 /\ opsBlocks' = <<>>
    /\ StoreEvents(<<>>, <<>>, Genesis)
    /\ dbOps' = <<>>
    /\ UNCHANGED <<vars, log, finite, dbBlocks, ethStats, crashes, torn>>

\* load_committed_events_state, load_verified_events_state: in the order of the blocks
LoadBlockEvents == committed' = dbCommitted /\ verified' = dbVerified

LoadWatched == lastWatched' = dbWatched

\* get_block_events_state_from_storage
LoadEvents == LoadBlockEvents /\ LoadWatched

\* get_storage_state, load_rollup_ops_blocks: the blocks whose round was not finished
LoadedOperations == IF dbState = "Operations" THEN dbOps ELSE <<>>

\* TreeState::load, of the last block in storage; the loaded operations are
\* computed on it.
LoadTree == treeNumber' = LastNumber(dbBlocks) + Len(LoadedOperations)

\* load_state_from_storage
Load ==
    /\ pc = "down" /\ dbBlocks # <<>>
    /\ LoadEvents
    /\ opsBlocks' = LoadedOperations
    /\ LoadTree
    /\ pc' = IF dbState = "Events" THEN "operations" ELSE "tree"
    /\ loading' = TRUE
    /\ UNCHANGED <<vars, log, finite, db, crashes, torn>>

-----------------------------------------------------------------------------
RestoreInit ==
    /\ Init
    /\ log = <<>>
    /\ finite \in BOOLEAN
    /\ pc = "events" /\ loading = FALSE
    /\ committed = <<>> /\ verified = <<>> /\ lastWatched = Genesis
    /\ treeNumber = 0 /\ opsBlocks = <<>>
    /\ dbState = "Events" /\ dbCommitted = <<>> /\ dbVerified = <<>> /\ dbWatched = Genesis
    /\ dbOps = <<>> /\ dbBlocks = <<>> /\ ethStats = 0
    /\ crashes = 0 /\ torn = FALSE

Driver ==
    \/ UpdateEvents \/ UpdateOperations \/ StoreBlock \/ EndRound \/ RestartGenesis \/ Load

RestoreNext == Contract \/ Driver \/ Crash

RestoreSpec == RestoreInit /\ [][RestoreNext]_allVars

\* Blocks are mined, the driver polls for ever, and is started again.
FairRestoreSpec == RestoreSpec /\ WF_allVars(Mine /\ Contract) /\ WF_allVars(Driver)

-----------------------------------------------------------------------------
(* Properties *)

RestoreTypeOK ==
    /\ pc \in {"events", "operations", "tree", "down", "done"}
    /\ dbState \in {"Events", "Operations", "None"}
    /\ lastWatched \in 0 .. MaxHeight /\ dbWatched \in 0 .. MaxHeight
    /\ treeNumber \in Nat /\ ethStats \in 0 .. MaxCommits
    /\ \A s \in {committed, dbCommitted, opsBlocks, dbOps, dbBlocks} :
          \A n \in DOMAIN s : s[n].number \in 1 .. MaxCommits /\ s[n].ops \in PublicDatas

\* The blocks in the database are the first verified blocks of the contract,
\* with the operations of the commit that was verified and not of one that was
\* reverted, each once.
RestoredAreVerified ==
    /\ Len(dbBlocks) <= totalBlocksVerified
    /\ \A n \in DOMAIN dbBlocks : dbBlocks[n] = [number |-> n, ops |-> blocks[n].ops]

\* Between two rounds the driver knows the commits that stand at the Ethereum
\* block it has watched, of exactly the blocks it has not restored.
KnowsWhatIsCommitted ==
    pc = "events" =>
        LET seen == FoldLeft(See, [committed |-> <<>>, verified |-> <<>>],
                             SelectSeq(log, LAMBDA e : e.height <= lastWatched))
        IN  /\ Len(seen.verified) = Len(dbBlocks)
            /\ Unverified = SubSeq(seen.committed, Len(dbBlocks) + 1, Len(seen.committed))

\* get_only_verified_committed_events (rollup_ops.rs) finds a commit for every
\* verification, whatever the contract reverts between the windows.
NeverPanics == pc = "operations" => Len(committed) >= Len(verified)

\* What the driver holds is what the contract has verified and committed, through
\* every revert, and through every stop and restart whose state the tables tell.  Not
\* after the other two, which happen: a stop between two blocks of a round
\* (save_block_operations), or after an empty window (update_block_events).
FollowsContract ==
    /\ RestoreTypeOK
    /\ ~torn => RestoredAreVerified /\ KnowsWhatIsCommitted /\ NeverPanics

\* Every verified block that is old enough is restored in the end, unless the driver
\* was stopped at one of these two points.
CatchesUp ==
    []<>(torn \/ pc = "done" \/ Len(dbBlocks) =
            Len(SelectSeq(log, LAMBDA e : /\ e.type = "BlockVerification"
                                          /\ e.height <= MaxHeight - EndEthBlocksOffset)))
=============================================================================
