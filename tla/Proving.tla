------------------------------- MODULE Proving -------------------------------
(***************************************************************************)
(* From a committed block to its proof: the witness generators of the      *)
(* prover server (bin/zksync_witness_generator), the provers (bin/prover), *)
(* their jobs and proofs in the database (lib/storage prover), and the     *)
(* task of the committer that takes the proofs.  The generators and the    *)
(* state keeper share the table of cached account trees.                   *)
(*                                                                         *)
(* A tree is, for each account, the block that changed it last; a cached   *)
(* tree holds the inner hashes only.  What a witness says is in Circuit.   *)
(***************************************************************************)
EXTENDS Integers, FiniteSets, FiniteSetsExt, Functions

CONSTANTS
    Generators,         \* the witness generators that may be configured, 0 ..
    Provers,
    Changed,            \* the accounts that each block changes
    SizeOf,             \* the size of each block
    MaxFaults,          \* bound: refused calls of store_witness, restarts, crashes of provers
    MaxLate,            \* bound: jobs that time out although their prover works on them
    FaultsAnywhere      \* FALSE: only a single generator meets faults

Blocks == DOMAIN Changed
Accounts == UNION {Changed[b] : b \in Blocks}

ASSUME ProvingAssumption ==
    /\ Generators \in Nat \ {0}
    /\ IsFiniteSet(Blocks) /\ Blocks = 1 .. Cardinality(Blocks) /\ DOMAIN SizeOf = Blocks
    /\ {MaxFaults, MaxLate} \subseteq Nat
    /\ FaultsAnywhere \in BOOLEAN

VARIABLES
    committed, verified,        \* the last block of each action in operations
    witnesses,                  \* block_witness
    cache,                      \* account_tree_cache: block -> inner hashes
    proofs,                     \* proofs
    runs,                       \* prover_runs of unproved blocks, updated in the last 120 seconds
    generators,                 \* config: witness_generators
    gen,                        \* the generators
    keeper,                     \* the state keeper while it loads its tree
    prover,                     \* the provers
    faults, late                \* counters of the bounded events

tables == <<committed, verified, witnesses, cache, proofs, runs>>
counters == <<faults, late>>
provingVars == <<tables, generators, gen, keeper, prover, counters>>

-----------------------------------------------------------------------------
(* Account trees *)

Later(m, n) == IF m > n THEN m ELSE n
Earlier(m, n) == IF m > n THEN n ELSE m

\* load_committed_state(Some(b)) in a tree
TreeAt(b) == [a \in Accounts |-> Max({0} \cup {n \in 1 .. b : a \in Changed[n]})]

\* Mutant: only the updates from the cached block on.
ChangedAfter(b, c) == UNION {Changed[n] : n \in c + 1 .. b}

\* load_state_diff: the accounts that change between two blocks, in any order
ChangedBetween(b, c) == UNION {Changed[n] : n \in Earlier(b, c) + 1 .. Later(b, c)}

\* set_internals, then insert of the accounts that changed: their hashes and those
\* above are computed anew, the others are the cached ones.
Restored(b, c) ==
    [a \in Accounts |-> IF a \in ChangedBetween(b, c) THEN TreeAt(b)[a] ELSE cache[c][a]]

\* get_account_tree_cache: the highest block in the table, as a set of at most one.
Cached == {c \in DOMAIN cache : \A d \in DOMAIN cache : d <= c}

\* store_account_tree_cache: block is the primary key; nothing is stored for block 0.
CanStore(b) == b \notin DOMAIN cache

Store(b, tree) ==
    cache' = IF b = 0 THEN cache
             ELSE [d \in DOMAIN cache \cup {b} |-> IF d = b THEN tree ELSE cache[d]]

-----------------------------------------------------------------------------
(* The witness generators *)

Waiting(b) == [pc |-> "check", block |-> b, tree |-> TreeAt(0)]

\* run_prover_server: generator g starts after the last verified block.
Started(g) == Waiting(verified + g + 1)

Active == 0 .. generators - 1

\* next_witness_block
Follow(g) == Waiting(gen[g].block + generators)

FaultsAllowed == FaultsAnywhere \/ generators = 1

\* should_work_on_block
Check(g) ==
    /\ gen[g].pc = "check" /\ gen[g].block <= committed
    /\ gen' = [gen EXCEPT ![g] =
                 IF @.block \in witnesses THEN Follow(g) ELSE [@ EXCEPT !.pc = "load"]]
    /\ UNCHANGED <<tables, generators, keeper, prover, counters>>

\* load_account_tree, without the call that stores the tree it has built
LoadTree(g) ==
    /\ gen[g].pc = "load"
    /\ LET b == gen[g].block - 1
           tree == IF Cached = {} THEN TreeAt(b) ELSE Restored(b, Max(Cached))
       IN  gen' = [gen EXCEPT ![g].tree = tree,
                              ![g].pc = IF b \in Cached THEN "save" ELSE "store"]
    /\ UNCHANGED <<tables, generators, keeper, prover, counters>>

\* A tree that is in the table already is an error: the block is tried again.
StoreTree(g) ==
    /\ gen[g].pc = "store"
    /\ LET b == gen[g].block - 1
       IN  IF CanStore(b)
           THEN Store(b, gen[g].tree) /\ gen' = [gen EXCEPT ![g].pc = "save"]
           ELSE gen' = [gen EXCEPT ![g] = Waiting(b + 1)] /\ UNCHANGED cache
    /\ UNCHANGED <<committed, verified, witnesses, proofs, runs, generators, keeper, prover,
                   counters>>

\* build_block_witness and store_witness
SaveWitness(g) ==
    /\ gen[g].pc = "save"
    /\ witnesses' = witnesses \cup {gen[g].block}
    /\ gen' = [gen EXCEPT ![g] = Follow(g)]
    /\ UNCHANGED <<committed, verified, cache, proofs, runs, generators, keeper, prover,
                   counters>>

\* Mutant: the generator goes on after an error.
FailToSaveGoesOn(g) ==
    /\ gen[g].pc = "save" /\ FaultsAllowed /\ faults < MaxFaults
    /\ faults' = faults + 1
    /\ gen' = [gen EXCEPT ![g] = Follow(g)]
    /\ UNCHANGED <<tables, generators, keeper, prover, late>>

\* The database refuses: "Retry the same block on the next iteration."
FailToSave(g) ==
    /\ gen[g].pc = "save" /\ FaultsAllowed /\ faults < MaxFaults
    /\ faults' = faults + 1
    /\ gen' = [gen EXCEPT ![g] = Waiting(@.block)]
    /\ UNCHANGED <<tables, generators, keeper, prover, late>>

RestartServer ==
    /\ FaultsAllowed /\ faults < MaxFaults
    /\ faults' = faults + 1
    /\ gen' = [g \in Active |-> Started(g)]
    /\ UNCHANGED <<tables, generators, keeper, prover, late>>

-----------------------------------------------------------------------------
(* The state keeper when it starts: ZkSyncStateInitParams::load_account_tree *)

\* load_committed_state: the number it returns is that of the last block with an
\* update, that of the verified state when there is none, and the wanted block
\* when it has to go back.
LoadedNumber(b) ==
    LET updated == {n \in Earlier(verified, b) + 1 .. Later(verified, b) : Changed[n] # {}}
    IN  IF updated = {} THEN verified ELSE IF verified <= b THEN Max(updated) ELSE b

\* The accounts are those of the cached block, the row is looked up by the
\* number that was returned.
KeeperLoads ==
    LET wanted == IF Cached = {} THEN verified ELSE Max(Cached)
    IN  /\ keeper.pc = "up" /\ FaultsAllowed /\ faults < MaxFaults
        /\ faults' = faults + 1
        /\ CanStore(LoadedNumber(wanted))
        /\ keeper' = [pc |-> "store", block |-> LoadedNumber(wanted), tree |-> TreeAt(wanted)]
        /\ UNCHANGED <<tables, generators, gen, prover, late>>

\* The start fails when the row was inserted in between, and is repeated.
KeeperStores ==
    /\ keeper.pc = "store"
    /\ IF CanStore(keeper.block) THEN Store(keeper.block, keeper.tree) ELSE UNCHANGED cache
    /\ keeper' = [keeper EXCEPT !.pc = "up"]
    /\ UNCHANGED <<committed, verified, witnesses, proofs, runs, generators, gen, prover,
                   counters>>

-----------------------------------------------------------------------------
(* The provers *)

Idle == [pc |-> "idle", block |-> 0]

\* Mutant: a block is given to each prover that asks.
JobsShared(size) ==
    {b \in verified + 1 .. committed : SizeOf[b] = size /\ b \notin proofs}

\* prover_run_for_next_commit: blocks without a proof and without a live run;
\* whether the witness exists is not asked.
Jobs(size) ==
    {b \in verified + 1 .. committed :
        SizeOf[b] = size /\ b \notin proofs /\ \A p \in Provers : <<b, p>> \notin runs}

\* The answer of block_to_prove: 0 for no job.
BlockToProve(size) == IF Jobs(size) = {} THEN 0 ELSE Min(Jobs(size))

\* next_round asks for one size after the other until it gets a job.
Ask(p) ==
    /\ prover[p].pc = "idle"
    /\ \E size \in Range(SizeOf) :
          /\ BlockToProve(size) # 0
          /\ prover' = [prover EXCEPT ![p] = [pc |-> "data", block |-> BlockToProve(size)]]
          /\ runs' = runs \cup {<<BlockToProve(size), p>>}
    /\ UNCHANGED <<committed, verified, witnesses, cache, proofs, generators, gen, keeper,
                   counters>>

\* Mutant: the prover does not wait for the witness.
ProveBlind(p) ==
    /\ prover[p].pc = "data"
    /\ prover' = [prover EXCEPT ![p].pc = "publish"]
    /\ UNCHANGED <<tables, generators, gen, keeper, counters>>

\* The answer of prover_data: "No witness, we should just wait"
HasWitness(b) == b \in witnesses

Prove(p) ==
    /\ prover[p].pc = "data" /\ HasWitness(prover[p].block)
    /\ prover' = [prover EXCEPT ![p].pc = "publish"]
    /\ UNCHANGED <<tables, generators, gen, keeper, counters>>

\* with_retries panics when the witness does not come in two minutes.
GiveUp(p) ==
    /\ prover[p].pc = "data" /\ ~HasWitness(prover[p].block)
    /\ prover' = [prover EXCEPT ![p] = Idle]
    /\ UNCHANGED <<tables, generators, gen, keeper, counters>>

\* store_proof: the runs of a block that has a proof do not count any more.
AddProof(b) ==
    /\ proofs' = proofs \cup {b}
    /\ runs' = {r \in runs : r[1] # b}

\* publish: a proof that is there already ("duplicate key") is no error.
Publish(p) ==
    /\ prover[p].pc = "publish"
    /\ AddProof(prover[p].block)
    /\ prover' = [prover EXCEPT ![p] = Idle]
    /\ UNCHANGED <<committed, verified, witnesses, cache, generators, gen, keeper, counters>>

\* The proof is stored, the answer is lost: the client tries again.
PublishUnanswered(p) ==
    /\ prover[p].pc = "publish" /\ prover[p].block \notin proofs
    /\ AddProof(prover[p].block)
    /\ UNCHANGED <<committed, verified, witnesses, cache, generators, gen, keeper, prover,
                   counters>>

\* working_on, record_prover_is_working: the run counts as alive again.
WorkingOn(b, p) == runs' = runs \cup {<<b, p>>}

\* keep_sending_work_heartbeats
Heartbeat(p) ==
    /\ prover[p].block \notin {0} \cup proofs /\ <<prover[p].block, p>> \notin runs
    /\ WorkingOn(prover[p].block, p)
    /\ UNCHANGED <<committed, verified, witnesses, cache, proofs, generators, gen, keeper,
                   prover, counters>>

\* A prover stops in the middle of a job, or its proof fails; another process
\* takes its place.
Crash(p) ==
    /\ prover[p].block # 0 /\ faults < MaxFaults
    /\ faults' = faults + 1
    /\ prover' = [prover EXCEPT ![p] = Idle]
    /\ UNCHANGED <<tables, generators, gen, keeper, late>>

\* 120 seconds without an update: the prover left the job ...
Expire(b, p) ==
    /\ <<b, p>> \in runs /\ prover[p].block # b
    /\ runs' = runs \ {<<b, p>>}
    /\ UNCHANGED <<committed, verified, witnesses, cache, proofs, generators, gen, keeper,
                   prover, counters>>

\* ... or its heartbeats are late.
ExpireLate(b, p) ==
    /\ <<b, p>> \in runs /\ prover[p].block = b /\ late < MaxLate
    /\ late' = late + 1
    /\ runs' = runs \ {<<b, p>>}
    /\ UNCHANGED <<committed, verified, witnesses, cache, proofs, generators, gen, keeper,
                   prover, faults>>

-----------------------------------------------------------------------------
(* The server *)

SealBlock ==
    /\ committed < Cardinality(Blocks)
    /\ committed' = committed + 1
    /\ UNCHANGED <<verified, witnesses, cache, proofs, runs, generators, gen, keeper, prover,
                   counters>>

\* poll_for_new_proofs_task: one proof after the other
TakeProof ==
    /\ verified + 1 \in proofs
    /\ verified' = verified + 1
    /\ UNCHANGED <<committed, witnesses, cache, proofs, runs, generators, gen, keeper, prover,
                   counters>>

ProvingInit ==
    /\ committed = 0 /\ verified = 0 /\ witnesses = {} /\ proofs = {} /\ runs = {}
    /\ cache = [b \in {} |-> TreeAt(0)]
    /\ generators \in 1 .. Generators
    /\ gen = [g \in Active |-> Started(g)]
    /\ keeper = [pc |-> "up", block |-> 0, tree |-> TreeAt(0)]
    /\ prover = [p \in Provers |-> Idle]
    /\ faults = 0 /\ late = 0

Generate(g) == Check(g) \/ LoadTree(g) \/ StoreTree(g) \/ SaveWitness(g)

ProvingNext ==
    \/ \E g \in Active : Generate(g) \/ FailToSave(g)
    \/ RestartServer \/ KeeperLoads \/ KeeperStores
    \/ \E p \in Provers :
          \/ Ask(p) \/ Prove(p) \/ GiveUp(p) \/ Publish(p) \/ PublishUnanswered(p)
          \/ Heartbeat(p) \/ Crash(p)
          \/ \E b \in Blocks : Expire(b, p) \/ ExpireLate(b, p)
    \/ SealBlock \/ TakeProof

ProvingSpec == ProvingInit /\ [][ProvingNext]_provingVars

\* The generators, the provers, the poll of the committer and the clock go on.
Fairness ==
    /\ \A g \in 0 .. Generators - 1 : WF_provingVars(g \in Active /\ Generate(g))
    /\ \A p \in Provers :
          /\ WF_provingVars(Ask(p)) /\ WF_provingVars(Prove(p)) /\ WF_provingVars(Publish(p))
          /\ \A b \in Blocks : WF_provingVars(Expire(b, p))
    /\ WF_provingVars(TakeProof)

FairProvingSpec == ProvingSpec /\ Fairness

-----------------------------------------------------------------------------
Trees == [Accounts -> {0} \cup Blocks]

ProvingTypeOK ==
    /\ {committed, verified} \subseteq {0} \cup Blocks /\ verified <= committed
    /\ witnesses \subseteq 1 .. committed /\ proofs \subseteq witnesses
    /\ DOMAIN cache \subseteq 1 .. committed /\ \A b \in DOMAIN cache : cache[b] \in Trees
    /\ runs \subseteq Blocks \X Provers
    /\ generators \in 1 .. Generators
    /\ gen \in [Active -> [pc : {"check", "load", "store", "save"}, block : Nat, tree : Trees]]
    /\ keeper \in [pc : {"up", "store"}, block : {0} \cup Blocks, tree : Trees]
    /\ prover \in [Provers -> [pc : {"idle", "data", "publish"}, block : {0} \cup Blocks]]

\* Generators at different blocks and the state keeper restore their trees from
\* each other's cached hashes, forwards and backwards: what they build must be
\* the tree of the block ("account tree root hash restored incorrectly",
\* witness_generator.rs:182, "restored root_hash is different",
\* state_keeper/mod.rs:244), and what they store too.
TreesRestored ==
    /\ \A b \in DOMAIN cache : cache[b] = TreeAt(b)
    /\ \A g \in Active :
          gen[g].pc \in {"store", "save"} => gen[g].tree = TreeAt(gen[g].block - 1)

\* A block is proved by one prover at a time, except when a job has timed out
\* although its prover was at work (prover_run_for_next_commit, "Either there is
\* no ongoing job for the block, or the job exceeded the timeout").
OneProverPerBlock ==
    \A b \in Blocks : Cardinality({p \in Provers : prover[p].block = b}) <= 1 + late

\* A proof exists only for a block with a witness, and a job is one prover's: what the
\* tables say agrees with what the provers do (block_witness, proofs, prover_runs).
SharedWorkSound == ProvingTypeOK /\ OneProverPerBlock

\* Every sealed block is verified in the end, whatever provers crash, come late or
\* ask for a block before its witness is there.
AllVerified == []<>(verified = committed)

\* "Retry the same block on the next iteration." (witness_generator.rs:255): a
\* witness that could not be saved is generated again.
EveryBlockGetsWitness == []<>(1 .. committed \subseteq witnesses)
=============================================================================
