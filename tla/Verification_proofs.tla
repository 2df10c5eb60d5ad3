------------------------ MODULE Verification_proofs ------------------------
(***************************************************************************)
(* Theorems about how blocks get their proofs (Proving) and about the      *)
(* contract that checks them (RollupContract).                             *)
(*                                                                         *)
(* Proving: the account trees that witness generators and the state keeper *)
(* restore from each other's cached hashes, for every number of            *)
(* generators, every sequence of blocks and every choice of faults.        *)
(*                                                                         *)
(* The contract: the queue of priority requests follows the blocks, and    *)
(* the contract holds what it owes.  QueueInv tells where in the queue the *)
(* blocks that are not verified begin: each answers the requests from its  *)
(* offset on, so that verifying shifts all of them and reverting drops the *)
(* last.  FundsInv is the sum of what is owed, with the domains that the   *)
(* sums need; what a proof of a block shows (Provable) is used for         *)
(* verifyBlock alone.                                                      *)
(***************************************************************************)
EXTENDS Proving, RollupContract, DataFacts

-----------------------------------------------------------------------------
(* Trees *)

\* An account that no block between two others changes is the same in both trees.
LEMMA UnchangedBetween ==
  ASSUME NEW b \in Nat, NEW c \in Nat, NEW a \in Accounts, a \notin ChangedBetween(b, c)
  PROVE  TreeAt(b)[a] = TreeAt(c)[a]
<1> DEFINE Changers(n) == {m \in 1 .. n : a \in Changed[m]}
<1>1. \A m \in Earlier(b, c) + 1 .. Later(b, c) : a \notin Changed[m]
  BY DEF ChangedBetween
<1>2. \A m \in 1 .. b : a \in Changed[m] => m \in 1 .. c
  BY <1>1 DEF Earlier, Later
<1>3. \A m \in 1 .. c : a \in Changed[m] => m \in 1 .. b
  BY <1>1 DEF Earlier, Later
<1>4. Changers(b) = Changers(c)
  BY <1>2, <1>3
<1> QED BY <1>4 DEF TreeAt

\* Blocks without updates between two others: the trees are the same.
LEMMA SameTree ==
  ASSUME NEW b \in Nat, NEW c \in Nat,
         \A n \in Earlier(b, c) + 1 .. Later(b, c) : Changed[n] = {}
  PROVE  TreeAt(b) = TreeAt(c)
<1>1. \A a \in Accounts : a \notin ChangedBetween(b, c)
  BY DEF ChangedBetween
<1>2. \A a \in Accounts : TreeAt(b)[a] = TreeAt(c)[a]
  BY <1>1, UnchangedBetween
<1> DEFINE Of(n, a) == Max({0} \cup {m \in 1 .. n : a \in Changed[m]})
<1>3. \A a \in Accounts : Of(b, a) = Of(c, a)
  BY <1>2 DEF TreeAt
<1>4. [a \in Accounts |-> Of(b, a)] = [a \in Accounts |-> Of(c, a)]
  <2> HIDE DEF Of
  <2> QED BY <1>3
<1> QED BY <1>4 DEF TreeAt

\* load_account_tree gives the tree of the block, whatever block the cached hashes
\* are from.
LEMMA RestoredIsTree ==
  ASSUME NEW b \in Nat, NEW c \in Nat, cache[c] = TreeAt(c)
  PROVE  Restored(b, c) = TreeAt(b)
<1>1. \A a \in Accounts :
         (IF a \in ChangedBetween(b, c) THEN TreeAt(b)[a] ELSE cache[c][a]) = TreeAt(b)[a]
  BY UnchangedBetween
<1>2. TreeAt(b) = [a \in Accounts |-> TreeAt(b)[a]]
  BY DEF TreeAt
<1>3. Restored(b, c) = [a \in Accounts |-> TreeAt(b)[a]]
  BY <1>1 DEF Restored
<1> QED BY <1>2, <1>3

-----------------------------------------------------------------------------
(* The invariant *)

AllTrees == {TreeAt(b) : b \in Nat}

\* What generators, keeper and table are made of.
SharedTypeOK ==
    /\ committed \in Nat /\ verified \in Nat
    /\ generators \in Nat \ {0}
    /\ DOMAIN cache \subseteq Nat
    /\ gen \in [Active -> [pc : {"check", "load", "store", "save"}, block : Nat \ {0},
                           tree : AllTrees]]
    /\ keeper \in [pc : {"up", "store"}, block : Nat, tree : AllTrees]

\* TreesRestored is inductive once the keeper's tree is known, too.
IInv ==
    /\ SharedTypeOK
    /\ TreesRestored
    /\ keeper.pc = "store" => keeper.tree = TreeAt(keeper.block)

\* The highest cached block is in the table, with its tree.
LEMMA CachedIsTree ==
  ASSUME IInv, Cached # {}
  PROVE  Max(Cached) \in DOMAIN cache /\ Max(Cached) \in Nat
         /\ cache[Max(Cached)] = TreeAt(Max(Cached))
<1>1. PICK c \in Cached : TRUE
  OBVIOUS
<1>2. \A d \in Cached : c >= d
  BY <1>1 DEF Cached, IInv, SharedTypeOK
<1>3. Max(Cached) \in Cached
  BY <1>1, <1>2 DEF Max
<1> QED BY <1>3 DEF Cached, IInv, SharedTypeOK, TreesRestored

\* The number that load_committed_state returns names a block with the same tree.
LEMMA LoadedIsTree ==
  ASSUME IInv, NEW b \in Nat
  PROVE  LoadedNumber(b) \in Nat /\ TreeAt(LoadedNumber(b)) = TreeAt(b)
<1> DEFINE updated == {n \in Earlier(verified, b) + 1 .. Later(verified, b) : Changed[n] # {}}
<1>1. verified \in Nat
  BY DEF IInv, SharedTypeOK
<1>2. CASE updated = {}
  <2>1. TreeAt(verified) = TreeAt(b)
    BY <1>1, <1>2, SameTree
  <2> QED BY <1>1, <1>2, <2>1 DEF LoadedNumber
<1>3. CASE updated # {} /\ verified > b
  BY <1>1, <1>3 DEF LoadedNumber
<1>4. CASE updated # {} /\ verified <= b
  <2>1. updated \subseteq 0 .. b
    BY <1>1, <1>4 DEF Earlier, Later
  <2>2. Max(updated) \in updated /\ \A y \in updated : Max(updated) >= y
    BY <1>4, <2>1, MaxIsMember
  <2> DEFINE last == Max(updated)
  <2>3. last \in Nat /\ last <= b /\ verified < last
    BY <1>1, <1>4, <2>1, <2>2 DEF Earlier, Later
  <2>4. LoadedNumber(b) = last
    BY <1>1, <1>4 DEF LoadedNumber
  <2>5. \A n \in last + 1 .. b : Changed[n] = {}
    <3> SUFFICES ASSUME NEW n \in last + 1 .. b, Changed[n] # {}
                 PROVE  FALSE
      OBVIOUS
    <3>1. n \in updated
      BY <1>1, <1>4, <2>3 DEF Earlier, Later
    <3> QED BY <2>2, <2>3, <3>1
  <2> HIDE DEF last
  <2>6. TreeAt(last) = TreeAt(b)
    BY <2>3, <2>5, SameTree DEF Earlier, Later
  <2> QED BY <2>3, <2>4, <2>6
<1> QED BY <1>1, <1>2, <1>3, <1>4

-----------------------------------------------------------------------------
(* The steps *)

GenState == [pc : {"check", "load", "store", "save"}, block : Nat \ {0}, tree : AllTrees]

\* A tree is the one of the block before the one to prove.
TreeLoaded(s) == s.pc \in {"store", "save"} => s.tree = TreeAt(s.block - 1)

\* Steps of provers, and whatever else leaves trees alone.
LEMMA FrameKeeps ==
  ASSUME IInv, UNCHANGED <<committed, verified, cache, generators, gen, keeper>>
  PROVE  IInv'
BY DEF IInv, SharedTypeOK, TreesRestored, Active

\* A generator that starts to wait for a block has no tree to be wrong about.
LEMMA WaitingIsSound ==
  ASSUME NEW b \in Nat \ {0}
  PROVE  Waiting(b) \in GenState /\ TreeLoaded(Waiting(b))
<1>1. TreeAt(0) \in AllTrees
  BY DEF AllTrees
<1> QED BY <1>1 DEF Waiting, GenState, TreeLoaded

\* One generator moves to a sound state; table and keeper stay.
LEMMA GeneratorMoves ==
  ASSUME IInv, NEW g \in Active, NEW s \in GenState, TreeLoaded(s),
         gen' = [gen EXCEPT ![g] = s],
         UNCHANGED <<committed, verified, cache, generators, keeper>>
  PROVE  IInv'
<1>1. gen \in [Active -> GenState]
  BY DEF IInv, SharedTypeOK, GenState
<1>2. gen' \in [Active -> GenState] /\ Active' = Active
  BY <1>1 DEF Active
<1>3. SharedTypeOK'
  BY <1>2 DEF IInv, SharedTypeOK, GenState
<1>4. \A h \in Active : TreeLoaded(gen'[h])
  BY <1>1 DEF IInv, TreesRestored, TreeLoaded
<1>5. TreesRestored'
  BY <1>2, <1>4 DEF IInv, TreesRestored, TreeLoaded
<1> QED BY <1>3, <1>5 DEF IInv

\* store_account_tree_cache keeps a table of right trees right.
LEMMA StoreIsSound ==
  ASSUME IInv, NEW b \in Nat, Store(b, TreeAt(b))
  PROVE  DOMAIN cache' \subseteq Nat /\ \A d \in DOMAIN cache' : cache'[d] = TreeAt(d)
<1>1. DOMAIN cache \subseteq Nat /\ \A d \in DOMAIN cache : cache[d] = TreeAt(d)
  BY DEF IInv, SharedTypeOK, TreesRestored
<1>2. CASE b = 0
  BY <1>1, <1>2 DEF Store
<1>3. CASE b # 0
  BY <1>1, <1>3 DEF Store
<1> QED BY <1>2, <1>3

LEMMA GeneratorsSound ==
  ASSUME IInv, NEW g \in Active
  PROVE  /\ gen[g] \in GenState /\ TreeLoaded(gen[g])
         /\ gen[g].block - 1 \in Nat
         /\ gen[g].block + generators \in Nat \ {0}
<1>1. gen[g] \in GenState /\ TreeLoaded(gen[g])
  BY DEF IInv, SharedTypeOK, TreesRestored, TreeLoaded, GenState
<1> QED BY <1>1 DEF GenState, IInv, SharedTypeOK

LEMMA CheckKeeps ==
  ASSUME IInv, NEW g \in Active, Check(g)
  PROVE  IInv'
<1>1. /\ gen[g] \in GenState /\ gen[g].pc = "check"
      /\ gen[g].block + generators \in Nat \ {0}
  BY GeneratorsSound DEF Check
<1>2. UNCHANGED <<committed, verified, cache, generators, keeper>>
  BY DEF Check, tables
<1>3. CASE gen[g].block \in witnesses
  <2>1. gen' = [gen EXCEPT ![g] = Follow(g)]
    BY <1>3 DEF Check
  <2> QED BY <1>1, <1>2, <2>1, WaitingIsSound, GeneratorMoves DEF Follow
<1>4. CASE gen[g].block \notin witnesses
  <2> DEFINE s == [gen[g] EXCEPT !.pc = "load"]
  <2>1. gen' = [gen EXCEPT ![g] = s]
    BY <1>4 DEF Check
  <2>2. s \in GenState /\ TreeLoaded(s)
    BY <1>1 DEF GenState, TreeLoaded
  <2> HIDE DEF s
  <2> QED BY <1>2, <2>1, <2>2, GeneratorMoves
<1> QED BY <1>3, <1>4

LEMMA LoadTreeKeeps ==
  ASSUME IInv, NEW g \in Active, LoadTree(g)
  PROVE  IInv'
<1> DEFINE b == gen[g].block - 1
           tree == IF Cached = {} THEN TreeAt(b) ELSE Restored(b, Max(Cached))
           s == [gen[g] EXCEPT !.tree = tree,
                               !.pc = IF b \in Cached THEN "save" ELSE "store"]
<1>1. gen[g] \in GenState /\ b \in Nat
  BY GeneratorsSound
<1>2. UNCHANGED <<committed, verified, cache, generators, keeper>>
  BY DEF LoadTree, tables
<1>3. tree = TreeAt(b)
  <2>1. CASE Cached = {}
    BY <2>1
  <2>2. CASE Cached # {}
    <3>1. Max(Cached) \in Nat /\ cache[Max(Cached)] = TreeAt(Max(Cached))
      BY <2>2, CachedIsTree
    <3> QED BY <1>1, <2>2, <3>1, RestoredIsTree
  <2> QED BY <2>1, <2>2
<1>4. gen \in [Active -> GenState]
  BY DEF IInv, SharedTypeOK, GenState
<1>5. gen' = [gen EXCEPT ![g] = s]
  BY <1>1, <1>4 DEF LoadTree, GenState
<1>6. tree \in AllTrees
  BY <1>1, <1>3 DEF AllTrees
<1> HIDE DEF tree
<1>7. s \in GenState /\ s.tree = tree /\ s.block = gen[g].block
  BY <1>1, <1>6 DEF GenState
<1>8. TreeLoaded(s)
  BY <1>3, <1>7 DEF TreeLoaded
<1> HIDE DEF s
<1> QED BY <1>2, <1>5, <1>7, <1>8, GeneratorMoves

LEMMA StoreTreeKeeps ==
  ASSUME IInv, NEW g \in Active, StoreTree(g)
  PROVE  IInv'
<1> DEFINE b == gen[g].block - 1
<1>1. /\ gen[g] \in GenState /\ b \in Nat /\ b + 1 \in Nat \ {0}
      /\ gen[g].tree = TreeAt(b)
  BY GeneratorsSound DEF StoreTree, TreeLoaded, GenState
<1>2. UNCHANGED <<committed, verified, generators, keeper>>
  BY DEF StoreTree
<1>3. CASE CanStore(b)
  <2> DEFINE s == [gen[g] EXCEPT !.pc = "save"]
  <2>1. Store(b, TreeAt(b)) /\ gen' = [gen EXCEPT ![g].pc = "save"]
    BY <1>1, <1>3 DEF StoreTree
  <2>2. DOMAIN cache' \subseteq Nat /\ \A d \in DOMAIN cache' : cache'[d] = TreeAt(d)
    BY <1>1, <2>1, StoreIsSound
  <2>3. gen \in [Active -> GenState] /\ \A h \in Active : TreeLoaded(gen[h])
    BY GeneratorsSound DEF IInv, SharedTypeOK, GenState
  <2>4. gen' \in [Active -> GenState] /\ Active' = Active
    BY <1>1, <1>2, <2>1, <2>3 DEF Active, GenState
  <2>5. \A h \in Active : TreeLoaded(gen'[h])
    <3> SUFFICES ASSUME NEW h \in Active
                 PROVE  TreeLoaded(gen'[h])
      OBVIOUS
    <3>1. CASE h = g
      <4>1. gen'[g].tree = gen[g].tree /\ gen'[g].block = gen[g].block
        BY <1>1, <2>1, <2>3 DEF GenState
      <4> QED BY <1>1, <3>1, <4>1 DEF TreeLoaded
    <3>2. CASE h # g
      BY <2>1, <2>3, <3>2
    <3> QED BY <3>1, <3>2
  <2>6. SharedTypeOK'
    BY <1>2, <2>2, <2>4 DEF IInv, SharedTypeOK, GenState
  <2>7. TreesRestored'
    BY <2>2, <2>4, <2>5 DEF TreesRestored, TreeLoaded
  <2> QED BY <1>2, <2>6, <2>7 DEF IInv
<1>4. CASE ~CanStore(b)
  <2>1. gen' = [gen EXCEPT ![g] = Waiting(b + 1)] /\ UNCHANGED cache
    BY <1>4 DEF StoreTree
  <2> QED BY <1>1, <1>2, <2>1, WaitingIsSound, GeneratorMoves
<1> QED BY <1>3, <1>4

LEMMA SaveKeeps ==
  ASSUME IInv, NEW g \in Active, SaveWitness(g) \/ FailToSave(g)
  PROVE  IInv'
<1>1. gen[g].block \in Nat \ {0} /\ gen[g].block + generators \in Nat \ {0}
  BY GeneratorsSound DEF GenState
<1>2. UNCHANGED <<committed, verified, cache, generators, keeper>>
  BY DEF SaveWitness, FailToSave, tables
<1>3. PICK b \in Nat \ {0} : gen' = [gen EXCEPT ![g] = Waiting(b)]
  BY <1>1 DEF SaveWitness, FailToSave, Follow
<1> QED BY <1>2, <1>3, WaitingIsSound, GeneratorMoves

LEMMA RestartKeeps ==
  ASSUME IInv, RestartServer
  PROVE  IInv'
<1>1. /\ UNCHANGED <<committed, verified, cache, generators, keeper>>
      /\ gen' = [g \in Active |-> Started(g)]
  BY DEF RestartServer, tables
<1>2. Active' = Active
  BY <1>1 DEF Active
<1>3. \A g \in Active : Started(g) \in GenState /\ TreeLoaded(Started(g))
  <2> SUFFICES ASSUME NEW g \in Active
               PROVE  Started(g) \in GenState /\ TreeLoaded(Started(g))
    OBVIOUS
  <2>1. verified + g + 1 \in Nat \ {0}
    BY DEF IInv, SharedTypeOK, Active
  <2> QED BY <2>1, WaitingIsSound DEF Started
<1>4. gen' \in [Active -> GenState] /\ \A g \in Active : TreeLoaded(gen'[g])
  BY <1>1, <1>3
<1>5. SharedTypeOK'
  BY <1>1, <1>2, <1>4 DEF IInv, SharedTypeOK, GenState
<1>6. TreesRestored'
  BY <1>1, <1>2, <1>4 DEF IInv, TreesRestored, TreeLoaded
<1> QED BY <1>1, <1>5, <1>6 DEF IInv

LEMMA KeeperLoadsKeeps ==
  ASSUME IInv, KeeperLoads
  PROVE  IInv'
<1> DEFINE wanted == IF Cached = {} THEN verified ELSE Max(Cached)
<1>1. wanted \in Nat
  BY CachedIsTree DEF IInv, SharedTypeOK
<1>2. /\ UNCHANGED <<committed, verified, cache, generators, gen>>
      /\ keeper' = [pc |-> "store", block |-> LoadedNumber(wanted), tree |-> TreeAt(wanted)]
  BY DEF KeeperLoads, tables
<1> HIDE DEF wanted
<1>3. LoadedNumber(wanted) \in Nat /\ TreeAt(LoadedNumber(wanted)) = TreeAt(wanted)
  BY <1>1, LoadedIsTree
<1>4. TreeAt(wanted) \in AllTrees
  BY <1>1 DEF AllTrees
<1>5. SharedTypeOK' /\ TreesRestored'
  BY <1>2, <1>3, <1>4 DEF IInv, SharedTypeOK, TreesRestored, Active
<1>6. (keeper.pc = "store" => keeper.tree = TreeAt(keeper.block))'
  BY <1>2, <1>3
<1> QED BY <1>5, <1>6 DEF IInv

LEMMA KeeperStoresKeeps ==
  ASSUME IInv, KeeperStores
  PROVE  IInv'
<1>1. /\ UNCHANGED <<committed, verified, generators, gen>>
      /\ keeper' = [keeper EXCEPT !.pc = "up"]
  BY DEF KeeperStores
<1>2. keeper.block \in Nat /\ keeper.tree = TreeAt(keeper.block)
  BY DEF KeeperStores, IInv, SharedTypeOK
<1>3. Store(keeper.block, TreeAt(keeper.block)) \/ UNCHANGED cache
  BY <1>2 DEF KeeperStores
<1>4. DOMAIN cache' \subseteq Nat /\ \A d \in DOMAIN cache' : cache'[d] = TreeAt(d)
  BY <1>2, <1>3, StoreIsSound DEF IInv, SharedTypeOK, TreesRestored
<1>5. keeper' \in [pc : {"up", "store"}, block : Nat, tree : AllTrees] /\ keeper'.pc = "up"
  BY <1>1 DEF IInv, SharedTypeOK
<1>6. SharedTypeOK'
  BY <1>1, <1>4, <1>5 DEF IInv, SharedTypeOK, Active
<1>7. TreesRestored'
  BY <1>1, <1>4 DEF IInv, TreesRestored, Active
<1> QED BY <1>5, <1>6, <1>7 DEF IInv

LEMMA ServerKeeps ==
  ASSUME IInv, SealBlock \/ TakeProof
  PROVE  IInv'
<1>1. /\ UNCHANGED <<cache, generators, gen, keeper>>
      /\ committed' \in Nat /\ verified' \in Nat
  BY DEF SealBlock, TakeProof, IInv, SharedTypeOK
<1> QED BY <1>1 DEF IInv, SharedTypeOK, TreesRestored, Active

LEMMA ProverKeeps ==
  ASSUME IInv, NEW p \in Provers,
         \/ Ask(p) \/ Prove(p) \/ GiveUp(p) \/ Publish(p) \/ PublishUnanswered(p)
         \/ Heartbeat(p) \/ Crash(p)
         \/ \E b \in Blocks : Expire(b, p) \/ ExpireLate(b, p)
  PROVE  IInv'
<1>1. UNCHANGED <<committed, verified, cache, generators, gen, keeper>>
  BY DEF Ask, Prove, GiveUp, Publish, PublishUnanswered, Heartbeat, Crash, Expire,
         ExpireLate, tables
<1> QED BY <1>1, FrameKeeps

-----------------------------------------------------------------------------
(* The theorems *)

LEMMA InitSound == ProvingInit => IInv
<1> SUFFICES ASSUME ProvingInit
             PROVE  IInv
  OBVIOUS
<1>1. TreeAt(0) \in AllTrees
  BY DEF AllTrees
<1>2. generators \in Nat \ {0}
  BY ProvingAssumption DEF ProvingInit
<1>3. \A g \in Active : Started(g) \in GenState /\ TreeLoaded(Started(g))
  <2> SUFFICES ASSUME NEW g \in Active
               PROVE  Started(g) \in GenState /\ TreeLoaded(Started(g))
    OBVIOUS
  <2>1. verified + g + 1 \in Nat \ {0}
    BY <1>2 DEF ProvingInit, Active
  <2> QED BY <2>1, WaitingIsSound DEF Started
<1>4. gen \in [Active -> GenState] /\ \A g \in Active : TreeLoaded(gen[g])
  BY <1>3 DEF ProvingInit
<1>5. DOMAIN cache = {}
  BY DEF ProvingInit
<1>6. SharedTypeOK
  BY <1>1, <1>2, <1>4, <1>5 DEF ProvingInit, SharedTypeOK, GenState
<1>7. TreesRestored
  BY <1>4, <1>5 DEF TreesRestored, TreeLoaded
<1> QED BY <1>6, <1>7 DEF IInv, ProvingInit

LEMMA StepsSound == IInv /\ [ProvingNext]_provingVars => IInv'
<1> SUFFICES ASSUME IInv, [ProvingNext]_provingVars
             PROVE  IInv'
  OBVIOUS
<1>1. ASSUME NEW g \in Active, Generate(g) \/ FailToSave(g)
      PROVE  IInv'
  BY <1>1, CheckKeeps, LoadTreeKeeps, StoreTreeKeeps, SaveKeeps DEF Generate
<1>2. CASE RestartServer
  BY <1>2, RestartKeeps
<1>3. CASE KeeperLoads
  BY <1>3, KeeperLoadsKeeps
<1>4. CASE KeeperStores
  BY <1>4, KeeperStoresKeeps
<1>5. ASSUME NEW p \in Provers,
             \/ Ask(p) \/ Prove(p) \/ GiveUp(p) \/ Publish(p) \/ PublishUnanswered(p)
             \/ Heartbeat(p) \/ Crash(p)
             \/ \E b \in Blocks : Expire(b, p) \/ ExpireLate(b, p)
      PROVE  IInv'
  BY <1>5, ProverKeeps
<1>6. CASE SealBlock \/ TakeProof
  BY <1>6, ServerKeeps
<1>7. CASE UNCHANGED provingVars
  BY <1>7, FrameKeeps DEF provingVars, tables
<1> QED BY <1>1, <1>2, <1>3, <1>4, <1>5, <1>6, <1>7 DEF ProvingNext

\* Whatever the generators and the keeper interleave, whoever restarts or fails, and
\* however the blocks change accounts: load_account_tree (witness_generator.rs, state_keeper
\* init) builds from the cached hashes of another block the tree of its own, and
\* store_account_tree_cache never stores a wrong one.
THEOREM TreesAlwaysRestored == ProvingSpec => []TreesRestored
<1>1. IInv => TreesRestored
  BY DEF IInv
<1> QED BY <1>1, InitSound, StepsSound, PTL DEF ProvingSpec

\* Between the keeper's read of the tables and its insert, which generators may overtake,
\* the row it is going to store stays the tree of the block under whose number it goes in
\* (load_committed_state returns another number than the one it was asked for).
THEOREM KeeperStoresRightRow ==
  ProvingSpec => [](keeper.pc = "store" => keeper.tree = TreeAt(keeper.block))
<1>1. IInv => (keeper.pc = "store" => keeper.tree = TreeAt(keeper.block))
  BY DEF IInv
<1> QED BY <1>1, InitSound, StepsSound, PTL DEF ProvingSpec

-----------------------------------------------------------------------------
(* The work that is shared: witnesses, proofs and jobs *)

\* Those who work on a block, and those of them whose run is not alive.
Holders(b) == {p \in Provers : prover[p].block = b}
Late(b) == {p \in Holders(b) : <<b, p>> \notin runs}

TablesTyped ==
    /\ committed \in 0 .. Cardinality(Blocks) /\ verified \in 0 .. committed
    /\ witnesses \subseteq 1 .. committed /\ proofs \subseteq witnesses
    /\ runs \subseteq Blocks \X Provers
    /\ generators \in 1 .. Generators /\ late \in Nat

CacheTyped == DOMAIN cache \subseteq 1 .. committed /\ \A b \in DOMAIN cache : cache[b] \in Trees

\* A generator is past its check for a block that is sealed.
GeneratorTyped(s, sealed) ==
    /\ s \in [pc : {"check", "load", "store", "save"}, block : Nat \ {0}, tree : Trees]
    /\ s.pc # "check" => s.block <= sealed

GeneratorsTyped ==
    /\ gen = [g \in Active |-> gen[g]]
    /\ \A g \in Active : GeneratorTyped(gen[g], committed)

KeeperTyped ==
    keeper \in [pc : {"up", "store"}, block : 0 .. committed, tree : Trees]

\* A proof is published for a block that has a witness.
ProversTyped ==
    /\ prover \in [Provers -> [pc : {"idle", "data", "publish"}, block : {0} \cup Blocks]]
    /\ \A p \in Provers : prover[p].pc = "publish" => prover[p].block \in witnesses

\* Each prover but one that works on a block without a proof has lost its run to a
\* timeout that came too early.
JobsCounted ==
    \A b \in Blocks :
        /\ IsFiniteSet(Holders(b)) /\ Cardinality(Holders(b)) <= 1 + late
        /\ b \notin proofs => Cardinality(Late(b)) <= late

Work == TablesTyped /\ CacheTyped /\ GeneratorsTyped /\ KeeperTyped /\ ProversTyped /\ JobsCounted

WorkInv == IInv /\ Work

LEMMA BlocksTyped ==
  /\ Cardinality(Blocks) \in Nat /\ Blocks = 1 .. Cardinality(Blocks)
  /\ \A c \in 0 .. Cardinality(Blocks) : 1 .. c \subseteq Blocks /\ 0 .. c \subseteq {0} \cup Blocks
<1>1. Cardinality(Blocks) \in Nat /\ Blocks = 1 .. Cardinality(Blocks)
  BY ProvingAssumption, FS_CardinalityType
<1> DEFINE n == Cardinality(Blocks)
<1>2. n \in Nat
  BY <1>1
<1>3. \A c \in 0 .. n : 1 .. c \subseteq 1 .. n /\ 0 .. c \subseteq {0} \cup 1 .. n
  <2> HIDE DEF n
  <2> QED BY <1>2
<1> QED BY <1>1, <1>3

\* The tree of a block has, for each account, the last block that changed it.
LEMMA TreeTyped ==
  ASSUME NEW b \in 0 .. Cardinality(Blocks)
  PROVE  TreeAt(b) \in Trees
<1> DEFINE Latest(a) == Max({0} \cup {n \in 1 .. b : a \in Changed[n]})
<1>1. b \in Nat /\ 0 .. b \subseteq {0} \cup Blocks
  BY BlocksTyped
<1>2. ASSUME NEW a \in Accounts
      PROVE  Latest(a) \in {0} \cup Blocks
  <2> DEFINE S == {0} \cup {n \in 1 .. b : a \in Changed[n]}
  <2>1. S \subseteq 0 .. b /\ S # {}
    BY <1>1
  <2>2. Max(S) \in S
    BY <1>1, <2>1, MaxIsMember
  <2> QED BY <1>1, <2>1, <2>2
<1> HIDE DEF Latest
<1>3. [a \in Accounts |-> Latest(a)] \in Trees
  BY <1>2 DEF Trees
<1> QED BY <1>3 DEF TreeAt, Latest

LEMMA WorkHolds == WorkInv => SharedWorkSound
<1> SUFFICES ASSUME WorkInv
             PROVE  SharedWorkSound
  OBVIOUS
<1>1. /\ committed \in {0} \cup Blocks /\ verified \in {0} \cup Blocks /\ verified <= committed
  BY BlocksTyped DEF WorkInv, Work, TablesTyped
<1>2. gen \in [Active -> [pc : {"check", "load", "store", "save"}, block : Nat, tree : Trees]]
  <2>1. \A g \in Active :
           gen[g] \in [pc : {"check", "load", "store", "save"}, block : Nat, tree : Trees]
    BY DEF WorkInv, Work, GeneratorsTyped, GeneratorTyped
  <2> QED BY <2>1 DEF WorkInv, Work, GeneratorsTyped
<1>3. keeper \in [pc : {"up", "store"}, block : {0} \cup Blocks, tree : Trees]
  BY BlocksTyped DEF WorkInv, Work, KeeperTyped, TablesTyped
<1>4. ProvingTypeOK
  BY <1>1, <1>2, <1>3 DEF ProvingTypeOK, WorkInv, Work, TablesTyped, CacheTyped, ProversTyped
<1>5. OneProverPerBlock
  BY DEF OneProverPerBlock, WorkInv, Work, JobsCounted, Holders
<1> QED BY <1>4, <1>5 DEF SharedWorkSound

LEMMA WorkInit == ProvingInit => Work
<1> SUFFICES ASSUME ProvingInit
             PROVE  Work
  OBVIOUS
<1>1. TreeAt(0) \in Trees /\ Cardinality(Blocks) \in Nat
  BY TreeTyped, BlocksTyped
<1>2. TablesTyped
  BY <1>1 DEF ProvingInit, TablesTyped
<1>3. CacheTyped
  BY DEF ProvingInit, CacheTyped
<1>4. GeneratorsTyped
  <2>1. generators \in Nat /\ verified = 0 /\ gen = [g \in Active |-> Started(g)]
    BY ProvingAssumption DEF ProvingInit
  <2>2. \A g \in Active : GeneratorTyped(Started(g), committed)
    BY <1>1, <2>1 DEF GeneratorTyped, Started, Waiting, Active
  <2> QED BY <2>1, <2>2 DEF GeneratorsTyped
<1>5. KeeperTyped /\ ProversTyped
  BY <1>1 DEF ProvingInit, KeeperTyped, ProversTyped, Idle
<1>6. JobsCounted
  <2> SUFFICES ASSUME NEW b \in Blocks
               PROVE  /\ IsFiniteSet(Holders(b)) /\ Cardinality(Holders(b)) <= 1 + late
                      /\ Cardinality(Late(b)) <= late
    BY DEF JobsCounted
  <2>1. b # 0 /\ late = 0 /\ \A p \in Provers : prover[p].block = 0
    BY BlocksTyped DEF ProvingInit, Idle
  <2>2. Holders(b) = {} /\ Late(b) = {}
    BY <2>1 DEF Holders, Late
  <2> QED BY <2>1, <2>2, FS_EmptySet
<1> QED BY <1>2, <1>3, <1>4, <1>5, <1>6 DEF Work

\* What a generator has at hand.
LEMMA GeneratorWork ==
  ASSUME WorkInv, NEW g \in Active
  PROVE  /\ GeneratorTyped(gen[g], committed) /\ gen[g].tree \in Trees
         /\ gen[g].block \in Nat \ {0} /\ gen[g].block + generators \in Nat \ {0}
         /\ committed \in Nat /\ generators \in Nat \ {0}
         /\ gen[g].pc # "check" =>
               /\ gen[g].block \in 1 .. committed
               /\ gen[g].block - 1 \in 0 .. committed
               /\ gen[g].block - 1 \in 0 .. Cardinality(Blocks)
<1>1. GeneratorTyped(gen[g], committed) /\ committed \in 0 .. Cardinality(Blocks)
  BY DEF WorkInv, Work, GeneratorsTyped, TablesTyped
<1>2. generators \in Nat \ {0} /\ Cardinality(Blocks) \in Nat
  BY BlocksTyped DEF WorkInv, IInv, SharedTypeOK
<1> QED BY <1>1, <1>2 DEF GeneratorTyped

\* A job is the lowest block, sealed and not verified, without proof and live run.
LEMMA JobIsSealed ==
  ASSUME WorkInv, NEW size, BlockToProve(size) # 0
  PROVE  BlockToProve(size) \in Jobs(size) /\ BlockToProve(size) \in Blocks
<1>1. Jobs(size) # {} /\ BlockToProve(size) = Min(Jobs(size))
  BY DEF BlockToProve
<1>2. /\ committed \in Nat /\ verified \in Nat /\ 1 .. committed \subseteq Blocks
  BY BlocksTyped DEF WorkInv, Work, TablesTyped
<1>3. Jobs(size) \subseteq verified + 1 .. committed
  BY DEF Jobs
<1>4. Min(Jobs(size)) \in Jobs(size)
  <2>1. Jobs(size) \subseteq 0 .. committed
    BY <1>2, <1>3
  <2> QED BY <1>1, <1>2, <2>1, MinIsMember
<1>5. Jobs(size) \subseteq 1 .. committed
  BY <1>2, <1>3
<1> QED BY <1>1, <1>2, <1>4, <1>5

LEMMA TablesNext ==
  ASSUME WorkInv, ProvingNext
  PROVE  TablesTyped'
<1>1. /\ committed \in Nat /\ Cardinality(Blocks) \in Nat /\ verified \in 0 .. committed
      /\ committed <= Cardinality(Blocks) /\ late \in Nat
      /\ Blocks = 1 .. Cardinality(Blocks)
      /\ witnesses \subseteq 1 .. committed /\ proofs \subseteq witnesses
      /\ runs \subseteq Blocks \X Provers /\ generators \in 1 .. Generators
  BY BlocksTyped DEF WorkInv, Work, TablesTyped
<1>2. ASSUME UNCHANGED <<committed, verified, witnesses, proofs, runs, generators, late>>
      PROVE  TablesTyped'
  BY <1>2 DEF WorkInv, Work, TablesTyped
<1>3. ASSUME NEW g \in Active, Generate(g) \/ FailToSave(g)
      PROVE  TablesTyped'
  <2>1. CASE Check(g) \/ LoadTree(g) \/ StoreTree(g) \/ FailToSave(g)
    BY <1>2, <2>1 DEF Check, LoadTree, StoreTree, FailToSave, tables, counters
  <2>2. CASE SaveWitness(g)
    <3>1. /\ UNCHANGED <<committed, verified, proofs, runs, generators, late>>
          /\ witnesses' = witnesses \cup {gen[g].block}
      BY <2>2 DEF SaveWitness, counters
    <3>2. gen[g].block \in 1 .. committed
      BY <2>2, GeneratorWork DEF SaveWitness
    <3> QED BY <3>1, <3>2 DEF WorkInv, Work, TablesTyped
  <2> QED BY <1>3, <2>1, <2>2 DEF Generate
<1>4. CASE RestartServer \/ KeeperLoads \/ KeeperStores
  BY <1>2, <1>4 DEF RestartServer, KeeperLoads, KeeperStores, tables, counters
<1>5. ASSUME NEW p \in Provers,
             \/ Ask(p) \/ Prove(p) \/ GiveUp(p) \/ Publish(p) \/ PublishUnanswered(p)
             \/ Heartbeat(p) \/ Crash(p)
             \/ \E b \in Blocks : Expire(b, p) \/ ExpireLate(b, p)
      PROVE  TablesTyped'
  <2>1. prover[p].block \in {0} \cup Blocks
    BY DEF WorkInv, Work, ProversTyped
  <2>2. CASE Prove(p) \/ GiveUp(p) \/ Crash(p)
    BY <1>2, <2>2 DEF Prove, GiveUp, Crash, tables, counters
  <2>3. CASE Ask(p)
    <3>1. PICK size \in Range(SizeOf) :
             BlockToProve(size) # 0 /\ runs' = runs \cup {<<BlockToProve(size), p>>}
      BY <2>3 DEF Ask
    <3>2. BlockToProve(size) \in Blocks
      BY <3>1, JobIsSealed
    <3>3. UNCHANGED <<committed, verified, witnesses, proofs, generators, late>>
      BY <2>3 DEF Ask, counters
    <3> QED BY <1>1, <3>1, <3>2, <3>3 DEF WorkInv, Work, TablesTyped
  <2>4. CASE Publish(p) \/ PublishUnanswered(p)
    <3>1. /\ UNCHANGED <<committed, verified, witnesses, generators, late>>
          /\ AddProof(prover[p].block) /\ prover[p].pc = "publish"
      BY <2>4 DEF Publish, PublishUnanswered, counters
    <3>2. prover[p].block \in witnesses
      BY <3>1 DEF WorkInv, Work, ProversTyped
    <3> QED BY <1>1, <3>1, <3>2 DEF AddProof, WorkInv, Work, TablesTyped
  <2>5. CASE Heartbeat(p)
    <3>1. /\ UNCHANGED <<committed, verified, witnesses, proofs, generators, late>>
          /\ runs' = runs \cup {<<prover[p].block, p>>} /\ prover[p].block \in Blocks
      BY <2>1, <2>5 DEF Heartbeat, WorkingOn, counters
    <3> QED BY <1>1, <3>1 DEF WorkInv, Work, TablesTyped
  <2>6. ASSUME NEW b \in Blocks, Expire(b, p) \/ ExpireLate(b, p)
        PROVE  TablesTyped'
    <3>1. /\ UNCHANGED <<committed, verified, witnesses, proofs, generators>>
          /\ runs' \subseteq runs /\ late' \in Nat
      BY <1>1, <2>6 DEF Expire, ExpireLate, counters
    <3> QED BY <1>1, <3>1 DEF WorkInv, Work, TablesTyped
  <2> QED BY <1>5, <2>2, <2>3, <2>4, <2>5, <2>6
<1>6. CASE SealBlock
  <2>1. /\ committed < Cardinality(Blocks) /\ committed' = committed + 1
        /\ UNCHANGED <<verified, witnesses, proofs, runs, generators, late>>
    BY <1>6 DEF SealBlock, counters
  <2>2. 1 .. committed \subseteq 1 .. committed'
    BY <1>1, <2>1
  <2> QED BY <1>1, <2>1, <2>2 DEF TablesTyped
<1>7. CASE TakeProof
  <2>1. /\ verified + 1 \in proofs /\ verified' = verified + 1
        /\ UNCHANGED <<committed, witnesses, proofs, runs, generators, late>>
    BY <1>7 DEF TakeProof, counters
  <2>2. verified + 1 \in 1 .. committed
    BY <1>1, <2>1
  <2> QED BY <1>1, <2>1, <2>2 DEF TablesTyped
<1> QED BY <1>3, <1>4, <1>5, <1>6, <1>7 DEF ProvingNext

LEMMA CacheNext ==
  ASSUME WorkInv, ProvingNext, TablesTyped'
  PROVE  CacheTyped'
<1>1. /\ DOMAIN cache \subseteq 1 .. committed /\ \A b \in DOMAIN cache : cache[b] \in Trees
      /\ committed \in Nat /\ committed' \in Nat /\ IInv
      /\ committed \in 0 .. Cardinality(Blocks)
  BY BlocksTyped DEF WorkInv, Work, CacheTyped, TablesTyped
<1>2. committed <= committed' /\ 1 .. committed \subseteq 1 .. committed'
  <2>1. committed' = committed \/ committed' = committed + 1
    BY DEF ProvingNext, Generate, Check, LoadTree, StoreTree, SaveWitness, FailToSave, RestartServer,
       KeeperLoads, KeeperStores, Ask, Prove, GiveUp, Publish, PublishUnanswered, Heartbeat,
       Crash, Expire, ExpireLate, SealBlock, TakeProof, tables
  <2> QED BY <1>1, <2>1
<1>3. ASSUME UNCHANGED cache
      PROVE  CacheTyped'
  BY <1>1, <1>2, <1>3 DEF CacheTyped
<1>4. ASSUME NEW b \in 0 .. committed, NEW tree \in Trees, Store(b, tree)
      PROVE  CacheTyped'
  BY <1>1, <1>2, <1>4 DEF CacheTyped, Store
<1>5. ASSUME NEW g \in Active, StoreTree(g)
      PROVE  CacheTyped'
  <2>1. gen[g].tree \in Trees /\ gen[g].block - 1 \in 0 .. committed
    BY <1>5, GeneratorWork DEF StoreTree
  <2> QED BY <1>3, <1>4, <1>5, <2>1 DEF StoreTree
<1>6. CASE KeeperStores
  <2>1. keeper.block \in 0 .. committed /\ keeper.tree \in Trees
    BY DEF WorkInv, Work, KeeperTyped
  <2> QED BY <1>3, <1>4, <1>6, <2>1 DEF KeeperStores
<1>7. CASE ~ KeeperStores /\ ~ \E g \in Active : StoreTree(g)
  <2>1. UNCHANGED cache
    BY <1>7 DEF ProvingNext, Generate, Check, LoadTree, SaveWitness, FailToSave, RestartServer,
       KeeperLoads, Ask, Prove, GiveUp, Publish, PublishUnanswered, Heartbeat,
       Crash, Expire, ExpireLate, SealBlock, TakeProof, tables
  <2> QED BY <1>3, <2>1
<1> QED BY <1>5, <1>6, <1>7

\* A generator's state while more blocks may be sealed.
LEMMA GeneratorLater ==
  ASSUME NEW s, NEW m \in Nat, NEW n \in Nat, m <= n, GeneratorTyped(s, m)
  PROVE  GeneratorTyped(s, n)
BY DEF GeneratorTyped

LEMMA GeneratorsNext ==
  ASSUME WorkInv, ProvingNext
  PROVE  GeneratorsTyped'
<1>1. /\ gen = [g \in Active |-> gen[g]] /\ committed \in Nat /\ IInv
      /\ \A g \in Active : GeneratorTyped(gen[g], committed)
      /\ TreeAt(0) \in Trees
  BY BlocksTyped, TreeTyped DEF WorkInv, Work, GeneratorsTyped, TablesTyped
<1>2. \A b \in Nat \ {0} : GeneratorTyped(Waiting(b), committed)
  BY <1>1 DEF GeneratorTyped, Waiting
<1>3. ASSUME NEW g \in Active, NEW s, GeneratorTyped(s, committed),
             gen' = [gen EXCEPT ![g] = s], UNCHANGED <<committed, generators>>
      PROVE  GeneratorsTyped'
  BY <1>1, <1>3 DEF GeneratorsTyped, Active
<1>4. ASSUME UNCHANGED <<gen, generators>>, committed' \in Nat, committed <= committed'
      PROVE  GeneratorsTyped'
  BY <1>1, <1>4, GeneratorLater DEF GeneratorsTyped, Active
<1>5. ASSUME NEW g \in Active, Check(g)
      PROVE  GeneratorsTyped'
  <2>1. /\ UNCHANGED <<committed, generators>> /\ gen[g].block <= committed
        /\ gen' = [gen EXCEPT ![g] = IF gen[g].block \in witnesses THEN Follow(g)
                                     ELSE [gen[g] EXCEPT !.pc = "load"]]
    BY <1>5 DEF Check, tables
  <2> DEFINE s == [gen[g] EXCEPT !.pc = "load"]
  <2>2. GeneratorTyped(Follow(g), committed)
    BY <1>2, GeneratorWork DEF Follow
  <2>3. GeneratorTyped(s, committed)
    BY <1>1, <2>1 DEF GeneratorTyped
  <2> HIDE DEF s
  <2>4. CASE gen[g].block \in witnesses
    BY <1>3, <2>1, <2>2, <2>4
  <2>5. CASE gen[g].block \notin witnesses
    <3>1. gen' = [gen EXCEPT ![g] = s]
      BY <2>1, <2>5 DEF s
    <3> QED BY <1>3, <2>1, <2>3, <3>1
  <2> QED BY <2>4, <2>5
<1>6. ASSUME NEW g \in Active, LoadTree(g)
      PROVE  GeneratorsTyped'
  <2> DEFINE b == gen[g].block - 1
             tree == IF Cached = {} THEN TreeAt(b) ELSE Restored(b, Max(Cached))
             s == [gen[g] EXCEPT !.tree = tree, !.pc = IF b \in Cached THEN "save" ELSE "store"]
  <2>1. /\ UNCHANGED <<committed, generators>> /\ gen[g].pc = "load"
        /\ gen' = [gen EXCEPT ![g].tree = tree,
                              ![g].pc = IF b \in Cached THEN "save" ELSE "store"]
    BY <1>6 DEF LoadTree, tables
  <2>2. b \in Nat /\ b \in 0 .. Cardinality(Blocks) /\ gen[g].block <= committed
    BY <2>1, GeneratorWork
  <2>3. tree \in Trees
    <3>1. TreeAt(b) \in Trees
      BY <2>2, TreeTyped
    <3>2. Cached # {} => Restored(b, Max(Cached)) = TreeAt(b)
      <4> SUFFICES ASSUME Cached # {}
                   PROVE  Restored(b, Max(Cached)) = TreeAt(b)
        OBVIOUS
      <4>1. Max(Cached) \in Nat /\ cache[Max(Cached)] = TreeAt(Max(Cached))
        BY <1>1, CachedIsTree
      <4> HIDE DEF b
      <4> QED BY <2>2, <4>1, RestoredIsTree
    <3> QED BY <3>1, <3>2
  <2> HIDE DEF tree
  <2>4. gen[g] \in [pc : {"check", "load", "store", "save"}, block : Nat \ {0}, tree : Trees]
    BY <1>1 DEF GeneratorTyped
  <2>5. GeneratorTyped(s, committed)
    BY <2>2, <2>3, <2>4 DEF GeneratorTyped
  <2>6. gen' = [gen EXCEPT ![g] = s]
    BY <1>1, <2>1, <2>4
  <2> HIDE DEF s
  <2> QED BY <1>3, <2>1, <2>5, <2>6
<1>7. ASSUME NEW g \in Active, StoreTree(g)
      PROVE  GeneratorsTyped'
  <2> DEFINE s == [gen[g] EXCEPT !.pc = "save"]
  <2>1. UNCHANGED <<committed, generators>> /\ gen[g].pc = "store"
    BY <1>7 DEF StoreTree
  <2>2. gen' = [gen EXCEPT ![g] = s] \/ gen' = [gen EXCEPT ![g] = Waiting((gen[g].block - 1) + 1)]
    BY <1>7 DEF StoreTree
  <2>3. GeneratorTyped(s, committed)
    BY <1>1, <2>1 DEF GeneratorTyped
  <2>4. GeneratorTyped(Waiting((gen[g].block - 1) + 1), committed)
    <3>1. (gen[g].block - 1) + 1 \in Nat \ {0}
      BY GeneratorWork
    <3> QED BY <1>2, <3>1
  <2> HIDE DEF s
  <2> QED BY <1>3, <2>1, <2>2, <2>3, <2>4
<1>8. ASSUME NEW g \in Active, SaveWitness(g) \/ FailToSave(g)
      PROVE  GeneratorsTyped'
  <2>1. UNCHANGED <<committed, generators>>
    BY <1>8 DEF SaveWitness, FailToSave, tables
  <2>2. PICK b \in Nat \ {0} : gen' = [gen EXCEPT ![g] = Waiting(b)]
    BY <1>8, GeneratorWork DEF SaveWitness, FailToSave, Follow
  <2> QED BY <1>2, <1>3, <2>1, <2>2
<1>9. CASE RestartServer
  <2>1. UNCHANGED <<committed, verified, generators>> /\ gen' = [g \in Active |-> Started(g)]
    BY <1>9 DEF RestartServer, tables
  <2>2. ASSUME NEW g \in Active
        PROVE  GeneratorTyped(Started(g), committed)
    <3>1. verified + g + 1 \in Nat \ {0}
      BY DEF IInv, WorkInv, SharedTypeOK, Active
    <3> QED BY <1>2, <3>1 DEF Started
  <2> QED BY <2>1, <2>2 DEF GeneratorsTyped, Active
<1>10. CASE KeeperLoads \/ KeeperStores \/ SealBlock \/ TakeProof
  <2>1. UNCHANGED <<gen, generators>> /\ committed' \in Nat /\ committed <= committed'
    BY <1>1, <1>10 DEF KeeperLoads, KeeperStores, SealBlock, TakeProof, tables
  <2> QED BY <1>4, <2>1
<1>11. ASSUME NEW p \in Provers,
             \/ Ask(p) \/ Prove(p) \/ GiveUp(p) \/ Publish(p) \/ PublishUnanswered(p)
             \/ Heartbeat(p) \/ Crash(p)
             \/ \E b \in Blocks : Expire(b, p) \/ ExpireLate(b, p)
      PROVE  GeneratorsTyped'
  <2>1. UNCHANGED <<gen, generators, committed>>
    BY <1>11 DEF Ask, Prove, GiveUp, Publish, PublishUnanswered, Heartbeat, Crash, Expire,
       ExpireLate, tables
  <2>2. committed' \in Nat /\ committed <= committed'
    BY <1>1, <2>1
  <2> QED BY <1>4, <2>1, <2>2
<1> QED BY <1>5, <1>6, <1>7, <1>8, <1>9, <1>10, <1>11 DEF ProvingNext, Generate

\* load_committed_state never names a block that is not sealed.
LEMMA LoadedIsSealed ==
  ASSUME WorkInv, NEW b \in 0 .. committed
  PROVE  LoadedNumber(b) \in 0 .. committed
<1> DEFINE updated == {n \in Earlier(verified, b) + 1 .. Later(verified, b) : Changed[n] # {}}
<1>1. verified \in 0 .. committed /\ committed \in Nat
  BY BlocksTyped DEF WorkInv, Work, TablesTyped
<1>2. CASE updated = {} \/ verified > b
  BY <1>1, <1>2 DEF LoadedNumber
<1>3. CASE updated # {} /\ verified <= b
  <2>1. updated \subseteq 0 .. b
    BY <1>1, <1>3 DEF Earlier, Later
  <2>2. Max(updated) \in 0 .. b
    BY <1>1, <1>3, <2>1, MaxIsMember
  <2>3. LoadedNumber(b) = Max(updated)
    BY <1>3 DEF LoadedNumber
  <2> HIDE DEF updated
  <2> QED BY <1>1, <2>2, <2>3
<1> QED BY <1>1, <1>2, <1>3

LEMMA KeeperNext ==
  ASSUME WorkInv, ProvingNext
  PROVE  KeeperTyped'
<1>1. /\ keeper \in [pc : {"up", "store"}, block : 0 .. committed, tree : Trees]
      /\ committed \in Nat /\ committed \in 0 .. Cardinality(Blocks) /\ IInv
      /\ verified \in 0 .. committed /\ Cardinality(Blocks) \in Nat
      /\ DOMAIN cache \subseteq 1 .. committed
  BY BlocksTyped DEF WorkInv, Work, KeeperTyped, TablesTyped, CacheTyped
<1>2. CASE KeeperLoads
  <2> DEFINE wanted == IF Cached = {} THEN verified ELSE Max(Cached)
  <2>1. committed' = committed
    BY <1>2 DEF KeeperLoads, tables
  <2>2. keeper' = [pc |-> "store", block |-> LoadedNumber(wanted), tree |-> TreeAt(wanted)]
    BY <1>2 DEF KeeperLoads
  <2>3. wanted \in 0 .. committed
    <3>1. Cached # {} => Max(Cached) \in DOMAIN cache
      BY <1>1, CachedIsTree
    <3> QED BY <1>1, <3>1
  <2> HIDE DEF wanted
  <2>4. LoadedNumber(wanted) \in 0 .. committed
    BY <2>3, LoadedIsSealed
  <2>5. TreeAt(wanted) \in Trees
    <3>1. wanted \in 0 .. Cardinality(Blocks)
      BY <1>1, <2>3
    <3> QED BY <3>1, TreeTyped
  <2> QED BY <2>1, <2>2, <2>4, <2>5 DEF KeeperTyped
<1>3. CASE KeeperStores
  <2>1. committed' = committed /\ keeper' = [keeper EXCEPT !.pc = "up"]
    BY <1>3 DEF KeeperStores
  <2> QED BY <1>1, <2>1 DEF KeeperTyped
<1>4. CASE SealBlock
  <2>1. keeper' = keeper /\ committed' = committed + 1
    BY <1>4 DEF SealBlock
  <2>2. 0 .. committed \subseteq 0 .. committed'
    BY <1>1, <2>1
  <2> QED BY <1>1, <2>1, <2>2 DEF KeeperTyped
<1>5. ASSUME UNCHANGED <<keeper, committed>>
      PROVE  KeeperTyped'
  BY <1>1, <1>5 DEF KeeperTyped
<1>6. CASE ~ KeeperLoads /\ ~ KeeperStores /\ ~ SealBlock
  <2>1. UNCHANGED <<keeper, committed>>
    BY <1>6 DEF ProvingNext, Generate, Check, LoadTree, StoreTree, SaveWitness, FailToSave, RestartServer,
       Ask, Prove, GiveUp, Publish, PublishUnanswered, Heartbeat,
       Crash, Expire, ExpireLate, TakeProof, tables
  <2> QED BY <1>5, <2>1
<1> QED BY <1>2, <1>3, <1>4, <1>6

ProverState == [pc : {"idle", "data", "publish"}, block : {0} \cup Blocks]

LEMMA ProversNext ==
  ASSUME WorkInv, ProvingNext
  PROVE  ProversTyped'
<1>1. /\ prover \in [Provers -> ProverState]
      /\ \A p \in Provers : prover[p].pc = "publish" => prover[p].block \in witnesses
  BY DEF WorkInv, Work, ProversTyped, ProverState
<1>2. witnesses \subseteq witnesses'
  BY DEF ProvingNext, Generate, Check, LoadTree, StoreTree, SaveWitness, FailToSave, RestartServer,
     KeeperLoads, KeeperStores, Ask, Prove, GiveUp, Publish, PublishUnanswered, Heartbeat,
     Crash, Expire, ExpireLate, SealBlock, TakeProof, tables
<1>3. ASSUME UNCHANGED prover
      PROVE  ProversTyped'
  BY <1>1, <1>2, <1>3 DEF ProversTyped, ProverState
<1>4. ASSUME NEW p \in Provers, NEW s \in ProverState, prover' = [prover EXCEPT ![p] = s],
             s.pc = "publish" => s.block \in witnesses
      PROVE  ProversTyped'
  BY <1>1, <1>2, <1>4 DEF ProversTyped, ProverState
<1>5. Idle \in ProverState /\ Idle.pc # "publish"
  BY DEF Idle, ProverState
<1>6. ASSUME NEW p \in Provers, Ask(p)
      PROVE  ProversTyped'
  <2>1. PICK size \in Range(SizeOf) :
           /\ BlockToProve(size) # 0
           /\ prover' = [prover EXCEPT ![p] = [pc |-> "data", block |-> BlockToProve(size)]]
    BY <1>6 DEF Ask
  <2>2. BlockToProve(size) \in Blocks
    BY <2>1, JobIsSealed
  <2> DEFINE s == [pc |-> "data", block |-> BlockToProve(size)]
  <2>3. s \in ProverState /\ s.pc # "publish"
    BY <2>2 DEF ProverState
  <2> HIDE DEF s
  <2>4. prover' = [prover EXCEPT ![p] = s]
    BY <2>1 DEF s
  <2> QED BY <1>4, <2>3, <2>4
<1>7. ASSUME NEW p \in Provers, Prove(p)
      PROVE  ProversTyped'
  <2> DEFINE s == [prover[p] EXCEPT !.pc = "publish"]
  <2>1. prover' = [prover EXCEPT ![p] = s] /\ prover[p].block \in witnesses
    BY <1>7 DEF Prove, HasWitness
  <2>2. s \in ProverState /\ s.block = prover[p].block
    BY <1>1 DEF ProverState
  <2> HIDE DEF s
  <2> QED BY <1>4, <2>1, <2>2
<1>8. ASSUME NEW p \in Provers, GiveUp(p) \/ Publish(p) \/ Crash(p)
      PROVE  ProversTyped'
  <2>1. prover' = [prover EXCEPT ![p] = Idle]
    BY <1>8 DEF GiveUp, Publish, Crash
  <2> QED BY <1>4, <1>5, <2>1
<1>9. ASSUME NEW p \in Provers,
             \/ PublishUnanswered(p) \/ Heartbeat(p)
             \/ \E b \in Blocks : Expire(b, p) \/ ExpireLate(b, p)
      PROVE  ProversTyped'
  BY <1>3, <1>9 DEF PublishUnanswered, Heartbeat, Expire, ExpireLate
<1>10. ASSUME NEW g \in Active, Generate(g) \/ FailToSave(g)
       PROVE  ProversTyped'
  BY <1>3, <1>10 DEF Generate, Check, LoadTree, StoreTree, SaveWitness, FailToSave
<1>11. CASE RestartServer \/ KeeperLoads \/ KeeperStores \/ SealBlock \/ TakeProof
  BY <1>3, <1>11 DEF RestartServer, KeeperLoads, KeeperStores, SealBlock, TakeProof
<1> QED BY <1>6, <1>7, <1>8, <1>9, <1>10, <1>11 DEF ProvingNext

\* A set with one element more is finite, and its size grows by one at most.
LEMMA OneMore ==
  ASSUME NEW S, NEW x, IsFiniteSet(S)
  PROVE  /\ IsFiniteSet(S \cup {x})
         /\ Cardinality(S \cup {x}) <= Cardinality(S) + 1
         /\ Cardinality(S \cup {x}) \in Nat
<1>1. /\ IsFiniteSet(S \cup {x})
      /\ Cardinality(S \cup {x}) = IF x \in S THEN Cardinality(S) ELSE Cardinality(S) + 1
  BY FS_AddElement
<1>2. Cardinality(S) \in Nat
  BY FS_CardinalityType
<1> QED BY <1>1, <1>2

\* One prover more, or one fewer, works on a block.
LEMMA JobsCountedNext ==
  ASSUME WorkInv, ProvingNext
  PROVE  JobsCounted'
<1> SUFFICES ASSUME NEW b \in Blocks
             PROVE  /\ IsFiniteSet(Holders(b)') /\ Cardinality(Holders(b)') <= 1 + late'
                    /\ b \notin proofs' => Cardinality(Late(b)') <= late'
  BY DEF JobsCounted
<1>1. /\ IsFiniteSet(Holders(b)) /\ Cardinality(Holders(b)) <= 1 + late
      /\ b \notin proofs => Cardinality(Late(b)) <= late
      /\ late \in Nat /\ b # 0
      /\ prover \in [Provers -> ProverState]
  BY BlocksTyped DEF WorkInv, Work, JobsCounted, TablesTyped, ProversTyped, ProverState
<1>2. /\ Late(b) \subseteq Holders(b) /\ IsFiniteSet(Late(b))
      /\ Cardinality(Holders(b)) \in Nat /\ Cardinality(Late(b)) \in Nat
  <2>1. Late(b) \subseteq Holders(b)
    BY DEF Late
  <2> QED BY <1>1, <2>1, FS_Subset, FS_CardinalityType
\* Nobody joins, and no run of those at work is lost.
<1>3. ASSUME Holders(b)' \subseteq Holders(b), proofs \subseteq proofs', late' = late,
             b \notin proofs' => Late(b)' \subseteq Late(b)
      PROVE  /\ IsFiniteSet(Holders(b)') /\ Cardinality(Holders(b)') <= 1 + late'
             /\ b \notin proofs' => Cardinality(Late(b)') <= late'
  <2>1. /\ IsFiniteSet(Holders(b)') /\ Cardinality(Holders(b)') <= Cardinality(Holders(b))
        /\ Cardinality(Holders(b)') \in Nat
    BY <1>1, <1>3, FS_Subset, FS_CardinalityType
  <2>2. b \notin proofs' => /\ Cardinality(Late(b)') <= Cardinality(Late(b))
                            /\ Cardinality(Late(b)') \in Nat
    BY <1>2, <1>3, FS_Subset, FS_CardinalityType
  <2> QED BY <1>1, <1>2, <1>3, <2>1, <2>2
<1>4. ASSUME UNCHANGED <<prover, runs, proofs, late>>
      PROVE  /\ IsFiniteSet(Holders(b)') /\ Cardinality(Holders(b)') <= 1 + late'
             /\ b \notin proofs' => Cardinality(Late(b)') <= late'
  BY <1>3, <1>4 DEF Holders, Late
<1>5. CASE \E p \in Provers : Ask(p)
  <2>1. PICK p \in Provers : Ask(p)
    BY <1>5
  <2>2. PICK size \in Range(SizeOf) :
           /\ BlockToProve(size) # 0
           /\ prover' = [prover EXCEPT ![p] = [pc |-> "data", block |-> BlockToProve(size)]]
           /\ runs' = runs \cup {<<BlockToProve(size), p>>}
    BY <2>1 DEF Ask
  <2>3. UNCHANGED <<proofs, late>>
    BY <2>1 DEF Ask, counters
  <2>4. BlockToProve(size) \in Jobs(size)
    BY <2>2, JobIsSealed
  <2> PICK job : job = BlockToProve(size)
    OBVIOUS
  <2>5. /\ job \notin proofs /\ \A q \in Provers : <<job, q>> \notin runs
    BY <2>4 DEF Jobs
  <2>6. /\ prover'[p].block = job
        /\ \A q \in Provers : q # p => prover'[q] = prover[q]
    BY <1>1, <2>2
  <2>7. CASE job # b
    <3>1. Holders(b)' \subseteq Holders(b)
      BY <2>6, <2>7 DEF Holders
    <3>2. Late(b)' \subseteq Late(b)
      BY <2>2, <3>1 DEF Late
    <3> QED BY <1>3, <2>3, <3>1, <3>2
  <2>8. CASE job = b
    <3>1. Late(b) = Holders(b)
      <4>1. \A q \in Holders(b) : <<b, q>> \notin runs
        BY <2>5, <2>8 DEF Holders
      <4> QED BY <4>1 DEF Late
    <3>2. Holders(b)' \subseteq Holders(b) \cup {p}
      BY <2>6 DEF Holders
    <3>3. Late(b)' \subseteq Late(b)
      BY <2>2, <2>8, <3>2, <3>1 DEF Late
    <3>4. IsFiniteSet(Holders(b) \cup {p}) /\ Cardinality(Holders(b) \cup {p}) <= 1 + late
      <4>1. Cardinality(Holders(b)) <= late
        BY <1>1, <2>5, <2>8, <3>1
      <4>2. /\ IsFiniteSet(Holders(b) \cup {p})
            /\ \/ Cardinality(Holders(b) \cup {p}) = Cardinality(Holders(b))
               \/ Cardinality(Holders(b) \cup {p}) = Cardinality(Holders(b)) + 1
        BY <1>1, FS_AddElement
      <4> QED BY <1>1, <1>2, <4>1, <4>2
    <3>5. /\ IsFiniteSet(Holders(b)') /\ Cardinality(Holders(b)') \in Nat
          /\ Cardinality(Holders(b)') <= Cardinality(Holders(b) \cup {p})
          /\ Cardinality(Holders(b) \cup {p}) \in Nat
      BY <3>2, <3>4, FS_Subset, FS_CardinalityType
    <3>6. Cardinality(Late(b)') <= Cardinality(Late(b)) /\ Cardinality(Late(b)') \in Nat
      BY <1>2, <3>3, FS_Subset, FS_CardinalityType
    <3> QED BY <1>1, <1>2, <2>3, <3>4, <3>5, <3>6
  <2> QED BY <2>7, <2>8
<1>6. CASE \E p \in Provers : Prove(p) \/ GiveUp(p) \/ Crash(p)
  <2>1. PICK p \in Provers : Prove(p) \/ GiveUp(p) \/ Crash(p)
    BY <1>6
  <2>2. UNCHANGED <<proofs, runs, late>>
    BY <2>1 DEF Prove, GiveUp, Crash, tables, counters
  <2>3. \A q \in Provers : prover'[q].block = prover[q].block \/ prover'[q].block = 0
    BY <1>1, <2>1 DEF Prove, GiveUp, Crash, Idle, ProverState
  <2>4. Holders(b)' \subseteq Holders(b)
    BY <1>1, <2>3 DEF Holders
  <2> QED BY <1>3, <2>2, <2>4 DEF Late
<1>7. CASE \E p \in Provers : Publish(p) \/ PublishUnanswered(p)
  <2>1. PICK p \in Provers : Publish(p) \/ PublishUnanswered(p)
    BY <1>7
  <2>2. AddProof(prover[p].block) /\ late' = late
    BY <2>1 DEF Publish, PublishUnanswered, counters
  <2>3. \A q \in Provers : prover'[q].block = prover[q].block \/ prover'[q].block = 0
    BY <1>1, <2>1 DEF Publish, PublishUnanswered, Idle
  <2>4. Holders(b)' \subseteq Holders(b)
    BY <1>1, <2>3 DEF Holders
  <2>5. proofs \subseteq proofs' /\ prover[p].block \in proofs'
    BY <2>2 DEF AddProof
  <2>6. b \notin proofs' => Late(b)' \subseteq Late(b)
    <3> SUFFICES ASSUME b \notin proofs', NEW q \in Late(b)'
                 PROVE  q \in Late(b)
      OBVIOUS
    <3>1. q \in Holders(b) /\ <<b, q>> \notin runs'
      BY <2>4 DEF Late
    <3>2. b # prover[p].block
      BY <2>5
    <3>3. <<b, q>> \notin runs
      BY <2>2, <3>1, <3>2 DEF AddProof
    <3> QED BY <3>1, <3>3 DEF Late
  <2> QED BY <1>3, <2>2, <2>4, <2>5, <2>6
<1>8. CASE \E p \in Provers : Heartbeat(p)
  <2>1. UNCHANGED <<prover, proofs, late>> /\ runs \subseteq runs'
    BY <1>8 DEF Heartbeat, WorkingOn, counters
  <2> QED BY <1>3, <2>1 DEF Holders, Late
<1>9. CASE \E p \in Provers, c \in Blocks : Expire(c, p)
  <2>1. PICK p \in Provers, c \in Blocks : Expire(c, p)
    BY <1>9
  <2>2. /\ UNCHANGED <<prover, proofs, late>> /\ runs' = runs \ {<<c, p>>}
        /\ prover[p].block # c
    BY <2>1 DEF Expire, counters
  <2>3. Holders(b)' = Holders(b)
    BY <2>2 DEF Holders
  <2>4. Late(b)' \subseteq Late(b)
    BY <2>2, <2>3 DEF Holders, Late
  <2> QED BY <1>3, <2>2, <2>3, <2>4
<1>10. CASE \E p \in Provers, c \in Blocks : ExpireLate(c, p)
  <2>1. PICK p \in Provers, c \in Blocks : ExpireLate(c, p)
    BY <1>10
  <2>2. UNCHANGED <<prover, proofs>> /\ runs' = runs \ {<<c, p>>} /\ late' = late + 1
    BY <2>1 DEF ExpireLate
  <2>3. Holders(b)' = Holders(b)
    BY <2>2 DEF Holders
  <2>4. Late(b)' \subseteq Late(b) \cup {p}
    BY <2>2, <2>3 DEF Late
  <2>5. /\ IsFiniteSet(Late(b) \cup {p})
        /\ Cardinality(Late(b) \cup {p}) <= Cardinality(Late(b)) + 1
        /\ Cardinality(Late(b) \cup {p}) \in Nat
    BY <1>2, OneMore, Zenon
  <2>6. Cardinality(Late(b)') <= Cardinality(Late(b) \cup {p}) /\ Cardinality(Late(b)') \in Nat
    BY <2>4, <2>5, FS_Subset, FS_CardinalityType
  <2> QED BY <1>1, <1>2, <2>2, <2>3, <2>5, <2>6
<1>11. CASE \E g \in Active : Generate(g) \/ FailToSave(g)
  <2>1. UNCHANGED <<prover, runs, proofs, late>>
    BY <1>11 DEF Generate, Check, LoadTree, StoreTree, SaveWitness, FailToSave, tables, counters
  <2> QED BY <1>4, <2>1
<1>12. CASE RestartServer \/ KeeperLoads \/ KeeperStores \/ SealBlock \/ TakeProof
  BY <1>4, <1>12 DEF RestartServer, KeeperLoads, KeeperStores, SealBlock, TakeProof, tables, counters
<1> QED BY <1>5, <1>6, <1>7, <1>8, <1>9, <1>10, <1>11, <1>12 DEF ProvingNext

LEMMA WorkStutter ==
  ASSUME Work, UNCHANGED provingVars
  PROVE  Work'
<1>1. /\ UNCHANGED <<committed, verified, witnesses, cache, proofs, runs, generators>>
      /\ UNCHANGED <<gen, keeper, prover, faults, late>>
  BY DEF provingVars, tables, counters
<1>2. TablesTyped' /\ CacheTyped' /\ KeeperTyped'
  BY <1>1 DEF Work, TablesTyped, CacheTyped, KeeperTyped
<1>3. GeneratorsTyped' /\ ProversTyped'
  BY <1>1 DEF Work, GeneratorsTyped, ProversTyped, Active
<1>4. JobsCounted'
  BY <1>1 DEF Work, JobsCounted, Holders, Late
<1> QED BY <1>2, <1>3, <1>4 DEF Work

LEMMA WorkNext == WorkInv /\ [ProvingNext]_provingVars => WorkInv'
<1> SUFFICES ASSUME WorkInv, [ProvingNext]_provingVars
             PROVE  WorkInv'
  OBVIOUS
<1>1. IInv'
  BY StepsSound DEF WorkInv
<1>2. CASE ProvingNext
  <2>1. TablesTyped'
    BY <1>2, TablesNext
  <2>2. CacheTyped'
    BY <1>2, <2>1, CacheNext
  <2> QED BY <1>1, <1>2, <2>1, <2>2, GeneratorsNext, KeeperNext, ProversNext, JobsCountedNext
          DEF WorkInv, Work
<1>3. CASE UNCHANGED provingVars
  BY <1>1, <1>3, WorkStutter DEF WorkInv
<1> QED BY <1>2, <1>3

\* What the tables say agrees with what generators and provers do: a proof has a witness and
\* a witness a sealed block, and a block is proved by one prover at a time but for the jobs
\* that timed out too early (prover_run_for_next_commit, witness_generator.rs), for every
\* number of generators and provers and whatever crashes, stops or is refused.
THEOREM SharedWorkIsSound == ProvingSpec => []SharedWorkSound
<1>1. ProvingInit => WorkInv
  BY InitSound, WorkInit DEF WorkInv
<1> QED BY <1>1, WorkNext, WorkHolds, PTL DEF ProvingSpec

-----------------------------------------------------------------------------
(* The folds of the contract, operation after operation *)

Numbered(n) == [s \in SUBSET (1 .. n) |-> Max(s)]

SelectedEquation(g, s, K) ==
  g = [d \in SUBSET DOMAIN s |->
         IF d = {} THEN <<>>
         ELSE IF s[Max(d)] \in K THEN Append(g[d \ {Max(d)}], s[Max(d)]) ELSE g[d \ {Max(d)}]]

\* A selection is the fold that the community modules define.
LEMMA SelectedUnfolds ==
  ASSUME NEW s, NEW K
  PROVE  Selected(s, K) = (CHOOSE g : SelectedEquation(g, s, K))[DOMAIN s]
BY Zenon DEF Selected, FoldLeft, MapThenFoldSet, SelectedEquation

ApplyEquation(g, l2, ops) ==
  g = [d \in SUBSET DOMAIN ops |->
         IF d = {} THEN l2 ELSE Apply(g[d \ {Max(d)}], ops[Max(d)])]

\* So are the balances after the operations of a block ...
LEMMA ApplyUnfolds ==
  ASSUME NEW l2, NEW ops
  PROVE  FoldLeft(Apply, l2, ops) = (CHOOSE g : ApplyEquation(g, l2, ops))[DOMAIN ops]
BY Zenon DEF FoldLeft, MapThenFoldSet, ApplyEquation

StoreEquation(g, balances, data) ==
  g = [d \in SUBSET DOMAIN data |->
         IF d = {} THEN balances ELSE StoreBalance(g[d \ {Max(d)}], data[Max(d)])]

\* ... and the balances to withdraw after its withdrawals.
LEMMA StoreUnfolds ==
  ASSUME NEW balances, NEW data
  PROVE  FoldLeft(StoreBalance, balances, data)
           = (CHOOSE g : StoreEquation(g, balances, data))[DOMAIN data]
BY Zenon DEF FoldLeft, MapThenFoldSet, StoreEquation

\* Counts how many of the first elements are selected: the next of them is at
\* the next position of the selection.
Selects(count, s, K) ==
  /\ count \in [0 .. Len(s) -> 0 .. Len(Selected(s, K))]
  /\ count[0] = 0
  /\ count[Len(s)] = Len(Selected(s, K))
  /\ \A i \in 1 .. Len(s) :
        IF s[i] \in K THEN count[i] = count[i - 1] + 1 /\ Selected(s, K)[count[i]] = s[i]
        ELSE count[i] = count[i - 1]

SelectionTrace(t, V, s, K) ==
  /\ t \in [0 .. Len(s) -> Seq(V)]
  /\ t[0] = <<>>
  /\ \A i \in 1 .. Len(s) : t[i] = IF s[i] \in K THEN Append(t[i - 1], s[i]) ELSE t[i - 1]
  /\ t[Len(s)] = Selected(s, K)

\* A selection is made element after element.
LEMMA SelectedHasTrace ==
  ASSUME NEW V, NEW s \in Seq(V), NEW K
  PROVE  \E t : SelectionTrace(t, V, s, K)
<1> DEFINE n == Len(s)
           step == [p \in Seq(V) \X (1 .. n) |->
                      IF s[p[2]] \in K THEN Append(p[1], s[p[2]]) ELSE p[1]]
           choose == Numbered(n)
           G == CHOOSE g : SelectedEquation(g, s, K)
<1>0. n \in Nat /\ DOMAIN s = 1 .. n /\ IsFiniteSet(1 .. n) /\ \A i \in 1 .. n : s[i] \in V
  BY LenProperties, FS_Interval, ElementOfSeq
<1>1. \A d \in SUBSET (1 .. n) : d # {} => choose[d] = Max(d) /\ Max(d) \in d
  BY <1>0, LastIsPicked DEF Numbered
<1>2. step \in [Seq(V) \X (1 .. n) -> Seq(V)]
  <2>1. \A v \in Seq(V) : \A i \in 1 .. n : Append(v, s[i]) \in Seq(V)
    BY <1>0, AppendProperties
  <2> QED BY <2>1
<1>3. \A d \in SUBSET (1 .. n) : \A v \in Seq(V) : d # {} =>
         step[<<v, Max(d)>>] = IF s[Max(d)] \in K THEN Append(v, s[Max(d)]) ELSE v
  BY <1>1
<1> HIDE DEF n, step, choose
<1>4. PICK H : IsIterator(H, 1 .. n, Seq(V), <<>>, choose, step)
  <2>1. <<>> \in Seq(V)
    BY EmptySeq
  <2>2. \A d \in SUBSET (1 .. n) : d # {} => choose[d] \in d
    BY <1>1
  <2> QED BY <1>0, <1>2, <2>1, <2>2, IteratorExists
<1>5. SelectedEquation(H, s, K)
  <2>1. H \in [SUBSET (1 .. n) -> Seq(V)]
    BY <1>4 DEF IsIterator
  <2>2. \A d \in SUBSET (1 .. n) : d # {} =>
           step[<<H[d \ {choose[d]}], choose[d]>>]
             = IF s[Max(d)] \in K THEN Append(H[d \ {Max(d)}], s[Max(d)]) ELSE H[d \ {Max(d)}]
    <3> TAKE d \in SUBSET (1 .. n)
    <3> HAVE d # {}
    <3>1. choose[d] = Max(d) /\ H[d \ {Max(d)}] \in Seq(V)
      BY <1>1, <2>1
    <3> QED BY <1>3, <3>1
  <2>3. H = [d \in SUBSET (1 .. n) |-> IF d = {} THEN <<>> ELSE step[<<H[d \ {choose[d]}], choose[d]>>]]
    BY <1>4 DEF IsIterator
  <2>4. H = [d \in SUBSET (1 .. n) |->
               IF d = {} THEN <<>>
               ELSE IF s[Max(d)] \in K THEN Append(H[d \ {Max(d)}], s[Max(d)]) ELSE H[d \ {Max(d)}]]
    BY <2>2, <2>3
  <2> QED BY <1>0, <2>4 DEF SelectedEquation
<1>6. SelectedEquation(G, s, K)
  BY <1>5, Zenon
<1>7. Selected(s, K) = G[1 .. n]
  BY <1>0, SelectedUnfolds
<1> HIDE DEF G
<1>8. \A d \in SUBSET (1 .. n) : G[d] =
         IF d = {} THEN <<>>
         ELSE IF s[Max(d)] \in K THEN Append(G[d \ {Max(d)}], s[Max(d)]) ELSE G[d \ {Max(d)}]
  BY <1>0, <1>6 DEF SelectedEquation
<1>9. IsFold(G, n, Seq(V), <<>>, step)
  <2>1. G[{}] = <<>>
    BY <1>8
  <2> QED BY <1>3, <1>8, <2>1 DEF IsFold
<1>10. PICK t : IsTrace(t, G, n, Seq(V), <<>>, step)
  <2>1. <<>> \in Seq(V)
    BY EmptySeq
  <2> QED BY <1>0, <1>2, <1>9, <2>1, FoldHasTrace
<1>11. \A i \in 1 .. n : t[i] = IF s[i] \in K THEN Append(t[i - 1], s[i]) ELSE t[i - 1]
  <2> TAKE i \in 1 .. n
  <2>1. t[i - 1] \in Seq(V)
    BY <1>0, <1>10 DEF IsTrace
  <2> QED BY <1>10, <2>1 DEF step, IsTrace
<1>12. SelectionTrace(t, V, s, K)
  BY <1>7, <1>10, <1>11 DEF n, IsTrace, SelectionTrace
<1> QED BY <1>12

\* It holds exactly the selected elements, in their order.
LEMMA SelectedSelects ==
  ASSUME NEW V, NEW s \in Seq(V), NEW K
  PROVE  /\ Selected(s, K) \in Seq(V)
         /\ \A k \in 1 .. Len(Selected(s, K)) : Selected(s, K)[k] \in K
         /\ \E count : Selects(count, s, K)
<1> DEFINE n == Len(s)
           z == Selected(s, K)
<1>0. n \in Nat /\ \A i \in 1 .. n : s[i] \in V
  BY LenProperties, ElementOfSeq
<1>a. PICK t : SelectionTrace(t, V, s, K)
  BY ONLY s \in Seq(V), SelectedHasTrace
<1>1. /\ t \in [0 .. n -> Seq(V)]
      /\ t[0] = <<>>
      /\ \A i \in 1 .. n : t[i] = IF s[i] \in K THEN Append(t[i - 1], s[i]) ELSE t[i - 1]
      /\ t[n] = z
  BY <1>a DEF SelectionTrace
<1> HIDE DEF n, z
<1>2. \A i \in 0 .. n : t[i] \in Seq(V) /\ Len(t[i]) \in Nat
  <2>1. \A i \in 0 .. n : t[i] \in Seq(V)
    BY <1>1
  <2> QED BY <2>1, LenProperties
<1>3. \A i \in 1 .. n : IF s[i] \in K THEN /\ Len(t[i]) = Len(t[i - 1]) + 1
                                           /\ t[i][Len(t[i])] = s[i]
                                           /\ \A k \in 1 .. Len(t[i - 1]) : t[i][k] = t[i - 1][k]
                        ELSE t[i] = t[i - 1]
  <2> TAKE i \in 1 .. n
  <2>1. i - 1 \in 0 .. n /\ s[i] \in V
    BY <1>0
  <2>2. t[i - 1] \in Seq(V) /\ t[i] = IF s[i] \in K THEN Append(t[i - 1], s[i]) ELSE t[i - 1]
    BY <1>1, <2>1
  <2>3. /\ Len(Append(t[i - 1], s[i])) = Len(t[i - 1]) + 1
        /\ Append(t[i - 1], s[i])[Len(t[i - 1]) + 1] = s[i]
        /\ \A k \in 1 .. Len(t[i - 1]) : Append(t[i - 1], s[i])[k] = t[i - 1][k]
    BY <2>1, <2>2, AppendProperties
  <2> QED BY <2>2, <2>3
\* Every stage is the beginning of the whole selection.
<1>4. \A i \in 0 .. n : Len(t[i]) <= Len(z) /\ \A k \in 1 .. Len(t[i]) : z[k] = t[i][k]
  <2> DEFINE Begins(i) == Len(t[i]) <= Len(z) /\ \A k \in 1 .. Len(t[i]) : z[k] = t[i][k]
             T == {j \in 0 .. n : Begins(n - j)}
  <2>1. 0 \in T
    BY <1>0, <1>1, <1>2
  <2>2. \A j \in 1 .. n : j - 1 \in T => j \in T
    <3> TAKE j \in 1 .. n
    <3> HAVE j - 1 \in T
    <3> DEFINE i == n - (j - 1)
    <3>1. i \in 1 .. n /\ i \in 0 .. n /\ i - 1 \in 0 .. n /\ n - j = i - 1 /\ j \in 0 .. n
      BY <1>0
    <3>2. Begins(i)
      <4> HIDE DEF Begins
      <4> QED OBVIOUS
    <3> HIDE DEF i
    <3>3. Len(t[i]) \in Nat /\ Len(t[i - 1]) \in Nat /\ Len(z) \in Nat
      BY <1>0, <1>1, <1>2, <3>1
    <3>4. Begins(i - 1)
      <4>1. CASE s[i] \in K
        <5>1. Len(t[i]) = Len(t[i - 1]) + 1 /\ \A k \in 1 .. Len(t[i - 1]) : t[i][k] = t[i - 1][k]
          BY <1>3, <3>1, <4>1
        <5> QED BY <3>2, <3>3, <5>1
      <4>2. CASE s[i] \notin K
        <5>1. t[i] = t[i - 1]
          BY <1>3, <3>1, <4>2
        <5> QED BY <3>2, <5>1
      <4> QED BY <4>1, <4>2
    <3> HIDE DEF Begins
    <3> QED BY <3>1, <3>4
  <2>3. 0 .. n \subseteq T
    <3> HIDE DEF T
    <3> QED BY <1>0, <2>1, <2>2, AlongInterval
  <2>4. \A i \in 0 .. n : Begins(i)
    <3> TAKE i \in 0 .. n
    <3>1. n - i \in 0 .. n /\ n - (n - i) = i
      BY <1>0
    <3> HIDE DEF Begins
    <3> QED BY <2>3, <3>1
  <2> QED BY <2>4
<1>5. \A i \in 0 .. n : \A k \in 1 .. Len(t[i]) : t[i][k] \in K
  <2> DEFINE Chosen(i) == \A k \in 1 .. Len(t[i]) : t[i][k] \in K
             T == {i \in 0 .. n : Chosen(i)}
  <2>1. 0 \in T
    BY <1>0, <1>1, EmptySeq
  <2>2. \A i \in 1 .. n : i - 1 \in T => i \in T
    <3> TAKE i \in 1 .. n
    <3> HAVE i - 1 \in T
    <3>1. i \in 0 .. n /\ i - 1 \in 0 .. n
      BY <1>0
    <3>2. Len(t[i]) \in Nat /\ Len(t[i - 1]) \in Nat /\ Chosen(i - 1)
      BY <1>2, <3>1
    <3>3. Chosen(i)
      <4>1. CASE s[i] \in K
        <5>1. /\ Len(t[i]) = Len(t[i - 1]) + 1 /\ t[i][Len(t[i])] = s[i]
              /\ \A k \in 1 .. Len(t[i - 1]) : t[i][k] = t[i - 1][k]
          BY <1>3, <4>1
        <5>2. \A k \in 1 .. Len(t[i]) : k \in 1 .. Len(t[i - 1]) \/ k = Len(t[i])
          BY <3>2, <5>1
        <5> QED BY <3>2, <4>1, <5>1, <5>2
      <4>2. CASE s[i] \notin K
        <5>1. t[i] = t[i - 1]
          BY <1>3, <4>2
        <5> QED BY <3>2, <5>1
      <4> QED BY <4>1, <4>2
    <3> HIDE DEF Chosen
    <3> QED BY <3>1, <3>3
  <2>3. 0 .. n \subseteq T
    <3> HIDE DEF T
    <3> QED BY <1>0, <2>1, <2>2, AlongInterval
  <2> QED BY <2>3
<1> DEFINE count == [i \in 0 .. n |-> Len(t[i])]
<1>6. count \in [0 .. n -> 0 .. Len(z)] /\ count[0] = 0 /\ count[n] = Len(z)
  BY <1>0, <1>1, <1>2, <1>4, EmptySeq
<1>7. \A i \in 1 .. n : IF s[i] \in K THEN count[i] = count[i - 1] + 1 /\ z[count[i]] = s[i]
                        ELSE count[i] = count[i - 1]
  <2> TAKE i \in 1 .. n
  <2>1. /\ i \in 0 .. n /\ i - 1 \in 0 .. n /\ count[i] = Len(t[i]) /\ count[i - 1] = Len(t[i - 1])
        /\ Len(t[i]) \in Nat /\ Len(t[i - 1]) \in Nat
    BY <1>0, <1>2
  <2> HIDE DEF count
  <2>2. CASE s[i] \in K
    <3>1. Len(t[i]) = Len(t[i - 1]) + 1 /\ t[i][Len(t[i])] = s[i]
      BY <1>3, <2>2
    <3>2. Len(t[i]) \in 1 .. Len(t[i])
      BY <2>1, <3>1
    <3>3. z[Len(t[i])] = t[i][Len(t[i])]
      BY <1>4, <2>1, <3>2
    <3> QED BY <2>1, <2>2, <3>1, <3>3
  <2>3. CASE s[i] \notin K
    <3>1. t[i] = t[i - 1]
      BY <1>3, <2>3
    <3> QED BY <2>1, <2>3, <3>1
  <2> QED BY <2>2, <2>3
<1> HIDE DEF count
<1>8. Selects(count, s, K)
  BY <1>6, <1>7 DEF Selects, n, z
<1>9. z \in Seq(V) /\ \A k \in 1 .. Len(z) : z[k] \in K
  <2>1. n \in 0 .. n
    BY <1>0
  <2> QED BY <1>1, <1>2, <1>5, <2>1
<1> QED BY <1>8, <1>9 DEF z

\* Balances, also those that no proof allows, and what withdrawalsData tells.
Balances == [Owners -> Int]
Withdrawal == [owner : Owners, amount : Nat, addToQueue : BOOLEAN]

ApplyTrace(t, l2, ops) ==
  /\ t \in [0 .. Len(ops) -> Balances]
  /\ t[0] = l2
  /\ \A i \in 1 .. Len(ops) : t[i] = Apply(t[i - 1], ops[i])
  /\ t[Len(ops)] = FoldLeft(Apply, l2, ops)

\* The balances follow the operations one by one.
LEMMA ApplyHasTrace ==
  ASSUME NEW l2 \in Balances, NEW ops \in Seq(Operation)
  PROVE  \E t : ApplyTrace(t, l2, ops)
<1> DEFINE n == Len(ops)
           step == [p \in Balances \X (1 .. n) |-> Apply(p[1], ops[p[2]])]
           choose == Numbered(n)
           G == CHOOSE g : ApplyEquation(g, l2, ops)
<1>0. n \in Nat /\ DOMAIN ops = 1 .. n /\ IsFiniteSet(1 .. n) /\ \A i \in 1 .. n : ops[i] \in Operation
  BY LenProperties, FS_Interval, ElementOfSeq
<1>1. \A d \in SUBSET (1 .. n) : d # {} => choose[d] = Max(d) /\ Max(d) \in d
  BY <1>0, LastIsPicked DEF Numbered
<1>2. step \in [Balances \X (1 .. n) -> Balances]
  <2>1. \A op \in Operation : \A f \in Balances : Apply(f, op) \in Balances
    BY DEF Balances, Apply, Operation
  <2> QED BY <1>0, <2>1
<1>3. \A d \in SUBSET (1 .. n) : \A v \in Balances : d # {} =>
         step[<<v, Max(d)>>] = Apply(v, ops[Max(d)])
  BY <1>1
<1> HIDE DEF n, step, choose
<1>4. PICK H : IsIterator(H, 1 .. n, Balances, l2, choose, step)
  <2>1. \A d \in SUBSET (1 .. n) : d # {} => choose[d] \in d
    BY <1>1
  <2> QED BY <1>0, <1>2, <2>1, IteratorExists
<1>5. ApplyEquation(H, l2, ops)
  <2>1. H \in [SUBSET (1 .. n) -> Balances]
    BY <1>4 DEF IsIterator
  <2>2. \A d \in SUBSET (1 .. n) : d # {} =>
           step[<<H[d \ {choose[d]}], choose[d]>>] = Apply(H[d \ {Max(d)}], ops[Max(d)])
    <3> TAKE d \in SUBSET (1 .. n)
    <3> HAVE d # {}
    <3>1. choose[d] = Max(d) /\ H[d \ {Max(d)}] \in Balances
      BY <1>1, <2>1
    <3> QED BY <1>3, <3>1
  <2>3. H = [d \in SUBSET (1 .. n) |-> IF d = {} THEN l2 ELSE step[<<H[d \ {choose[d]}], choose[d]>>]]
    BY <1>4 DEF IsIterator
  <2>4. H = [d \in SUBSET (1 .. n) |->
               IF d = {} THEN l2 ELSE Apply(H[d \ {Max(d)}], ops[Max(d)])]
    BY <2>2, <2>3
  <2> QED BY <1>0, <2>4 DEF ApplyEquation
<1>6. ApplyEquation(G, l2, ops)
  BY <1>5, Zenon
<1>7. FoldLeft(Apply, l2, ops) = G[1 .. n]
  BY <1>0, ApplyUnfolds
<1> HIDE DEF G
<1>8. \A d \in SUBSET (1 .. n) : G[d] =
         IF d = {} THEN l2 ELSE Apply(G[d \ {Max(d)}], ops[Max(d)])
  BY <1>0, <1>6 DEF ApplyEquation
<1>9. IsFold(G, n, Balances, l2, step)
  <2>1. G[{}] = l2
    BY <1>8
  <2> QED BY <1>3, <1>8, <2>1 DEF IsFold
<1>10. PICK t : IsTrace(t, G, n, Balances, l2, step)
  BY <1>0, <1>2, <1>9, FoldHasTrace
<1>11. \A i \in 1 .. n : t[i] = Apply(t[i - 1], ops[i])
  <2> TAKE i \in 1 .. n
  <2>1. t[i - 1] \in Balances
    BY <1>0, <1>10 DEF IsTrace
  <2> QED BY <1>10, <2>1 DEF step, IsTrace
<1>12. ApplyTrace(t, l2, ops)
  BY <1>7, <1>10, <1>11 DEF n, IsTrace, ApplyTrace
<1> QED BY <1>12

StoreTrace(t, balances, data) ==
  /\ t \in [0 .. Len(data) -> Balances]
  /\ t[0] = balances
  /\ \A i \in 1 .. Len(data) : t[i] = StoreBalance(t[i - 1], data[i])
  /\ t[Len(data)] = FoldLeft(StoreBalance, balances, data)

\* The balances to withdraw follow the withdrawals one by one.
LEMMA StoreHasTrace ==
  ASSUME NEW balances \in Balances, NEW data \in Seq(Withdrawal)
  PROVE  \E t : StoreTrace(t, balances, data)
<1> DEFINE n == Len(data)
           step == [p \in Balances \X (1 .. n) |-> StoreBalance(p[1], data[p[2]])]
           choose == Numbered(n)
           G == CHOOSE g : StoreEquation(g, balances, data)
<1>0. n \in Nat /\ DOMAIN data = 1 .. n /\ IsFiniteSet(1 .. n) /\ \A i \in 1 .. n : data[i] \in Withdrawal
  BY LenProperties, FS_Interval, ElementOfSeq
<1>1. \A d \in SUBSET (1 .. n) : d # {} => choose[d] = Max(d) /\ Max(d) \in d
  BY <1>0, LastIsPicked DEF Numbered
<1>2. step \in [Balances \X (1 .. n) -> Balances]
  <2>1. \A w \in Withdrawal : \A f \in Balances : StoreBalance(f, w) \in Balances
    BY DEF Balances, StoreBalance, Withdrawal
  <2> QED BY <1>0, <2>1
<1>3. \A d \in SUBSET (1 .. n) : \A v \in Balances : d # {} =>
         step[<<v, Max(d)>>] = StoreBalance(v, data[Max(d)])
  BY <1>1
<1> HIDE DEF n, step, choose
<1>4. PICK H : IsIterator(H, 1 .. n, Balances, balances, choose, step)
  <2>1. \A d \in SUBSET (1 .. n) : d # {} => choose[d] \in d
    BY <1>1
  <2> QED BY <1>0, <1>2, <2>1, IteratorExists
<1>5. StoreEquation(H, balances, data)
  <2>1. H \in [SUBSET (1 .. n) -> Balances]
    BY <1>4 DEF IsIterator
  <2>2. \A d \in SUBSET (1 .. n) : d # {} =>
           step[<<H[d \ {choose[d]}], choose[d]>>] = StoreBalance(H[d \ {Max(d)}], data[Max(d)])
    <3> TAKE d \in SUBSET (1 .. n)
    <3> HAVE d # {}
    <3>1. choose[d] = Max(d) /\ H[d \ {Max(d)}] \in Balances
      BY <1>1, <2>1
    <3> QED BY <1>3, <3>1
  <2>3. H = [d \in SUBSET (1 .. n) |-> IF d = {} THEN balances ELSE step[<<H[d \ {choose[d]}], choose[d]>>]]
    BY <1>4 DEF IsIterator
  <2>4. H = [d \in SUBSET (1 .. n) |->
               IF d = {} THEN balances ELSE StoreBalance(H[d \ {Max(d)}], data[Max(d)])]
    BY <2>2, <2>3
  <2> QED BY <1>0, <2>4 DEF StoreEquation
<1>6. StoreEquation(G, balances, data)
  BY <1>5, Zenon
<1>7. FoldLeft(StoreBalance, balances, data) = G[1 .. n]
  BY <1>0, StoreUnfolds
<1> HIDE DEF G
<1>8. \A d \in SUBSET (1 .. n) : G[d] =
         IF d = {} THEN balances ELSE StoreBalance(G[d \ {Max(d)}], data[Max(d)])
  BY <1>0, <1>6 DEF StoreEquation
<1>9. IsFold(G, n, Balances, balances, step)
  <2>1. G[{}] = balances
    BY <1>8
  <2> QED BY <1>3, <1>8, <2>1 DEF IsFold
<1>10. PICK t : IsTrace(t, G, n, Balances, balances, step)
  BY <1>0, <1>2, <1>9, FoldHasTrace
<1>11. \A i \in 1 .. n : t[i] = StoreBalance(t[i - 1], data[i])
  <2> TAKE i \in 1 .. n
  <2>1. t[i - 1] \in Balances
    BY <1>0, <1>10 DEF IsTrace
  <2> QED BY <1>10, <2>1 DEF step, IsTrace
<1>12. StoreTrace(t, balances, data)
  BY <1>7, <1>10, <1>11 DEF n, IsTrace, StoreTrace
<1> QED BY <1>12

-----------------------------------------------------------------------------
(* The queue of priority requests and the blocks *)

\* What the users ask for: deposits of one unit, and full exits.
UserRequest ==
  {r \in [type : {"Deposit", "FullExit"}, owner : Owners, amount : {0, 1}] :
     r.amount = IF r.type = "Deposit" THEN 1 ELSE 0}

CountersTyped ==
  /\ height \in Nat /\ exodusMode \in BOOLEAN
  /\ firstPriorityRequestId \in Nat /\ totalOpenPriorityRequests \in Nat
  /\ totalBlocksCommitted \in Nat /\ totalBlocksVerified \in 0 .. totalBlocksCommitted

\* The open requests are the latest of those that were made.
QueueOfRequests ==
  /\ requested \in Seq(UserRequest)
  /\ Len(requested) = firstPriorityRequestId + totalOpenPriorityRequests
  /\ DOMAIN priorityRequests =
        firstPriorityRequestId .. firstPriorityRequestId + totalOpenPriorityRequests - 1
  /\ \A id \in DOMAIN priorityRequests :
        /\ priorityRequests[id].type = requested[id + 1].type
        /\ priorityRequests[id].owner = requested[id + 1].owner
        /\ priorityRequests[id].amount = requested[id + 1].amount

Formed(block) ==
  /\ block.ops \in Seq(Operation)
  /\ block.priorityOperations = Len(PriorityOps(block.ops))
  /\ block.withdrawals = WithdrawalsData(block.ops)

BlocksFormed ==
  /\ DOMAIN blocks = 0 .. totalBlocksCommitted
  /\ \A n \in 1 .. totalBlocksCommitted : Formed(blocks[n])

\* The priority operations are those of the requests after the first ones.
Answers(requests, first, ops) ==
  \A k \in 1 .. Len(PriorityOps(ops)) : Matches(requests[first + k], PriorityOps(ops)[k])

\* How many of the open requests the blocks up to each one hold.
Offsets(off) ==
  /\ \A n \in totalBlocksVerified .. totalBlocksCommitted : off[n] \in Nat
  /\ off[totalBlocksVerified] = 0
  /\ off[totalBlocksCommitted] = totalCommittedPriorityRequests
  /\ \A n \in totalBlocksVerified + 1 .. totalBlocksCommitted :
        off[n] = off[n - 1] + blocks[n].priorityOperations
  /\ \A m, n \in totalBlocksVerified .. totalBlocksCommitted : m <= n => off[m] <= off[n]

\* Until exodus mode the blocks that are not verified hold open requests.
BlocksAnswer(off) ==
  ~exodusMode =>
    /\ totalCommittedPriorityRequests <= totalOpenPriorityRequests
    /\ \A n \in totalBlocksVerified + 1 .. totalBlocksCommitted :
          Answers(requested, firstPriorityRequestId + off[n - 1], blocks[n].ops)

BlocksHoldRequests == \E off : Offsets(off) /\ BlocksAnswer(off)

ProcessedTyped == processed \in Seq(Operation)

QueueInv ==
  CountersTyped /\ QueueOfRequests /\ BlocksFormed /\ BlocksHoldRequests
    /\ ProcessedTyped /\ RequestsInOrder

\* The priority operations of a block (collectOnchainOps) are operations.
LEMMA PriorityOpsFacts ==
  ASSUME NEW ops \in Seq(Operation)
  PROVE  /\ PriorityOps(ops) \in Seq(Operation)
         /\ Len(PriorityOps(ops)) \in Nat
         /\ \A k \in 1 .. Len(PriorityOps(ops)) :
               PriorityOps(ops)[k] \in Operation /\ IsPriority(PriorityOps(ops)[k])
<1>1. /\ PriorityOps(ops) \in Seq(Operation)
      /\ \A k \in 1 .. Len(PriorityOps(ops)) :
            PriorityOps(ops)[k] \in {op \in Range(ops) : IsPriority(op)}
  BY SelectedSelects DEF PriorityOps
<1>2. \A k \in 1 .. Len(PriorityOps(ops)) : PriorityOps(ops)[k] \in Operation
  BY <1>1, ElementOfSeq
<1> QED BY <1>1, <1>2, LenProperties

\* An empty queue and the genesis block.
LEMMA QueueInitially == Init => QueueInv
<1> SUFFICES ASSUME Init
             PROVE  QueueInv
  OBVIOUS
<1>1. CountersTyped
  BY DEF Init, CountersTyped
<1>2. QueueOfRequests
  <2>1. priorityRequests = <<>> /\ requested = <<>>
    BY DEF Init
  <2>2. DOMAIN priorityRequests = {} /\ 0 .. 0 + 0 - 1 = {}
    BY <2>1
  <2> QED BY <2>1, <2>2, EmptySeq DEF Init, QueueOfRequests
<1>3. BlocksFormed
  <2>1. DOMAIN blocks = {0} /\ totalBlocksCommitted = 0
    BY DEF Init
  <2> QED BY <2>1 DEF BlocksFormed
<1>4. BlocksHoldRequests
  <2>1. Offsets([n \in {0} |-> 0]) /\ BlocksAnswer([n \in {0} |-> 0])
    BY DEF Init, Offsets, BlocksAnswer
  <2> QED BY <2>1 DEF BlocksHoldRequests
<1>5. ProcessedTyped /\ RequestsInOrder
  BY EmptySeq DEF Init, ProcessedTyped, RequestsInOrder
<1> QED BY <1>1, <1>2, <1>3, <1>4, <1>5 DEF QueueInv

\* The requests that a block holds are among those that are committed.
LEMMA OffsetsBound ==
  ASSUME CountersTyped, BlocksFormed, NEW off, Offsets(off),
         NEW n \in totalBlocksVerified + 1 .. totalBlocksCommitted
  PROVE  /\ n \in 1 .. totalBlocksCommitted /\ blocks[n].ops \in Seq(Operation)
         /\ blocks[n].priorityOperations = Len(PriorityOps(blocks[n].ops))
         /\ off[n - 1] \in Nat /\ Len(PriorityOps(blocks[n].ops)) \in Nat
         /\ off[n] = off[n - 1] + Len(PriorityOps(blocks[n].ops))
         /\ off[n] <= totalCommittedPriorityRequests
         /\ totalCommittedPriorityRequests \in Nat
<1>1. /\ n \in 1 .. totalBlocksCommitted
      /\ n \in totalBlocksVerified .. totalBlocksCommitted
      /\ n - 1 \in totalBlocksVerified .. totalBlocksCommitted
      /\ totalBlocksCommitted \in totalBlocksVerified .. totalBlocksCommitted
      /\ n <= totalBlocksCommitted
  BY DEF CountersTyped
<1>2. /\ blocks[n].ops \in Seq(Operation)
      /\ blocks[n].priorityOperations = Len(PriorityOps(blocks[n].ops))
  BY <1>1 DEF BlocksFormed, Formed
<1>3. Len(PriorityOps(blocks[n].ops)) \in Nat
  BY <1>2, PriorityOpsFacts
<1>4. off[n] = off[n - 1] + Len(PriorityOps(blocks[n].ops)) /\ off[n - 1] \in Nat
  BY <1>1, <1>2 DEF Offsets
<1>5. off[n] <= totalCommittedPriorityRequests /\ totalCommittedPriorityRequests \in Nat
  BY <1>1 DEF Offsets
<1> QED BY <1>1, <1>2, <1>3, <1>4, <1>5

\* addPriorityRequest puts a request at the end.
LEMMA RequestKeepsQueue ==
  ASSUME QueueInv, NEW r \in UserRequest, Request(r), UNCHANGED <<height, rollup, exodus>>
  PROVE  QueueInv'
<1> USE DEF QueueInv
<1> DEFINE last == firstPriorityRequestId + totalOpenPriorityRequests
<1>0. firstPriorityRequestId \in Nat /\ totalOpenPriorityRequests \in Nat
  BY DEF CountersTyped
<1>1. /\ ~exodusMode /\ requested' = Append(requested, r)
      /\ priorityRequests' = Put(priorityRequests, last, OpenRequest(r))
      /\ totalOpenPriorityRequests' = totalOpenPriorityRequests + 1
      /\ UNCHANGED <<height, firstPriorityRequestId, blocks, totalBlocksCommitted,
                     totalBlocksVerified, totalCommittedPriorityRequests, processed, exodusMode>>
  BY DEF Request, AddPriorityRequest, rollup, exodus
<1>2. CountersTyped'
  BY <1>1 DEF CountersTyped
<1>3. /\ requested \in Seq(UserRequest) /\ Len(requested) = last /\ last \in Nat
      /\ requested' \in Seq(UserRequest)
      /\ Len(requested') = last + 1 /\ requested'[last + 1] = r
      /\ \A k \in 1 .. last : requested'[k] = requested[k]
  <2>1. requested \in Seq(UserRequest) /\ Len(requested) = last /\ last \in Nat
    BY DEF QueueOfRequests, CountersTyped
  <2> HIDE DEF last
  <2> QED BY <1>1, <2>1, AppendProperties
<1>4. QueueOfRequests'
  <2>1. DOMAIN priorityRequests' = firstPriorityRequestId .. last
    <3>1. DOMAIN priorityRequests' = DOMAIN priorityRequests \cup {last}
      BY <1>1 DEF Put
    <3>2. DOMAIN priorityRequests = firstPriorityRequestId .. last - 1
      BY <1>0 DEF QueueOfRequests
    <3> QED BY <1>0, <3>1, <3>2
  <2>2. \A id \in DOMAIN priorityRequests' :
           /\ priorityRequests'[id].type = requested'[id + 1].type
           /\ priorityRequests'[id].owner = requested'[id + 1].owner
           /\ priorityRequests'[id].amount = requested'[id + 1].amount
    <3> TAKE id \in DOMAIN priorityRequests'
    <3>0. id \in firstPriorityRequestId .. last /\ firstPriorityRequestId \in Nat /\ last \in Nat
      BY <1>3, <2>1 DEF CountersTyped
    <3>1. CASE id = last
      <4>1. priorityRequests'[id] = OpenRequest(r)
        BY <1>1, <2>1, <3>1 DEF Put
      <4>2. requested'[id + 1] = r
        BY <1>3, <3>1
      <4> QED BY <4>1, <4>2 DEF OpenRequest
    <3>2. CASE id # last
      <4>1. id \in DOMAIN priorityRequests /\ id + 1 \in 1 .. last
        BY <1>0, <3>0, <3>2 DEF QueueOfRequests
      <4>2. priorityRequests'[id] = priorityRequests[id]
        BY <1>1, <3>2, <4>1 DEF Put
      <4>3. requested'[id + 1] = requested[id + 1]
        BY <1>3, <4>1
      <4> QED BY <4>1, <4>2, <4>3 DEF QueueOfRequests
    <3> QED BY <3>1, <3>2
  <2>3. last + 1 = firstPriorityRequestId' + totalOpenPriorityRequests'
        /\ last = firstPriorityRequestId' + totalOpenPriorityRequests' - 1
    BY <1>0, <1>1
  <2>4. DOMAIN priorityRequests'
          = firstPriorityRequestId' .. firstPriorityRequestId' + totalOpenPriorityRequests' - 1
    BY <1>1, <2>1, <2>3
  <2>5. requested' \in Seq(UserRequest)
        /\ Len(requested') = firstPriorityRequestId' + totalOpenPriorityRequests'
    BY <1>3, <2>3
  <2> HIDE DEF last
  <2> QED BY <2>2, <2>4, <2>5 DEF QueueOfRequests
<1>5. BlocksFormed' /\ ProcessedTyped'
  BY <1>1 DEF BlocksFormed, ProcessedTyped
<1>6. BlocksHoldRequests'
  <2>1. PICK off : Offsets(off) /\ BlocksAnswer(off)
    BY DEF BlocksHoldRequests
  <2>2. Offsets(off)'
    BY <1>1, <2>1 DEF Offsets
  <2>3. totalCommittedPriorityRequests <= totalOpenPriorityRequests + 1
    BY <1>1, <2>1 DEF BlocksAnswer, CountersTyped, Offsets
  <2>4. ASSUME NEW n \in totalBlocksVerified + 1 .. totalBlocksCommitted
        PROVE  Answers(requested', firstPriorityRequestId + off[n - 1], blocks[n].ops)
    <3> DEFINE taken == PriorityOps(blocks[n].ops)
    <3>1. /\ off[n - 1] \in Nat /\ Len(taken) \in Nat
          /\ off[n - 1] + Len(taken) <= totalCommittedPriorityRequests
          /\ totalCommittedPriorityRequests \in Nat
      BY <2>1, OffsetsBound
    <3>2. /\ Answers(requested, firstPriorityRequestId + off[n - 1], blocks[n].ops)
          /\ totalCommittedPriorityRequests <= totalOpenPriorityRequests
      BY <1>1, <2>1 DEF BlocksAnswer
    <3>3. \A k \in 1 .. Len(taken) : firstPriorityRequestId + off[n - 1] + k \in 1 .. last
      BY <1>0, <3>1, <3>2
    <3>4. \A k \in 1 .. Len(taken) :
             requested'[firstPriorityRequestId + off[n - 1] + k]
               = requested[firstPriorityRequestId + off[n - 1] + k]
      BY <1>3, <3>3
    <3> HIDE DEF last
    <3> QED BY <1>1, <3>2, <3>4 DEF Answers
  <2>5. BlocksAnswer(off)'
    BY <1>1, <2>3, <2>4 DEF BlocksAnswer
  <2> QED BY <2>2, <2>5 DEF BlocksHoldRequests
<1>7. RequestsInOrder'
  <2>1. \A n \in DOMAIN processed : n \in 1 .. last
    <3>1. processed \in Seq(Operation) /\ Len(processed) <= firstPriorityRequestId
      BY DEF ProcessedTyped, RequestsInOrder
    <3> QED BY <3>1, LenProperties DEF CountersTyped
  <2>2. \A n \in DOMAIN processed : requested'[n] = requested[n]
    BY <1>3, <2>1
  <2> QED BY <1>1, <2>2 DEF RequestsInOrder
<1> QED BY <1>2, <1>4, <1>5, <1>6, <1>7

\* commitBlock takes the next open requests (collectOnchainOps).
LEMMA CommitKeepsQueue ==
  ASSUME QueueInv, NEW ops \in Seq(Operation), NEW root, CommitBlock(ops, root)
  PROVE  QueueInv'
<1> USE DEF QueueInv
<1> DEFINE c == totalBlocksCommitted
           taken == PriorityOps(ops)
<1>0. /\ firstPriorityRequestId \in Nat /\ totalOpenPriorityRequests \in Nat
      /\ c \in Nat /\ totalBlocksVerified \in 0 .. c /\ Len(taken) \in Nat
  BY PriorityOpsFacts DEF CountersTyped
<1>1. /\ ~exodusMode /\ Collected(ops)
      /\ blocks' = Put(blocks, c + 1, CommittedBlock(ops, root))
      /\ totalBlocksCommitted' = c + 1
      /\ totalCommittedPriorityRequests' = totalCommittedPriorityRequests + Len(taken)
      /\ UNCHANGED <<height, priorityRequests, firstPriorityRequestId, totalOpenPriorityRequests,
                     totalBlocksVerified, processed, requested, exodusMode>>
  BY DEF CommitBlock, queue, exodus
<1>2. CountersTyped'
  BY <1>0, <1>1 DEF CountersTyped
<1>3. QueueOfRequests' /\ ProcessedTyped' /\ RequestsInOrder'
  BY <1>1 DEF QueueOfRequests, ProcessedTyped, RequestsInOrder
<1>4. /\ DOMAIN blocks' = 0 .. c + 1
      /\ blocks'[c + 1] = CommittedBlock(ops, root)
      /\ \A n \in 0 .. c : blocks'[n] = blocks[n]
  <2>1. DOMAIN blocks = 0 .. c
    BY DEF BlocksFormed
  <2>2. 0 .. c + 1 = (0 .. c) \cup {c + 1} /\ \A n \in 0 .. c : n # c + 1
    BY <1>0
  <2> HIDE DEF c
  <2> QED BY <1>1, <2>1, <2>2 DEF Put
<1>5. BlocksFormed'
  <2>1. Formed(CommittedBlock(ops, root))
    BY DEF Formed, CommittedBlock
  <2>2. \A n \in 1 .. c + 1 : n = c + 1 \/ (n \in 1 .. c /\ n \in 0 .. c)
    BY <1>0
  <2>3. \A n \in 1 .. c + 1 : Formed(blocks'[n])
    BY <1>4, <2>1, <2>2 DEF BlocksFormed
  <2> HIDE DEF c
  <2> QED BY <1>1, <1>4, <2>3 DEF BlocksFormed
<1>6. BlocksHoldRequests'
  <2>1. PICK off : Offsets(off) /\ BlocksAnswer(off)
    BY DEF BlocksHoldRequests
  <2>a. PICK new : new = [n \in totalBlocksVerified .. c + 1 |->
                            IF n = c + 1 THEN off[c] + Len(taken) ELSE off[n]]
    OBVIOUS
  <2>2. /\ off[c] = totalCommittedPriorityRequests /\ off[c] \in Nat
        /\ new[c + 1] = off[c] + Len(taken)
        /\ \A n \in totalBlocksVerified .. c : new[n] = off[n] /\ off[n] \in Nat /\ off[n] <= off[c]
    BY <1>0, <2>a, <2>1 DEF Offsets
  <2>3. \A n \in totalBlocksVerified .. c + 1 : n = c + 1 \/ n \in totalBlocksVerified .. c
    BY <1>0
  <2>4. Offsets(new)'
    <3>1. \A n \in totalBlocksVerified .. c + 1 : new[n] \in Nat
      BY <1>0, <2>2, <2>3
    <3>2. new[totalBlocksVerified] = 0
      BY <1>0, <2>1, <2>2 DEF Offsets
    <3>3. \A n \in totalBlocksVerified + 1 .. c + 1 :
             new[n] = new[n - 1] + blocks'[n].priorityOperations
      <4> TAKE n \in totalBlocksVerified + 1 .. c + 1
      <4>1. CASE n = c + 1
        <5>1. n - 1 = c /\ c \in totalBlocksVerified .. c
          BY <1>0, <4>1
        <5>2. blocks'[n].priorityOperations = Len(taken)
          BY <1>4, <4>1 DEF CommittedBlock
        <5> QED BY <2>2, <4>1, <5>1, <5>2
      <4>2. CASE n # c + 1
        <5>1. /\ n \in totalBlocksVerified + 1 .. c /\ n \in totalBlocksVerified .. c
              /\ n - 1 \in totalBlocksVerified .. c /\ n \in 0 .. c
          BY <1>0, <4>2
        <5> QED BY <1>4, <2>1, <2>2, <5>1 DEF Offsets
      <4> QED BY <4>1, <4>2
    <3>4. \A m, n \in totalBlocksVerified .. c + 1 : m <= n => new[m] <= new[n]
      <4> SUFFICES ASSUME NEW m \in totalBlocksVerified .. c + 1,
                          NEW n \in totalBlocksVerified .. c + 1, m <= n
                   PROVE  new[m] <= new[n]
        OBVIOUS
      <4>1. CASE n = c + 1
        BY <1>0, <2>2, <2>3, <4>1
      <4>2. CASE n # c + 1
        <5>1. m \in totalBlocksVerified .. c /\ n \in totalBlocksVerified .. c
          BY <1>0, <4>2
        <5> QED BY <2>1, <2>2, <5>1 DEF Offsets
      <4> QED BY <4>1, <4>2
    <3>5. new[c + 1] = totalCommittedPriorityRequests'
      BY <1>1, <2>2
    <3>6. totalBlocksVerified' = totalBlocksVerified /\ totalBlocksCommitted' = c + 1
      BY <1>1
    <3> HIDE DEF c
    <3> QED BY ONLY <3>1, <3>2, <3>3, <3>4, <3>5, <3>6 DEF Offsets
  <2>5. BlocksAnswer(new)'
    <3>1. totalCommittedPriorityRequests' <= totalOpenPriorityRequests'
      BY <1>0, <1>1, <2>2 DEF Collected
    <3>2. ASSUME NEW n \in totalBlocksVerified + 1 .. c + 1
          PROVE  Answers(requested, firstPriorityRequestId + new[n - 1], blocks'[n].ops)
      <4>1. CASE n = c + 1
        <5>1. new[n - 1] = totalCommittedPriorityRequests /\ blocks'[n].ops = ops
          BY <1>0, <1>4, <2>2, <4>1 DEF CommittedBlock
        <5>2. ASSUME NEW k \in 1 .. Len(taken)
              PROVE  Matches(requested[firstPriorityRequestId + totalCommittedPriorityRequests + k],
                             taken[k])
          <6> DEFINE id == firstPriorityRequestId + totalCommittedPriorityRequests + k - 1
          <6>1. id \in DOMAIN priorityRequests /\ Matches(priorityRequests[id], taken[k])
            <7>1. k \in DOMAIN taken
              BY PriorityOpsFacts, LenProperties
            <7> QED BY <1>1, <7>1 DEF Collected
          <6>2. id + 1 = firstPriorityRequestId + totalCommittedPriorityRequests + k
            BY <1>0, <2>2
          <6> HIDE DEF id
          <6>3. Matches(requested[id + 1], taken[k])
            BY <6>1 DEF QueueOfRequests, Matches
          <6> QED BY <6>2, <6>3
        <5> QED BY <5>1, <5>2 DEF Answers
      <4>2. CASE n # c + 1
        <5>1. n \in totalBlocksVerified + 1 .. c /\ n \in 0 .. c /\ n - 1 \in totalBlocksVerified .. c
          BY <1>0, <4>2
        <5>2. /\ Answers(requested, firstPriorityRequestId + off[n - 1], blocks[n].ops)
              /\ new[n - 1] = off[n - 1] /\ blocks'[n] = blocks[n]
          BY <1>1, <1>4, <2>1, <2>2, <5>1 DEF BlocksAnswer
        <5> QED BY <5>2
      <4> QED BY <4>1, <4>2
    <3> QED BY <1>1, <3>1, <3>2 DEF BlocksAnswer
  <2> QED BY <2>4, <2>5 DEF BlocksHoldRequests
<1> QED BY <1>2, <1>3, <1>5, <1>6

\* The oldest requests go, the others stay what they were.
LEMMA DeleteKeepsRequests ==
  ASSUME CountersTyped, QueueOfRequests, NEW number \in Nat, DeleteRequests(number),
         UNCHANGED requested
  PROVE  /\ QueueOfRequests'
         /\ firstPriorityRequestId' = firstPriorityRequestId + number
         /\ totalOpenPriorityRequests' = totalOpenPriorityRequests - number
         /\ firstPriorityRequestId' \in Nat /\ totalOpenPriorityRequests' \in Nat
<1>0. firstPriorityRequestId \in Nat /\ totalOpenPriorityRequests \in Nat
  BY DEF CountersTyped
<1>1. /\ firstPriorityRequestId' = firstPriorityRequestId + number
      /\ totalOpenPriorityRequests' = totalOpenPriorityRequests - number
      /\ number <= totalOpenPriorityRequests
      /\ priorityRequests' = Restrict(priorityRequests,
            {id \in DOMAIN priorityRequests : id >= firstPriorityRequestId + number})
  BY DEF DeleteRequests
<1>2. firstPriorityRequestId' \in Nat /\ totalOpenPriorityRequests' \in Nat
  BY <1>0, <1>1
<1>3. DOMAIN priorityRequests'
        = firstPriorityRequestId' .. firstPriorityRequestId' + totalOpenPriorityRequests' - 1
  <2>1. DOMAIN priorityRequests
          = firstPriorityRequestId .. firstPriorityRequestId + totalOpenPriorityRequests - 1
    BY DEF QueueOfRequests
  <2>2. DOMAIN priorityRequests'
          = {id \in DOMAIN priorityRequests : id >= firstPriorityRequestId + number}
    BY <1>1 DEF Restrict
  <2>3. \A a, o \in Nat : number <= o =>
           {id \in a .. a + o - 1 : id >= a + number} = a + number .. a + number + (o - number) - 1
    OBVIOUS
  <2> QED BY <1>0, <1>1, <2>1, <2>2, <2>3
<1>4. \A id \in DOMAIN priorityRequests' :
         id \in DOMAIN priorityRequests /\ priorityRequests'[id] = priorityRequests[id]
  BY <1>1 DEF Restrict
<1>5. Len(requested') = firstPriorityRequestId' + totalOpenPriorityRequests'
  BY <1>0, <1>1 DEF QueueOfRequests
<1>6. QueueOfRequests'
  BY <1>3, <1>4, <1>5 DEF QueueOfRequests
<1> QED BY <1>1, <1>2, <1>6

\* verifyBlock deletes the requests of the first block that is not verified.
LEMMA VerifyKeepsQueue ==
  ASSUME QueueInv, VerifyBlock
  PROVE  QueueInv'
<1> USE DEF QueueInv
<1> DEFINE v == totalBlocksVerified
           c == totalBlocksCommitted
           ops == blocks[v + 1].ops
           taken == PriorityOps(ops)
           p == Len(taken)
<1>1. PICK off : Offsets(off) /\ BlocksAnswer(off)
  BY DEF BlocksHoldRequests
<1>2. /\ ~exodusMode /\ v + 1 <= c
      /\ DeleteRequests(blocks[v + 1].priorityOperations)
      /\ totalCommittedPriorityRequests'
           = totalCommittedPriorityRequests - blocks[v + 1].priorityOperations
      /\ totalBlocksVerified' = v + 1
      /\ processed' = processed \o PriorityOps(blocks[v + 1].ops)
      /\ UNCHANGED <<height, blocks, totalBlocksCommitted, exodusMode, requested>>
  BY DEF VerifyBlock, exodus
<1>3. v \in Nat /\ c \in Nat /\ v + 1 \in v + 1 .. c /\ v + 1 \in 1 .. c /\ v + 1 \in v .. c
      /\ firstPriorityRequestId \in Nat /\ totalOpenPriorityRequests \in Nat
  BY <1>2 DEF CountersTyped
<1>4. /\ ops \in Seq(Operation) /\ blocks[v + 1].priorityOperations = p
      /\ p \in Nat /\ off[v + 1] = p
  <2>1. /\ blocks[v + 1].ops \in Seq(Operation)
        /\ blocks[v + 1].priorityOperations = Len(PriorityOps(blocks[v + 1].ops))
        /\ Len(PriorityOps(blocks[v + 1].ops)) \in Nat
        /\ off[v + 1] = off[v + 1 - 1] + Len(PriorityOps(blocks[v + 1].ops))
    BY <1>1, <1>3, OffsetsBound
  <2>2. off[v] = 0 /\ v + 1 - 1 = v
    BY <1>1, <1>3 DEF Offsets
  <2> QED BY <2>1, <2>2
<1>5. /\ QueueOfRequests'
      /\ firstPriorityRequestId' = firstPriorityRequestId + p
      /\ totalOpenPriorityRequests' = totalOpenPriorityRequests - p
      /\ firstPriorityRequestId' \in Nat /\ totalOpenPriorityRequests' \in Nat
  <2>1. DeleteRequests(p)
    BY <1>2, <1>4
  <2> HIDE DEF p
  <2> QED BY <1>2, <1>4, <2>1, DeleteKeepsRequests
<1>6. CountersTyped'
  BY <1>2, <1>3, <1>5 DEF CountersTyped
<1>7. BlocksFormed'
  BY <1>2 DEF BlocksFormed
<1>8. BlocksHoldRequests'
  <2>1. PICK new : new = [n \in v + 1 .. c |-> off[n] - p]
    OBVIOUS
  <2>2. \A n \in v + 1 .. c : /\ n \in v .. c /\ new[n] = off[n] - p
                              /\ off[n] \in Nat /\ off[n] >= p
    BY <1>1, <1>3, <1>4, <2>1 DEF Offsets
  <2>3. Offsets(new)'
    <3>1. \A n \in v + 1 .. c : new[n] \in Nat
      BY <1>4, <2>2
    <3>2. new[v + 1] = 0
      BY <1>3, <1>4, <2>2
    <3>3. \A n \in v + 1 + 1 .. c : new[n] = new[n - 1] + blocks[n].priorityOperations
      <4> TAKE n \in v + 1 + 1 .. c
      <4>1. n \in v + 1 .. c /\ n - 1 \in v + 1 .. c
        BY <1>3
      <4>2. /\ off[n] = off[n - 1] + blocks[n].priorityOperations
            /\ blocks[n].priorityOperations = Len(PriorityOps(blocks[n].ops))
            /\ Len(PriorityOps(blocks[n].ops)) \in Nat
        BY <1>1, <4>1, OffsetsBound DEF Offsets
      <4>3. new[n] = off[n] - p /\ new[n - 1] = off[n - 1] - p /\ off[n - 1] \in Nat
        BY <2>2, <4>1
      <4> HIDE DEF v, c, p
      <4>4. PICK q \in Nat : q = blocks[n].priorityOperations
        BY <4>2
      <4> QED BY <1>4, <4>2, <4>3, <4>4
    <3>4. \A m, n \in v + 1 .. c : m <= n => new[m] <= new[n]
      BY <1>1, <1>4, <2>2 DEF Offsets
    <3>5. new[c] = totalCommittedPriorityRequests'
      <4>1. c \in v + 1 .. c
        BY <1>3
      <4>2. new[c] = off[c] - p
        BY <2>2, <4>1
      <4>3. off[c] = totalCommittedPriorityRequests
        BY <1>1 DEF Offsets
      <4> QED BY <1>2, <1>4, <4>2, <4>3
    <3> QED BY <1>2, <3>1, <3>2, <3>3, <3>4, <3>5 DEF Offsets
  <2>4. BlocksAnswer(new)'
    <3>1. totalCommittedPriorityRequests' <= totalOpenPriorityRequests'
      <4>1. totalCommittedPriorityRequests <= totalOpenPriorityRequests
            /\ totalCommittedPriorityRequests \in Nat
        <5>1. totalCommittedPriorityRequests <= totalOpenPriorityRequests
          BY <1>1, <1>2 DEF BlocksAnswer
        <5>2. c \in v .. c
          BY <1>3
        <5>3. totalCommittedPriorityRequests \in Nat
          BY <1>1, <5>2 DEF Offsets
        <5> QED BY <5>1, <5>3
      <4> QED BY <1>2, <1>3, <1>4, <1>5, <4>1
    <3>2. ASSUME NEW n \in v + 1 + 1 .. c
          PROVE  Answers(requested, firstPriorityRequestId' + new[n - 1], blocks[n].ops)
      <4>1. n \in v + 1 .. c /\ n - 1 \in v + 1 .. c
        BY <1>3
      <4>2. Answers(requested, firstPriorityRequestId + off[n - 1], blocks[n].ops)
        BY <1>1, <1>2, <4>1 DEF BlocksAnswer
      <4>3. firstPriorityRequestId' + new[n - 1] = firstPriorityRequestId + off[n - 1]
        <5>1. new[n - 1] = off[n - 1] - p /\ off[n - 1] \in Nat
          BY <2>2, <4>1
        <5> QED BY <1>3, <1>4, <1>5, <5>1
      <4> QED BY <4>2, <4>3
    <3> QED BY <1>2, <3>1, <3>2 DEF BlocksAnswer
  <2> QED BY <2>3, <2>4 DEF BlocksHoldRequests
<1>9. ProcessedTyped' /\ RequestsInOrder'
  <2>1. /\ processed \in Seq(Operation) /\ Len(processed) = firstPriorityRequestId
        /\ taken \in Seq(Operation)
    BY <1>2, <1>4, PriorityOpsFacts DEF ProcessedTyped, RequestsInOrder
  <2>2. /\ processed' \in Seq(Operation) /\ Len(processed') = firstPriorityRequestId + p
        /\ \A n \in 1 .. firstPriorityRequestId + p :
              processed'[n] = IF n <= firstPriorityRequestId THEN processed[n]
                              ELSE taken[n - firstPriorityRequestId]
    <3> HIDE DEF taken
    <3> QED BY <1>2, <2>1, ConcatProperties DEF taken
  <2>3. \A n \in DOMAIN processed' : requested[n].type = processed'[n].type
                                     /\ requested[n].owner = processed'[n].owner
    <3> TAKE n \in DOMAIN processed'
    <3>1. n \in 1 .. firstPriorityRequestId + p
      BY <2>2, LenProperties
    <3>2. CASE n <= firstPriorityRequestId
      <4>1. n \in DOMAIN processed
        BY <1>3, <2>1, <3>1, <3>2, LenProperties
      <4>2. processed'[n] = processed[n]
        BY <2>2, <3>1, <3>2
      <4> QED BY <4>1, <4>2 DEF RequestsInOrder
    <3>3. CASE ~ (n <= firstPriorityRequestId)
      <4> DEFINE k == n - firstPriorityRequestId
      <4>1. k \in 1 .. p /\ n = firstPriorityRequestId + k
        BY <1>3, <1>4, <3>1, <3>3
      <4>2. processed'[n] = taken[k]
        BY <2>2, <3>1, <3>3
      <4>3. Matches(requested[firstPriorityRequestId + k], taken[k])
        <5>1. Answers(requested, firstPriorityRequestId + off[v + 1 - 1], blocks[v + 1].ops)
          BY <1>1, <1>2, <1>3 DEF BlocksAnswer
        <5>2. firstPriorityRequestId + off[v + 1 - 1] = firstPriorityRequestId
          BY <1>1, <1>3 DEF Offsets
        <5>3. Answers(requested, firstPriorityRequestId, ops)
          BY <5>1, <5>2
        <5> HIDE DEF k, ops
        <5> QED BY <4>1, <5>3 DEF Answers
      <4> HIDE DEF k, taken
      <4> QED BY <4>1, <4>2, <4>3 DEF Matches
    <3> QED BY <3>2, <3>3
  <2>4. requested' = requested /\ firstPriorityRequestId' = firstPriorityRequestId + p
        /\ Len(processed') = firstPriorityRequestId' /\ firstPriorityRequestId' \in Nat
    BY <1>2, <1>5, <2>2
  <2> QED BY <2>2, <2>3, <2>4 DEF ProcessedTyped, RequestsInOrder
<1> QED BY <1>5, <1>6, <1>7, <1>8, <1>9

\* revertBlocks frees as many requests as the reverted blocks hold.
LEMMA RevertKeepsQueue ==
  ASSUME QueueInv, NEW max \in 1 .. MaxCommits, RevertBlocks(max)
  PROVE  QueueInv'
<1> USE DEF QueueInv
<1> DEFINE v == totalBlocksVerified
           c == totalBlocksCommitted
           number == MinOf(max, c - v)
           low == c - number
           reverted == c - number + 1 .. c
<1>1. PICK off : Offsets(off) /\ BlocksAnswer(off)
  BY DEF BlocksHoldRequests
<1>2. /\ c > v
      /\ blocks' = Restrict(blocks, DOMAIN blocks \ reverted)
      /\ totalBlocksCommitted' = low
      /\ totalCommittedPriorityRequests' = totalCommittedPriorityRequests - RequestsFreed(reverted)
      /\ UNCHANGED <<height, priorityRequests, firstPriorityRequestId, totalOpenPriorityRequests,
                     totalBlocksVerified, processed, requested, exodusMode>>
  BY DEF RevertBlocks, CommitmentExpired, queue, exodus
<1>3. v \in Nat /\ c \in Nat /\ low \in v .. c /\ low \in Nat /\ low < c
  BY <1>2, ContractAssumption DEF CountersTyped, MinOf
<1>4. \A n \in v .. c : off[n] \in Nat
  BY <1>1 DEF Offsets
<1>5. RequestsFreed(reverted) = off[c] - off[low]
  <2>1. PICK f : f = [n \in reverted |-> blocks[n].priorityOperations]
    OBVIOUS
  <2>2. \A n \in reverted : f[n] = off[n] - off[n - 1] /\ f[n] \in Int
    <3> TAKE n \in reverted
    <3>1. n \in v + 1 .. c /\ n \in v .. c /\ n - 1 \in v .. c
      BY <1>3
    <3>2. /\ off[n] = off[n - 1] + blocks[n].priorityOperations
          /\ blocks[n].priorityOperations = Len(PriorityOps(blocks[n].ops))
          /\ Len(PriorityOps(blocks[n].ops)) \in Nat
      BY <1>1, <3>1, OffsetsBound DEF Offsets
    <3>3. f[n] = blocks[n].priorityOperations
      BY <2>1
    <3> HIDE DEF v, c, reverted
    <3> QED BY <1>4, <3>1, <3>2, <3>3
  <2>3. reverted = low + 1 .. c /\ f \in [reverted -> Int] /\ \A n \in low .. c : off[n] \in Int
    BY <1>3, <1>4, <2>1, <2>2
  <2>4. low \in Int /\ c \in Int /\ low <= c /\ \A n \in reverted : f[n] = off[n] - off[n - 1]
    BY <1>3, <2>2
  <2>5. RequestsFreed(reverted) = SumFunction(f)
    BY <2>1 DEF RequestsFreed, TotalOf
  <2> HIDE DEF low, c, reverted
  <2>6. SumFunction(f) = off[c] - off[low]
    <3>1. AreSteps(f, off, low, c)
      BY <2>3, <2>4 DEF AreSteps
    <3> QED BY ONLY <3>1, SumOfSteps
  <2> QED BY <2>5, <2>6
<1>6. totalCommittedPriorityRequests' = off[low] /\ off[low] \in Nat
      /\ off[low] <= totalCommittedPriorityRequests /\ totalCommittedPriorityRequests \in Nat
  <2>1. off[c] = totalCommittedPriorityRequests /\ off[low] <= off[c] /\ c \in v .. c
    BY <1>1, <1>3 DEF Offsets
  <2>2. off[c] \in Nat /\ off[low] \in Nat
    BY <1>3, <1>4, <2>1
  <2> HIDE DEF low, c, reverted
  <2> QED BY <1>2, <1>5, <2>1, <2>2
<1>7. CountersTyped'
  BY <1>2, <1>3 DEF CountersTyped
<1>8. QueueOfRequests' /\ ProcessedTyped' /\ RequestsInOrder'
  BY <1>2 DEF QueueOfRequests, ProcessedTyped, RequestsInOrder
<1>9. DOMAIN blocks' = 0 .. low /\ \A n \in 0 .. low : blocks'[n] = blocks[n] /\ n \in 0 .. c
  <2>1. DOMAIN blocks = 0 .. c
    BY DEF BlocksFormed
  <2>2. DOMAIN blocks' = DOMAIN blocks \ reverted
        /\ \A n \in DOMAIN blocks \ reverted : blocks'[n] = blocks[n]
    BY <1>2 DEF Restrict
  <2>3. (0 .. c) \ reverted = 0 .. low /\ \A n \in 0 .. low : n \in 0 .. c
    BY <1>3
  <2> HIDE DEF low, c, reverted
  <2> QED BY <2>1, <2>2, <2>3
<1>10. BlocksFormed'
  <2>1. \A n \in 1 .. low : n \in 0 .. low /\ n \in 1 .. c
    BY <1>3
  <2> HIDE DEF low
  <2> QED BY <1>2, <1>9, <2>1 DEF BlocksFormed
<1>11. BlocksHoldRequests'
  <2>1. \A n \in v .. low : n \in v .. c
    BY <1>3
  <2>2. \A n \in v + 1 .. low : n \in v + 1 .. c /\ n \in 0 .. low
    BY <1>3
  <2>3. Offsets(off)'
    <3>1. \A n \in v .. low : off[n] \in Nat
      BY <1>4, <2>1
    <3>2. \A n \in v + 1 .. low : off[n] = off[n - 1] + blocks'[n].priorityOperations
      <4> HIDE DEF low
      <4> QED BY <1>1, <1>9, <2>2 DEF Offsets
    <3>3. \A m, n \in v .. low : m <= n => off[m] <= off[n]
      <4> HIDE DEF low
      <4> QED BY <1>1, <2>1 DEF Offsets
    <3>4. off[v] = 0
      BY <1>1 DEF Offsets
    <3> HIDE DEF low
    <3> QED BY <1>2, <1>6, <3>1, <3>2, <3>3, <3>4 DEF Offsets
  <2>4. BlocksAnswer(off)'
    <3> SUFFICES ASSUME ~exodusMode
                 PROVE  /\ totalCommittedPriorityRequests' <= totalOpenPriorityRequests
                        /\ \A n \in v + 1 .. low :
                              Answers(requested, firstPriorityRequestId + off[n - 1], blocks'[n].ops)
      BY <1>2 DEF BlocksAnswer
    <3>1. totalCommittedPriorityRequests' <= totalOpenPriorityRequests
      BY <1>1, <1>6 DEF BlocksAnswer, CountersTyped
    <3>2. \A n \in v + 1 .. low :
             Answers(requested, firstPriorityRequestId + off[n - 1], blocks'[n].ops)
      <4> HIDE DEF low
      <4> QED BY <1>1, <1>9, <2>2 DEF BlocksAnswer
    <3> QED BY <3>1, <3>2
  <2> QED BY <2>3, <2>4 DEF BlocksHoldRequests
<1> QED BY <1>7, <1>8, <1>10, <1>11

\* cancelOutstandingDepositsForExodusMode runs in exodus mode, when no block counts.
LEMMA CancelKeepsQueue ==
  ASSUME QueueInv, NEW n \in Nat, CancelOutstandingDeposits(n)
  PROVE  QueueInv'
<1> USE DEF QueueInv
<1> DEFINE number == MinOf(n, totalOpenPriorityRequests)
<1>1. /\ exodusMode /\ DeleteRequests(number) /\ number \in Nat
      /\ UNCHANGED <<height, blocks, totalBlocksCommitted, totalBlocksVerified,
                     totalCommittedPriorityRequests, processed, requested, exodusMode>>
  BY DEF CancelOutstandingDeposits, rollup, exodus, MinOf, CountersTyped
<1> HIDE DEF number
<1>2. /\ QueueOfRequests'
      /\ firstPriorityRequestId' = firstPriorityRequestId + number
      /\ totalOpenPriorityRequests' = totalOpenPriorityRequests - number
      /\ firstPriorityRequestId' \in Nat /\ totalOpenPriorityRequests' \in Nat
  BY <1>1, DeleteKeepsRequests
<1>3. CountersTyped' /\ BlocksFormed' /\ ProcessedTyped'
  BY <1>1, <1>2 DEF CountersTyped, BlocksFormed, ProcessedTyped
<1>4. BlocksHoldRequests'
  <2>1. PICK off : Offsets(off)
    BY DEF BlocksHoldRequests
  <2>2. Offsets(off)' /\ BlocksAnswer(off)'
    BY <1>1, <2>1 DEF Offsets, BlocksAnswer
  <2> QED BY <2>2 DEF BlocksHoldRequests
<1>5. RequestsInOrder'
  <2>1. Len(processed) \in Nat /\ firstPriorityRequestId \in Nat
    BY LenProperties DEF ProcessedTyped, CountersTyped
  <2> QED BY <1>1, <1>2, <2>1 DEF RequestsInOrder
<1> QED BY <1>2, <1>3, <1>4, <1>5

\* The other functions leave the queue and the blocks as they are.
LEMMA OthersKeepQueue ==
  ASSUME QueueInv,
         UNCHANGED <<priorityRequests, firstPriorityRequestId, totalOpenPriorityRequests, blocks,
                     totalBlocksCommitted, totalBlocksVerified, totalCommittedPriorityRequests,
                     processed, requested>>,
         height' \in Nat, exodusMode' \in BOOLEAN, exodusMode => exodusMode'
  PROVE  QueueInv'
<1> USE DEF QueueInv
<1>1. CountersTyped' /\ QueueOfRequests' /\ BlocksFormed' /\ ProcessedTyped' /\ RequestsInOrder'
  BY DEF CountersTyped, QueueOfRequests, BlocksFormed, ProcessedTyped, RequestsInOrder
<1>2. BlocksHoldRequests'
  <2>1. PICK off : Offsets(off) /\ BlocksAnswer(off)
    BY DEF BlocksHoldRequests
  <2>2. Offsets(off)' /\ BlocksAnswer(off)'
    BY <2>1 DEF Offsets, BlocksAnswer
  <2> QED BY <2>2 DEF BlocksHoldRequests
<1> QED BY <1>1, <1>2

\* What depositETH and fullExit ask for.
LEMMA UserRequests ==
  ASSUME NEW owner \in Owners
  PROVE  /\ [type |-> "Deposit", owner |-> owner, amount |-> 1] \in UserRequest
         /\ [type |-> "FullExit", owner |-> owner, amount |-> 0] \in UserRequest
BY DEF UserRequest

\* Every step of the contract keeps the invariant.
LEMMA QueueStep == QueueInv /\ [Next]_vars => QueueInv'
<1> SUFFICES ASSUME QueueInv, [Next]_vars
             PROVE  QueueInv'
  OBVIOUS
<1>0. height \in Nat /\ exodusMode \in BOOLEAN
  BY DEF QueueInv, CountersTyped
<1>1. CASE Mine
  <2>1. height' \in Nat
    BY <1>0, <1>1 DEF Mine
  <2> QED BY <1>0, <1>1, <2>1, OthersKeepQueue DEF Mine, queue, rollup, exodus
<1>2. CASE Validator
  <2>1. ASSUME NEW ops \in PublicDatas, NEW root, CommitBlock(ops, root)
        PROVE  QueueInv'
    BY <2>1, ContractAssumption, CommitKeepsQueue
  <2>2. CASE VerifyBlock
    BY <2>2, VerifyKeepsQueue
  <2>3. ASSUME NEW max \in 1 .. MaxCommits, RevertBlocks(max)
        PROVE  QueueInv'
    BY <2>3, RevertKeepsQueue
  <2> QED BY <1>2, <2>1, <2>2, <2>3 DEF Validator
<1>3. CASE Users
  <2>1. ASSUME NEW owner \in Owners, DepositETH(owner)
        PROVE  QueueInv'
    <3>1. Request([type |-> "Deposit", owner |-> owner, amount |-> 1])
          /\ UNCHANGED <<height, rollup, exodus>>
      BY <2>1 DEF DepositETH, RegisterDeposit
    <3> QED BY <3>1, UserRequests, RequestKeepsQueue
  <2>2. ASSUME NEW owner \in Owners, FullExit(owner)
        PROVE  QueueInv'
    <3>1. Request([type |-> "FullExit", owner |-> owner, amount |-> 0])
          /\ UNCHANGED <<height, rollup, exodus>>
      BY <2>2 DEF FullExit
    <3> QED BY <3>1, UserRequests, RequestKeepsQueue
  <2>3. ASSUME NEW owner \in Owners, WithdrawETH(owner)
        PROVE  QueueInv'
    BY <1>0, <2>3, OthersKeepQueue DEF WithdrawETH, queue, rollup, exodus
  <2>4. ASSUME NEW owner \in Owners, Exit(owner)
        PROVE  QueueInv'
    BY <1>0, <2>4, OthersKeepQueue DEF Exit, queue, rollup
  <2>5. ASSUME NEW sent \in SUBSET Owners, NEW n \in {1, MaxRequests}, CompleteWithdrawals(n, sent)
        PROVE  QueueInv'
    BY <1>0, <2>5, OthersKeepQueue DEF CompleteWithdrawals, queue, rollup, exodus
  <2> QED BY <1>3, <2>1, <2>2, <2>3, <2>4, <2>5 DEF Users
<1>4. CASE TriggerExodusIfNeeded
  BY <1>0, <1>4, OthersKeepQueue DEF TriggerExodusIfNeeded, queue, rollup
<1>5. CASE Cancel
  <2>1. PICK n \in {1, MaxRequests} : CancelOutstandingDeposits(n)
    BY <1>5 DEF Cancel
  <2>2. n \in Nat
    BY ContractAssumption
  <2> QED BY <2>1, <2>2, CancelKeepsQueue
<1>6. CASE UNCHANGED vars
  BY <1>0, <1>6, OthersKeepQueue DEF vars, queue, rollup, exodus
<1> QED BY <1>1, <1>2, <1>3, <1>4, <1>5, <1>6 DEF Next

\* The committed blocks, one after the other, hold the first open requests.
LEMMA BlocksLead ==
  ASSUME CountersTyped, BlocksFormed, BlocksHoldRequests
  PROVE  CommittedRequestsLead
<1> SUFFICES ASSUME ~exodusMode
             PROVE  CommittedRequestsLead
  BY DEF CommittedRequestsLead
<1> DEFINE v == totalBlocksVerified
           c == totalBlocksCommitted
<1>1. PICK off : Offsets(off) /\ BlocksAnswer(off)
  BY DEF BlocksHoldRequests
<1>2. v \in Nat /\ c \in Nat /\ v <= c /\ firstPriorityRequestId \in Nat
  BY DEF CountersTyped
<1>3. PICK s : s = [n \in 1 .. c - v |-> PriorityOps(blocks[v + n].ops)]
  OBVIOUS
<1>4. PICK o : o = [i \in 0 .. c - v |-> off[v + i]]
  OBVIOUS
<1>5. \A i \in 1 .. c - v :
         /\ s[i] = PriorityOps(blocks[v + i].ops) /\ s[i] \in Seq(Operation)
         /\ o[i - 1] \in Nat /\ o[i] = o[i - 1] + Len(s[i])
         /\ \A k \in 1 .. Len(s[i]) : Matches(requested[firstPriorityRequestId + o[i - 1] + k], s[i][k])
  <2> TAKE i \in 1 .. c - v
  <2>0. PICK n : n = v + i
    OBVIOUS
  <2>1. /\ n \in v + 1 .. c /\ n - 1 = v + (i - 1)
        /\ i \in 0 .. c - v /\ i - 1 \in 0 .. c - v
    BY <1>2, <2>0
  <2>2. s[i] = PriorityOps(blocks[n].ops) /\ o[i] = off[n] /\ o[i - 1] = off[n - 1]
    BY <1>3, <1>4, <2>0, <2>1
  <2>3. blocks[n].ops \in Seq(Operation)
    BY <1>1, <2>1, OffsetsBound
  <2>4. off[n - 1] \in Nat
    BY <1>1, <2>1, OffsetsBound
  <2>5. off[n] = off[n - 1] + Len(PriorityOps(blocks[n].ops))
    BY <1>1, <2>1, OffsetsBound
  <2>6. Answers(requested, firstPriorityRequestId + off[n - 1], blocks[n].ops)
    BY <1>1, <2>1 DEF BlocksAnswer
  <2>7. \A k \in 1 .. Len(s[i]) : Matches(requested[firstPriorityRequestId + o[i - 1] + k], s[i][k])
    BY <2>2, <2>6 DEF Answers
  <2>8. s[i] \in Seq(Operation)
    BY <2>2, <2>3, PriorityOpsFacts
  <2> HIDE DEF v, c
  <2> QED BY <2>0, <2>2, <2>4, <2>5, <2>7, <2>8
<1>6. s \in Seq(Seq(Operation)) /\ Len(s) = c - v
  <2>1. c - v \in Nat
    BY <1>2
  <2>2. s \in [1 .. c - v -> Seq(Operation)]
    <3>1. \A i \in 1 .. c - v : s[i] \in Seq(Operation)
      BY <1>5
    <3> QED BY <1>3, <3>1
  <2> HIDE DEF c, v
  <2> QED BY <2>1, <2>2, SeqDef, LenProperties
<1>7. o[0] = 0 /\ o[c - v] = totalCommittedPriorityRequests
  <2>1. off[v] = 0 /\ off[c] = totalCommittedPriorityRequests /\ v + 0 = v /\ v + (c - v) = c
        /\ 0 \in 0 .. c - v /\ c - v \in 0 .. c - v
    BY <1>1, <1>2 DEF Offsets
  <2> QED BY <1>4, <2>1
<1>8. PICK ops : ops = FlattenSeq(s)
  OBVIOUS
<1>9. /\ ops \in Seq(Operation) /\ Len(ops) = totalCommittedPriorityRequests
      /\ \A p \in 1 .. Len(ops) : IsPlace(p, ops, s, o)
  <2> HIDE DEF c, v
  <2>1. \A i \in 1 .. Len(s) : o[i] = o[i - 1] + Len(s[i])
    BY <1>5, <1>6
  <2>2. FlattenSeq(s) \in Seq(Operation)
    BY <1>6, <1>7, <2>1, FlattenPositions
  <2>3. Len(FlattenSeq(s)) = o[Len(s)]
    BY <1>6, <1>7, <2>1, FlattenPositions
  <2>4. \A p \in 1 .. Len(FlattenSeq(s)) : IsPlace(p, FlattenSeq(s), s, o)
    BY <1>6, <1>7, <2>1, FlattenPositions
  <2> QED BY <1>6, <1>7, <1>8, <2>2, <2>3, <2>4
<1>10. \A n \in DOMAIN ops : /\ requested[firstPriorityRequestId + n].type = ops[n].type
                             /\ requested[firstPriorityRequestId + n].owner = ops[n].owner
  <2> TAKE n \in DOMAIN ops
  <2>1. n \in 1 .. Len(ops)
    BY <1>9, LenProperties
  <2>2. PICK i \in 1 .. Len(s) : \E k \in 1 .. Len(s[i]) : n = o[i - 1] + k /\ ops[n] = s[i][k]
    BY <1>9, <2>1 DEF IsPlace
  <2>3. PICK k \in 1 .. Len(s[i]) : n = o[i - 1] + k /\ ops[n] = s[i][k]
    BY <2>2
  <2>4. i \in 1 .. c - v
    BY <1>6
  <2>5. Matches(requested[firstPriorityRequestId + o[i - 1] + k], s[i][k]) /\ o[i - 1] \in Nat
    BY <1>5, <2>4
  <2>6. firstPriorityRequestId + o[i - 1] + k = firstPriorityRequestId + n
    <3>1. k \in Int
      OBVIOUS
    <3> QED BY <1>2, <2>3, <2>5, <3>1
  <2> QED BY <2>3, <2>5, <2>6 DEF Matches
<1>11. totalCommittedPriorityRequests <= totalOpenPriorityRequests
  BY <1>1 DEF BlocksAnswer
<1>12. ops = FlattenSeq([n \in 1 .. totalBlocksCommitted - totalBlocksVerified |->
                           PriorityOps(blocks[totalBlocksVerified + n].ops)])
  BY <1>3, <1>8, Zenon
<1> QED BY <1>9, <1>10, <1>11, <1>12, Zenon DEF CommittedRequestsLead

\* The blocks that are not verified hold the first open requests in the order of
\* the queue, through commits, verifications and reverts, and what verified blocks
\* have processed is what users asked for, in its order (collectOnchainOps,
\* deleteRequests, revertBlocks), for every set of owners and public data.
THEOREM QueueFollows == Spec => []QueueFollowsBlocks
<1>1. Init => QueueInv
  BY QueueInitially
<1>2. QueueInv /\ [Next]_vars => QueueInv'
  BY QueueStep
<1>3. QueueInv => QueueFollowsBlocks
  BY BlocksLead DEF QueueInv, QueueFollowsBlocks
<1> QED BY <1>1, <1>2, <1>3, PTL DEF Spec
-----------------------------------------------------------------------------
(* The funds *)

RootsTyped ==
  /\ \A n \in 0 .. totalBlocksCommitted : blocks[n].root \in Balances
  /\ \A n \in 0 .. totalBlocksVerified : blocks[n].root \in [Owners -> Nat]

PendingTyped ==
  /\ firstPendingWithdrawalIndex \in Nat /\ numberOfPendingWithdrawals \in Nat
  /\ pendingWithdrawals \in
        [firstPendingWithdrawalIndex .. firstPendingWithdrawalIndex + numberOfPendingWithdrawals - 1
           -> Owners]

OwedTyped == vault \in Nat /\ balancesToWithdraw \in [Owners -> Nat]

\* Nobody leaves before exodus mode, and no block is verified in it.
ExitsInExodus == exited \subseteq Owners /\ (exited # {} => exodusMode)

FundsInv == RootsTyped /\ PendingTyped /\ OwedTyped /\ ExitsInExodus /\ FundsCovered

ChangesBy(f, g, o, a) ==
  /\ f \in Balances /\ g \in Balances /\ o \in Owners /\ a \in Int
  /\ g[o] = f[o] + a
  /\ \A x \in Owners \ {o} : g[x] = f[x]

\* What becomes of one balance, and of no other.
LEMMA OneBalance ==
  ASSUME NEW f \in [Owners -> Nat], NEW o \in Owners, NEW a \in Int, f[o] + a \in Nat,
         NEW g, g = [f EXCEPT ![o] = f[o] + a]
  PROVE  g \in [Owners -> Nat] /\ ChangesBy(f, g, o, a)
<1>1. g \in [Owners -> Nat]
  OBVIOUS
<1>2. g[o] = f[o] + a /\ \A x \in Owners \ {o} : g[x] = f[x]
  OBVIOUS
<1>3. f \in Balances /\ g \in Balances
  BY <1>1 DEF Balances
<1> QED BY <1>1, <1>2, <1>3 DEF ChangesBy

\* One balance changes: so does the total.
LEMMA BalanceChanges ==
  ASSUME NEW f, NEW g, NEW o, NEW a, ChangesBy(f, g, o, a)
  PROVE  TotalOf(g) = TotalOf(f) + a
<1> USE DEF ChangesBy
<1>1. IsFiniteSet(Owners) /\ f \in [Owners -> Int] /\ g \in [Owners -> Int]
  BY ContractAssumption DEF Balances
<1>2. SumFunction(g) = SumFunction(f) - f[o] + g[o]
  BY <1>1, SumChanges
<1>3. SumFunction(f) \in Int
  BY <1>1, SumIsInt
<1>4. f[o] \in Int
  BY <1>1
<1> QED BY <1>2, <1>3, <1>4 DEF TotalOf

\* The balances after the first operations are those of the trace.
LEMMA ApplyPrefix ==
  ASSUME NEW l2 \in Balances, NEW ops \in Seq(Operation), NEW t, ApplyTrace(t, l2, ops)
  PROVE  \A i \in 0 .. Len(ops) : FoldLeft(Apply, l2, SubSeq(ops, 1, i)) = t[i]
<1> TAKE i \in 0 .. Len(ops)
<1> DEFINE s == SubSeq(ops, 1, i)
<1>0. i \in Nat /\ Len(ops) \in Nat
  BY LenProperties
<1>1. s \in Seq(Operation) /\ Len(s) = i /\ \A k \in 1 .. i : s[k] = ops[k]
  <2>1. \A k \in 1 .. Len(ops) : ops[k] \in Operation
    BY ElementOfSeq
  <2> QED BY <1>0, <2>1, SubSeqProperties
<1> HIDE DEF s
<1>2. PICK u : ApplyTrace(u, l2, s)
  BY <1>1, ApplyHasTrace
<1> DEFINE T == {k \in 0 .. i : u[k] = t[k]}
<1>3. 0 \in T
  BY <1>0, <1>2 DEF ApplyTrace
<1>4. \A k \in 1 .. i : k - 1 \in T => k \in T
  <2> TAKE k \in 1 .. i
  <2> HAVE k - 1 \in T
  <2>1. k \in 1 .. Len(ops) /\ k \in 1 .. Len(s) /\ k \in 0 .. i
    BY <1>0, <1>1
  <2>2. u[k] = Apply(u[k - 1], s[k]) /\ t[k] = Apply(t[k - 1], ops[k]) /\ s[k] = ops[k]
    BY <1>1, <1>2, <2>1 DEF ApplyTrace
  <2>3. u[k - 1] = t[k - 1]
    OBVIOUS
  <2>4. u[k] = t[k]
    BY <2>2, <2>3, Zenon
  <2> QED BY <2>1, <2>4
<1>5. 0 .. i \subseteq T
  <2> HIDE DEF T
  <2> QED BY <1>0, <1>3, <1>4, AlongInterval
<1>6. u[i] = t[i]
  <2>1. i \in 0 .. i
    BY <1>0
  <2> QED BY <1>5, <2>1
<1> QED BY <1>1, <1>2, <1>6 DEF ApplyTrace, s

ExitOps(ops) == Selected(ops, {op \in Range(ops) : op.type \in {"PartialExit", "FullExit"}})

\* The withdrawals of a block are its exits, in their order.
LEMMA WithdrawalsDataFacts ==
  ASSUME NEW ops \in Seq(Operation)
  PROVE  /\ WithdrawalsData(ops) \in Seq(Withdrawal)
         /\ Len(WithdrawalsData(ops)) = Len(ExitOps(ops))
         /\ \A n \in 1 .. Len(ExitOps(ops)) :
               /\ WithdrawalsData(ops)[n].owner = ExitOps(ops)[n].owner
               /\ WithdrawalsData(ops)[n].amount = ExitOps(ops)[n].amount
<1> DEFINE x == ExitOps(ops)
<1>1. x \in Seq(Operation)
  BY SelectedSelects DEF ExitOps
<1>2. Len(x) \in Nat /\ DOMAIN x = 1 .. Len(x) /\ \A n \in 1 .. Len(x) : x[n] \in Operation
  BY <1>1, LenProperties, ElementOfSeq
<1>3. WithdrawalsData(ops) = [n \in DOMAIN x |-> [owner |-> x[n].owner, amount |-> x[n].amount,
                                                  addToQueue |-> x[n].type = "PartialExit"]]
  BY Zenon DEF WithdrawalsData, ExitOps
<1> HIDE DEF x
<1>4. WithdrawalsData(ops) \in [1 .. Len(x) -> Withdrawal]
  BY <1>2, <1>3 DEF Operation, Withdrawal
<1>5. WithdrawalsData(ops) \in Seq(Withdrawal) /\ Len(WithdrawalsData(ops)) = Len(x)
  BY <1>2, <1>4, SeqDef, LenProperties
<1>6. \A n \in 1 .. Len(x) : /\ WithdrawalsData(ops)[n].owner = x[n].owner
                             /\ WithdrawalsData(ops)[n].amount = x[n].amount
  BY <1>2, <1>3
<1> QED BY <1>5, <1>6 DEF x

Stored(balances, ops) == FoldLeft(StoreBalance, balances, WithdrawalsData(ops))

DepositsIn(ops) == {k \in 1 .. Len(PriorityOps(ops)) : PriorityOps(ops)[k].type = "Deposit"}

Balanced(l2, balances, root, stored, deposits) ==
  TotalOf(root) + TotalOf(stored) = TotalOf(l2) + TotalOf(balances) + deposits

\* What the proof of a block allows: what the exits take from the balances of
\* layer 2 is what its withdrawals give, and its deposits are added.
LEMMA ProvedFunds ==
  ASSUME NEW l2 \in [Owners -> Nat], NEW ops \in Seq(Operation), NEW root,
         Provable(l2, ops, root), NEW balances \in [Owners -> Nat],
         \A k \in DepositsIn(ops) : PriorityOps(ops)[k].amount = 1
  PROVE  /\ root \in [Owners -> Nat]
         /\ Stored(balances, ops) \in [Owners -> Nat]
         /\ Balanced(l2, balances, root, Stored(balances, ops), Cardinality(DepositsIn(ops)))
<1> DEFINE n == Len(ops)
           data == WithdrawalsData(ops)
           stored == FoldLeft(StoreBalance, balances, data)
           x == ExitOps(ops)
           p == PriorityOps(ops)
           XK == {op \in Range(ops) : op.type \in {"PartialExit", "FullExit"}}
           PK == {op \in Range(ops) : IsPriority(op)}
<1>0. n \in Nat /\ DOMAIN ops = 1 .. n /\ \A i \in 1 .. n : ops[i] \in Operation /\ ops[i] \in Range(ops)
  BY LenProperties, ElementOfSeq, RangeIsImage
<1>a. l2 \in Balances /\ balances \in Balances
  BY DEF Balances
<1>1. PICK r : ApplyTrace(r, l2, ops)
  BY <1>a, ApplyHasTrace
<1>2. /\ root = r[n] /\ r[0] = l2
      /\ \A i \in 1 .. n : /\ r[i] = Apply(r[i - 1], ops[i])
                           /\ Possible(r[i - 1], ops[i])
  <2>1. \A i \in 0 .. n : FoldLeft(Apply, l2, SubSeq(ops, 1, i)) = r[i]
    BY <1>a, <1>1, ApplyPrefix
  <2>2. n \in 0 .. n /\ \A i \in 1 .. n : i - 1 \in 0 .. n
    BY <1>0
  <2>3. root = r[n]
    BY <2>1, <2>2 DEF Provable
  <2>4. \A i \in 1 .. n : Possible(r[i - 1], ops[i])
    BY <1>0, <2>1, <2>2 DEF Provable
  <2> QED BY <1>1, <2>3, <2>4 DEF ApplyTrace
<1>3. /\ data \in Seq(Withdrawal) /\ Len(data) = Len(x)
      /\ \A i \in 1 .. Len(x) : data[i].owner = x[i].owner /\ data[i].amount = x[i].amount
  BY WithdrawalsDataFacts
<1>4. PICK b : StoreTrace(b, balances, data)
  BY <1>a, <1>3, StoreHasTrace
<1>5. x = Selected(ops, XK) /\ p = Selected(ops, PK)
  BY DEF ExitOps, PriorityOps
<1>6. PICK cx : Selects(cx, ops, XK)
  BY SelectedSelects
<1>7. PICK cp : Selects(cp, ops, PK)
  BY SelectedSelects
<1>8. Len(x) \in Nat /\ Len(p) \in Nat
  BY LenProperties, <1>5, SelectedSelects
<1>9. /\ cx[0] = 0 /\ cx[n] = Len(x) /\ cp[0] = 0 /\ cp[n] = Len(p)
      /\ \A i \in 0 .. n : cx[i] \in 0 .. Len(x) /\ cp[i] \in 0 .. Len(p)
      /\ \A i \in 1 .. n :
            /\ IF ops[i] \in XK THEN cx[i] = cx[i - 1] + 1 /\ x[cx[i]] = ops[i] ELSE cx[i] = cx[i - 1]
            /\ IF ops[i] \in PK THEN cp[i] = cp[i - 1] + 1 /\ p[cp[i]] = ops[i] ELSE cp[i] = cp[i - 1]
  <2> HIDE DEF XK, PK, x, p
  <2> QED BY <1>5, <1>6, <1>7 DEF Selects
<1>10. \A i \in 1 .. n : /\ ops[i].type \in {"Deposit", "FullExit", "PartialExit", "Transfer"}
                         /\ ops[i] \in XK <=> ops[i].type \in {"PartialExit", "FullExit"}
                         /\ ops[i] \in PK <=> ops[i].type \in {"Deposit", "FullExit"}
  BY <1>0 DEF Operation, IsPriority
<1>11. /\ b[0] = balances /\ b[Len(x)] = stored
       /\ \A j \in 1 .. Len(x) : b[j] = StoreBalance(b[j - 1], data[j])
  <2> HIDE DEF x, data, stored
  <2> QED BY <1>3, <1>4 DEF StoreTrace, stored
<1> DEFINE D(m) == {k \in 1 .. m : p[k].type = "Deposit"}
           Funds(i) == /\ r[i] \in [Owners -> Nat] /\ b[cx[i]] \in [Owners -> Nat]
                       /\ TotalOf(r[i]) + TotalOf(b[cx[i]])
                            = TotalOf(l2) + TotalOf(balances) + Cardinality(D(cp[i]))
           T == {i \in 0 .. n : Funds(i)}
<1>12. TotalOf(l2) \in Int /\ TotalOf(balances) \in Int
       /\ \A m \in Nat : IsFiniteSet(D(m)) /\ Cardinality(D(m)) \in Nat
  <2>1. IsFiniteSet(Owners) /\ l2 \in [Owners -> Int] /\ balances \in [Owners -> Int]
    BY ContractAssumption
  <2>2. \A m \in Nat : IsFiniteSet(D(m))
    <3> TAKE m \in Nat
    <3>1. IsFiniteSet(1 .. m) /\ D(m) \subseteq 1 .. m
      BY FS_Interval
    <3> HIDE DEF D
    <3> QED BY <3>1, FS_Subset
  <2> QED BY <2>1, <2>2, SumIsInt, FS_CardinalityType DEF TotalOf
<1>13. 0 \in T
  <2>1. D(cp[0]) = {} /\ Cardinality({}) = 0
    BY <1>9, FS_EmptySet
  <2>2. Cardinality(D(cp[0])) = 0
    BY <2>1
  <2>3. r[0] = l2 /\ b[cx[0]] = balances /\ 0 \in 0 .. n
    BY <1>0, <1>2, <1>9, <1>11
  <2> HIDE DEF D
  <2>4. r[0] \in [Owners -> Nat] /\ b[cx[0]] \in [Owners -> Nat]
    BY <2>3
  <2>5. TotalOf(r[0]) + TotalOf(b[cx[0]])
          = TotalOf(l2) + TotalOf(balances) + Cardinality(D(cp[0]))
    BY <1>12, <2>2, <2>3
  <2> QED BY <2>3, <2>4, <2>5
<1> HIDE DEF n, x, p, data, stored, XK, PK
<1>14. \A i \in 1 .. n : i - 1 \in T => i \in T
  <2> TAKE i \in 1 .. n
  <2> HAVE i - 1 \in T
  <2>1. i \in 0 .. n /\ i - 1 \in 0 .. n
    BY <1>0
  <2>2. PICK f : f = r[i - 1]
    OBVIOUS
  <2>3. PICK g : g = r[i]
    OBVIOUS
  <2>4. PICK s : s = b[cx[i - 1]]
    OBVIOUS
  <2>5. PICK op : op = ops[i]
    OBVIOUS
  <2>6. /\ op \in Operation /\ op.owner \in Owners /\ op.amount \in Nat
        /\ g = Apply(f, op) /\ Possible(f, op)
    BY <1>0, <1>2, <2>2, <2>3, <2>5 DEF Operation
  <2>7. Funds(i - 1)
    <3> HIDE DEF Funds
    <3> QED OBVIOUS
  <2>8. /\ f \in [Owners -> Nat] /\ s \in [Owners -> Nat] /\ f \in Balances /\ s \in Balances
        /\ TotalOf(f) + TotalOf(s) = TotalOf(l2) + TotalOf(balances) + Cardinality(D(cp[i - 1]))
    BY <2>2, <2>4, <2>7 DEF Balances
  <2>9. cp[i - 1] \in Nat /\ TotalOf(f) \in Int /\ TotalOf(s) \in Int
    <3>1. cp[i - 1] \in Nat
      BY <1>8, <1>9, <2>1
    <3>2. TotalOf(f) \in Int /\ TotalOf(s) \in Int
      BY <2>8, SumIsInt, ContractAssumption DEF TotalOf, Balances
    <3> QED BY <3>1, <3>2
  <2>10. CASE op.type = "Deposit"
    <3>1. ops[i] \notin XK /\ ops[i] \in PK
      BY <1>10, <2>5, <2>10
    <3>2. cx[i] = cx[i - 1] /\ cp[i] = cp[i - 1] + 1 /\ p[cp[i]] = op
      BY <1>9, <2>5, <3>1
    <3>3. op.amount = 1
      <4>1. cp[i] \in 1 .. Len(p)
        BY <1>8, <1>9, <2>1, <2>9, <3>2
      <4>2. cp[i] \in DepositsIn(ops)
        BY <4>1, <3>2, <2>10 DEF DepositsIn, p
      <4> QED BY <4>2, <3>2 DEF p
    <3>4. g \in [Owners -> Nat] /\ ChangesBy(f, g, op.owner, 1)
      <4>1. g = [f EXCEPT ![op.owner] = f[op.owner] + 1]
        BY <2>6, <2>8, <2>10, <3>3 DEF Apply
      <4>2. f[op.owner] + 1 \in Nat /\ 1 \in Int
        BY <2>6, <2>8
      <4>3. g \in [Owners -> Nat]
        BY <2>6, <2>8, <4>1, <4>2, OneBalance
      <4>4. ChangesBy(f, g, op.owner, 1)
        BY <2>6, <2>8, <4>1, <4>2, OneBalance
      <4> QED BY <4>3, <4>4
    <3>5. TotalOf(g) = TotalOf(f) + 1
      BY <3>4, BalanceChanges
    <3>6. Cardinality(D(cp[i])) = Cardinality(D(cp[i - 1])) + 1
      <4>1. D(cp[i]) = D(cp[i - 1]) \cup {cp[i]} /\ cp[i] \notin D(cp[i - 1])
        BY <2>9, <2>10, <3>2
      <4>2. IsFiniteSet(D(cp[i - 1]))
        BY <1>12, <2>9
      <4> HIDE DEF D
      <4> QED BY <4>1, <4>2, FS_AddElement
    <3>7. Cardinality(D(cp[i - 1])) \in Nat
      BY <1>12, <2>9
    <3>8. b[cx[i]] = s
      BY <2>4, <3>2
    <3>9. TotalOf(g) + TotalOf(s) = TotalOf(l2) + TotalOf(balances) + Cardinality(D(cp[i]))
      <4>1. \A F, S, A, B, C \in Int : F + S = A + B + C => (F + 1) + S = A + B + (C + 1)
        OBVIOUS
      <4> HIDE DEF D
      <4>2. Cardinality(D(cp[i - 1])) \in Int
        BY <3>7
      <4>3. TotalOf(l2) \in Int /\ TotalOf(balances) \in Int
        BY <1>12
      <4>4. PICK C : C = Cardinality(D(cp[i - 1]))
        OBVIOUS
      <4>5. PICK A : A = TotalOf(l2)
        OBVIOUS
      <4>6. PICK B : B = TotalOf(balances)
        OBVIOUS
      <4>7. TotalOf(f) + TotalOf(s) = A + B + C
        BY <2>8, <4>4, <4>5, <4>6
      <4>8. TotalOf(g) + TotalOf(s) = A + B + (C + 1)
        <5>1. \A F, S, G, E \in Int : F + S = E /\ G = F + 1 => G + S = E + 1
          OBVIOUS
        <5>2. A \in Int /\ B \in Int /\ C \in Int /\ TotalOf(g) \in Int
          BY <2>9, <3>5, <4>2, <4>3, <4>4, <4>5, <4>6
        <5>3. A + B + C \in Int /\ (A + B + C) + 1 = A + B + (C + 1)
          BY <5>2
        <5>4. TotalOf(g) + TotalOf(s) = (A + B + C) + 1
          BY <2>9, <3>5, <4>7, <5>1, <5>2, <5>3
        <5> QED BY <5>3, <5>4
      <4> QED BY <3>6, <4>4, <4>5, <4>6, <4>8, Zenon
    <3>10. Funds(i)
      <4> HIDE DEF D
      <4> QED BY <2>3, <2>8, <3>4, <3>8, <3>9
    <3> HIDE DEF Funds
    <3> QED BY <2>1, <3>10
  <2>11. CASE op.type \in {"FullExit", "PartialExit"}
    <3>0. op.type \in {"FullExit", "PartialExit"} /\ op.type # "Deposit"
      BY <2>11
    <3>1. ops[i] \in XK
      BY <1>10, <2>5, <3>0
    <3>2. cx[i] = cx[i - 1] + 1 /\ x[cx[i]] = op
      BY <1>9, <2>5, <3>1
    <3>3. PICK t : t = b[cx[i]]
      OBVIOUS
    <3>4. t = StoreBalance(s, data[cx[i]]) /\ data[cx[i]].owner = op.owner /\ data[cx[i]].amount = op.amount
      <4>0. cx[i] \in 0 .. Len(x) /\ cx[i - 1] \in 0 .. Len(x)
        BY <1>9, <2>1
      <4>1. cx[i] \in 1 .. Len(x) /\ cx[i] - 1 = cx[i - 1]
        <5>1. \A l \in Nat : \A j, k \in 0 .. l : k = j + 1 => k \in 1 .. l /\ k - 1 = j
          OBVIOUS
        <5>2. PICK j : j = cx[i - 1]
          OBVIOUS
        <5>3. PICK k : k = cx[i]
          OBVIOUS
        <5>4. j \in 0 .. Len(x) /\ k \in 0 .. Len(x) /\ k = j + 1
          BY <3>2, <4>0, <5>2, <5>3
        <5>5. k \in 1 .. Len(x) /\ k - 1 = j
          BY <1>8, <5>1, <5>4
        <5> QED BY <5>2, <5>3, <5>5
      <4> QED BY <1>3, <1>11, <2>4, <3>2, <3>3, <4>1
    <3>5. t \in [Owners -> Nat] /\ ChangesBy(s, t, op.owner, op.amount)
      <4>1. t = [s EXCEPT ![op.owner] = s[op.owner] + op.amount]
        BY <3>4 DEF StoreBalance
      <4>2. op.amount \in Int /\ s[op.owner] + op.amount \in Nat
        BY <2>6, <2>8
      <4>3. t \in [Owners -> Nat]
        BY <2>6, <2>8, <4>1, <4>2, OneBalance
      <4>4. ChangesBy(s, t, op.owner, op.amount)
        BY <2>6, <2>8, <4>1, <4>2, OneBalance
      <4> QED BY <4>3, <4>4
    <3>6. g \in [Owners -> Nat] /\ ChangesBy(f, g, op.owner, 0 - op.amount)
      <4>1. op.amount <= f[op.owner]
        BY <2>6, <2>8, <3>0 DEF Possible
      <4>2. g = [f EXCEPT ![op.owner] = f[op.owner] - op.amount]
        BY <2>6, <2>8, <2>11 DEF Apply
      <4>3. f[op.owner] \in Nat
        BY <2>6, <2>8
      <4>4. PICK a \in Int : a = 0 - op.amount
        BY <2>6
      <4>5. f[op.owner] - op.amount = f[op.owner] + a /\ f[op.owner] + a \in Nat
        <5>1. \A c, d \in Nat : d <= c => c - d = c + (0 - d) /\ c + (0 - d) \in Nat
          OBVIOUS
        <5> QED BY <2>6, <4>1, <4>3, <4>4, <5>1
      <4>6. g = [f EXCEPT ![op.owner] = f[op.owner] + a]
        BY <4>2, <4>5
      <4>7. g \in [Owners -> Nat]
        BY <2>6, <2>8, <4>5, <4>6, OneBalance
      <4>8. ChangesBy(f, g, op.owner, a)
        BY <2>6, <2>8, <4>5, <4>6, OneBalance
      <4> QED BY <4>4, <4>7, <4>8
    <3>7. TotalOf(t) = TotalOf(s) + op.amount
      BY <3>5, BalanceChanges
    <3>8. TotalOf(g) = TotalOf(f) + (0 - op.amount)
      BY <3>6, BalanceChanges
    <3>9. D(cp[i]) = D(cp[i - 1])
      <4>1. CASE ops[i] \in PK
        <5>1. cp[i] = cp[i - 1] + 1 /\ p[cp[i]] = op
          BY <1>9, <2>5, <4>1
        <5>0. \A a, e \in Nat : e = a + 1 => /\ \A k \in 1 .. e : k \in 1 .. a \/ k = e
                                             /\ \A k \in 1 .. a : k \in 1 .. e
          OBVIOUS
        <5>4. cp[i] \in Nat
          BY <2>9, <5>1
        <5>2. \A k \in 1 .. cp[i] : k \in 1 .. cp[i - 1] \/ k = cp[i]
          BY <2>9, <5>0, <5>1, <5>4
        <5>3. \A k \in 1 .. cp[i - 1] : k \in 1 .. cp[i]
          BY <2>9, <5>0, <5>1, <5>4
        <5> QED BY <2>11, <5>1, <5>2, <5>3
      <4>2. CASE ops[i] \notin PK
        BY <1>9, <4>2
      <4> QED BY <4>1, <4>2
    <3>10. Cardinality(D(cp[i])) = Cardinality(D(cp[i - 1])) /\ Cardinality(D(cp[i - 1])) \in Nat
      BY <1>12, <2>9, <3>9
    <3> HIDE DEF D
    <3>11. TotalOf(g) + TotalOf(t) = TotalOf(f) + TotalOf(s)
      BY <2>6, <2>9, <3>7, <3>8
    <3> QED BY <1>12, <2>1, <2>3, <2>8, <3>3, <3>5, <3>6, <3>10, <3>11
  <2>12. CASE op.type = "Transfer"
    <3>1. ops[i] \notin XK /\ ops[i] \notin PK
      BY <1>10, <2>5, <2>12
    <3>2. cx[i] = cx[i - 1] /\ cp[i] = cp[i - 1]
      BY <1>9, <3>1
    <3>3. op.amount = 0
      BY <2>6, <2>12 DEF Operation
    <3>4. g = f
      <4>1. g = [f EXCEPT ![op.owner] = f[op.owner] - 0]
        BY <2>6, <2>8, <2>12, <3>3 DEF Apply
      <4>2. f[op.owner] - 0 = f[op.owner]
        BY <2>6, <2>8
      <4> QED BY <2>6, <2>8, <4>1, <4>2
    <3>5. Funds(i)
      <4> HIDE DEF D
      <4> QED BY <2>2, <2>3, <2>7, <3>2, <3>4
    <3> HIDE DEF Funds
    <3> QED BY <2>1, <3>5
  <2>13. op.type \in {"Deposit", "FullExit", "PartialExit", "Transfer"}
    BY <1>10, <2>5
  <2> QED BY <2>10, <2>11, <2>12, <2>13
<1>15. Funds(n)
  <2>1. n \in 0 .. n
    BY <1>0
  <2> HIDE DEF T
  <2>2. n \in T
    BY <1>0, <1>13, <1>14, <2>1, AlongInterval
  <2> QED BY <2>2 DEF T
<1>16. D(cp[n]) = DepositsIn(ops)
  BY <1>9 DEF DepositsIn, p
<1>17. r[n] = root /\ b[cx[n]] = stored
  BY <1>2, <1>9, <1>11
<1>18. /\ root \in [Owners -> Nat] /\ stored \in [Owners -> Nat]
       /\ TotalOf(root) + TotalOf(stored)
            = TotalOf(l2) + TotalOf(balances) + Cardinality(DepositsIn(ops))
  <2> HIDE DEF D
  <2> QED BY <1>15, <1>16, <1>17
<1> QED BY <1>18 DEF stored, data, Stored, Balanced

\* The deposits among the requests with these ids.
DepositIds(ids) == {id \in ids : priorityRequests[id].type = "Deposit"}

FirstIds(number) == firstPriorityRequestId .. firstPriorityRequestId + number - 1

\* deleteRequests: the deposits that are open become fewer by those deleted.
LEMMA DeleteTakesDeposits ==
  ASSUME CountersTyped, QueueOfRequests, NEW number \in Nat, DeleteRequests(number)
  PROVE  /\ OpenDeposits' = OpenDeposits - Cardinality(DepositIds(FirstIds(number)))
         /\ OpenDeposits \in Nat /\ OpenDeposits' \in Nat
         /\ IsFiniteSet(FirstIds(number)) /\ FirstIds(number) \subseteq DOMAIN priorityRequests
         /\ Cardinality(DepositIds(FirstIds(number))) \in Nat
<1> DEFINE first == firstPriorityRequestId
           ids == first .. first + number - 1
           all == DepositIds(DOMAIN priorityRequests)
           kept == {id \in DOMAIN priorityRequests : id >= first + number}
<1>0. first \in Nat /\ totalOpenPriorityRequests \in Nat
  BY DEF CountersTyped
<1>1. /\ number <= totalOpenPriorityRequests
      /\ priorityRequests' = Restrict(priorityRequests, kept)
  BY DEF DeleteRequests
<1>2. DOMAIN priorityRequests = first .. first + totalOpenPriorityRequests - 1
  BY DEF QueueOfRequests
<1>3. IsFiniteSet(DOMAIN priorityRequests) /\ IsFiniteSet(ids) /\ ids \subseteq DOMAIN priorityRequests
  BY <1>0, <1>1, <1>2, FS_Interval
<1>4. IsFiniteSet(all) /\ IsFiniteSet(DepositIds(ids)) /\ DepositIds(ids) \subseteq all
  BY <1>3, FS_Subset DEF DepositIds
<1>5. {id \in DOMAIN priorityRequests' : priorityRequests'[id].type = "Deposit"} = all \ DepositIds(ids)
  <2>1. DOMAIN priorityRequests' = kept /\ \A id \in kept : priorityRequests'[id] = priorityRequests[id]
    BY <1>1 DEF Restrict
  <2>2. \A id \in DOMAIN priorityRequests : id \in kept <=> id \notin ids
    BY <1>0, <1>2
  <2>3. kept \subseteq DOMAIN priorityRequests
    OBVIOUS
  <2> HIDE DEF kept, ids
  <2> QED BY <2>1, <2>2, <2>3 DEF DepositIds
<1>6. all \cap DepositIds(ids) = DepositIds(ids)
  BY <1>4
<1>7. /\ OpenDeposits = Cardinality(all)
      /\ OpenDeposits' = Cardinality(all \ DepositIds(ids))
  BY <1>5 DEF OpenDeposits, DepositIds
<1>8. Cardinality(all \ DepositIds(ids)) = Cardinality(all) - Cardinality(DepositIds(ids))
      /\ IsFiniteSet(all \ DepositIds(ids))
  <2> HIDE DEF all, ids
  <2> QED BY <1>4, <1>6, FS_Difference
<1>9. Cardinality(all) \in Nat /\ Cardinality(DepositIds(ids)) \in Nat
      /\ Cardinality(all \ DepositIds(ids)) \in Nat
  BY <1>4, <1>8, FS_CardinalityType
<1>10. ids = FirstIds(number)
  BY DEF FirstIds
<1> HIDE DEF ids, all
<1> QED BY <1>3, <1>7, <1>8, <1>9, <1>10

\* The deposits of a block are those of the requests that it answers.
LEMMA AnsweredDeposits ==
  ASSUME CountersTyped, QueueOfRequests, NEW ops \in Seq(Operation),
         Answers(requested, firstPriorityRequestId, ops),
         Len(PriorityOps(ops)) <= totalOpenPriorityRequests
  PROVE  /\ Cardinality(DepositIds(FirstIds(Len(PriorityOps(ops))))) = Cardinality(DepositsIn(ops))
         /\ \A k \in DepositsIn(ops) : PriorityOps(ops)[k].amount = 1
<1> DEFINE first == firstPriorityRequestId
           p == PriorityOps(ops)
           number == Len(p)
           ids == first .. first + number - 1
<1>0. first \in Nat /\ totalOpenPriorityRequests \in Nat /\ number \in Nat
  BY PriorityOpsFacts DEF CountersTyped
<1>1. \A k \in 1 .. number : /\ first + k - 1 \in ids /\ first + k - 1 \in DOMAIN priorityRequests
                             /\ priorityRequests[first + k - 1].type = requested[first + k].type
                             /\ requested[first + k] \in UserRequest
                             /\ Matches(requested[first + k], p[k])
  <2> TAKE k \in 1 .. number
  <2>1. first + k - 1 \in ids
    BY <1>0
  <2>2. first + k - 1 \in DOMAIN priorityRequests /\ first + k \in 1 .. Len(requested)
        /\ (first + k - 1) + 1 = first + k
    BY <1>0 DEF QueueOfRequests
  <2>3. priorityRequests[first + k - 1].type = requested[first + k].type
    BY <2>2 DEF QueueOfRequests
  <2>4. requested[first + k] \in UserRequest
    BY <2>2, ElementOfSeq DEF QueueOfRequests
  <2>5. Matches(requested[first + k], p[k])
    BY DEF Answers
  <2> QED BY <2>1, <2>2, <2>3, <2>4, <2>5
<1>2. \A k \in DepositsIn(ops) : p[k].amount = 1
  <2> TAKE k \in DepositsIn(ops)
  <2>1. k \in 1 .. number /\ p[k].type = "Deposit"
    BY DEF DepositsIn
  <2>2. Matches(requested[first + k], p[k]) /\ requested[first + k] \in UserRequest
    BY <1>1, <2>1
  <2> QED BY <2>1, <2>2 DEF Matches, UserRequest
<1>3. PICK shift : shift = [k \in DepositsIn(ops) |-> first + k - 1]
  OBVIOUS
<1>4. shift \in Bijection(DepositsIn(ops), DepositIds(ids))
  <2>1. \A k \in 1 .. number : k \in DepositsIn(ops) <=> first + k - 1 \in DepositIds(ids)
    BY <1>1 DEF DepositsIn, DepositIds, Matches
  <2>2. \A k \in DepositsIn(ops) : k \in 1 .. number /\ shift[k] = first + k - 1
    BY <1>3 DEF DepositsIn
  <2>3. shift \in [DepositsIn(ops) -> DepositIds(ids)]
    BY <1>3, <2>1, <2>2
  <2>4. \A j, k \in DepositsIn(ops) : shift[j] = shift[k] => j = k
    <3> SUFFICES ASSUME NEW j \in DepositsIn(ops), NEW k \in DepositsIn(ops), shift[j] = shift[k]
                 PROVE  j = k
      OBVIOUS
    <3>1. j \in Int /\ k \in Int /\ first + j - 1 = first + k - 1
      BY <2>2
    <3> QED BY <1>0, <3>1
  <2>5. \A id \in DepositIds(ids) : \E k \in DepositsIn(ops) : shift[k] = id
    <3> TAKE id \in DepositIds(ids)
    <3> DEFINE k == id - first + 1
    <3>1. k \in 1 .. number /\ first + k - 1 = id
      BY <1>0 DEF DepositIds
    <3> HIDE DEF k
    <3>2. k \in DepositsIn(ops)
      BY <2>1, <3>1
    <3> QED BY <2>2, <3>1, <3>2
  <2>6. shift \in Injection(DepositsIn(ops), DepositIds(ids))
    <3> HIDE DEF ids
    <3> QED BY <2>3, <2>4 DEF Injection, IsInjective
  <2>7. shift \in Surjection(DepositsIn(ops), DepositIds(ids))
    <3> HIDE DEF ids
    <3> QED BY <2>3, <2>5 DEF Surjection
  <2> HIDE DEF ids
  <2> QED BY <2>6, <2>7 DEF Bijection
<1>5. IsFiniteSet(DepositsIn(ops))
  <2>1. IsFiniteSet(1 .. number) /\ DepositsIn(ops) \subseteq 1 .. number
    BY <1>0, FS_Interval DEF DepositsIn
  <2> QED BY <2>1, FS_Subset
<1>6. Cardinality(DepositIds(ids)) = Cardinality(DepositsIn(ops))
  <2> HIDE DEF ids
  <2> QED BY <1>4, <1>5, FS_Bijection DEF ExistsBijection
<1>7. ids = FirstIds(number)
  BY DEF FirstIds
<1> HIDE DEF ids
<1> QED BY <1>2, <1>6, <1>7

\* The balances of the last verified block of those who have not left.
Remaining == [o \in Owners \ exited |-> VerifiedRoot[o]]

\* What the contract owes, in three parts.
LEMMA AmountsTyped ==
  ASSUME QueueInv, FundsInv
  PROVE  /\ TotalOf(balancesToWithdraw) \in Nat /\ OpenDeposits \in Nat
         /\ Remaining \in [Owners \ exited -> Nat] /\ TotalOf(Remaining) \in Nat
         /\ IsFiniteSet(Owners) /\ IsFiniteSet(Owners \ exited)
         /\ vault = TotalOf(balancesToWithdraw) + OpenDeposits + TotalOf(Remaining)
<1>1. IsFiniteSet(Owners) /\ IsFiniteSet(Owners \ exited)
  BY ContractAssumption, FS_Subset
<1>2. TotalOf(balancesToWithdraw) \in Nat
  BY <1>1, SumIsNat DEF FundsInv, OwedTyped, TotalOf
<1>3. OpenDeposits \in Nat
  <2>1. IsFiniteSet(DOMAIN priorityRequests)
    BY FS_Interval DEF QueueInv, CountersTyped, QueueOfRequests
  <2>2. IsFiniteSet({id \in DOMAIN priorityRequests : priorityRequests[id].type = "Deposit"})
    BY <2>1, FS_Subset
  <2> QED BY <2>2, FS_CardinalityType DEF OpenDeposits
<1>4. Remaining \in [Owners \ exited -> Nat]
  <2>1. totalBlocksVerified \in 0 .. totalBlocksVerified
    BY DEF QueueInv, CountersTyped
  <2>2. blocks[totalBlocksVerified].root \in [Owners -> Nat]
    BY <2>1 DEF FundsInv, RootsTyped
  <2> QED BY <2>2 DEF Remaining, VerifiedRoot
<1>5. TotalOf(Remaining) \in Nat
  BY <1>1, <1>4, SumIsNat DEF TotalOf
<1>6. vault = TotalOf(balancesToWithdraw) + OpenDeposits + TotalOf(Remaining)
  BY DEF FundsInv, FundsCovered, Remaining
<1> QED BY <1>1, <1>2, <1>3, <1>4, <1>5, <1>6

\* At first nobody has anything.
LEMMA FundsInitially == Init => FundsInv
<1> SUFFICES ASSUME Init
             PROVE  FundsInv
  OBVIOUS
<1>0. IsFiniteSet(Owners) /\ NoFunds \in [Owners -> Nat]
  BY ContractAssumption DEF NoFunds
<1>1. RootsTyped
  <2>1. totalBlocksCommitted = 0 /\ totalBlocksVerified = 0 /\ blocks[0].root = NoFunds
    BY DEF Init
  <2>2. \A n \in 0 .. 0 : n = 0
    OBVIOUS
  <2> QED BY <1>0, <2>1, <2>2 DEF RootsTyped, Balances
<1>2. PendingTyped
  <2>1. 0 .. 0 + 0 - 1 = {}
    OBVIOUS
  <2>2. pendingWithdrawals \in [{} -> Owners]
    BY DEF Init
  <2> QED BY <2>1, <2>2 DEF Init, PendingTyped
<1>3. OwedTyped
  BY <1>0 DEF Init, OwedTyped
<1>4. ExitsInExodus
  BY DEF Init, ExitsInExodus
<1>5. FundsCovered
  <2>1. TotalOf(NoFunds) = 0
    BY <1>0, SumOfZeros DEF TotalOf, NoFunds
  <2>2. OpenDeposits = 0
    <3>1. {id \in DOMAIN priorityRequests : priorityRequests[id].type = "Deposit"} = {}
      BY DEF Init
    <3> QED BY <3>1, FS_EmptySet DEF OpenDeposits
  <2>3. [o \in Owners \ exited |-> VerifiedRoot[o]] = NoFunds
    BY DEF Init, VerifiedRoot, NoFunds
  <2> QED BY <2>1, <2>2, <2>3 DEF Init, FundsCovered
<1> QED BY <1>1, <1>2, <1>3, <1>4, <1>5 DEF FundsInv

\* A request is one more deposit or none.
LEMMA RequestCounts ==
  ASSUME QueueInv, NEW r \in UserRequest, Request(r)
  PROVE  OpenDeposits' = OpenDeposits + r.amount
<1> DEFINE last == firstPriorityRequestId + totalOpenPriorityRequests
           D == {id \in DOMAIN priorityRequests : priorityRequests[id].type = "Deposit"}
           E == {id \in DOMAIN priorityRequests' : priorityRequests'[id].type = "Deposit"}
<1>1. /\ priorityRequests' = Put(priorityRequests, last, OpenRequest(r))
      /\ DOMAIN priorityRequests = firstPriorityRequestId .. last - 1
      /\ firstPriorityRequestId \in Nat /\ totalOpenPriorityRequests \in Nat
  BY DEF Request, AddPriorityRequest, QueueInv, QueueOfRequests, CountersTyped
<1>2. last \notin DOMAIN priorityRequests /\ IsFiniteSet(DOMAIN priorityRequests)
  BY <1>1, FS_Interval
<1> HIDE DEF last
<1>3. /\ DOMAIN priorityRequests' = DOMAIN priorityRequests \cup {last}
      /\ priorityRequests'[last].type = r.type
      /\ \A id \in DOMAIN priorityRequests : priorityRequests'[id] = priorityRequests[id]
  BY <1>1, <1>2 DEF Put, OpenRequest
<1>4. IsFiniteSet(D) /\ last \notin D /\ Cardinality(D) \in Nat
  BY <1>2, FS_Subset, FS_CardinalityType
<1>5. CASE r.type = "Deposit"
  <2>1. E = D \cup {last}
    BY <1>3, <1>5
  <2> HIDE DEF D, E
  <2>2. Cardinality(E) = Cardinality(D) + 1
    BY <1>4, <2>1, FS_AddElement
  <2> QED BY <1>5, <2>2 DEF OpenDeposits, D, E, UserRequest
<1>6. CASE r.type # "Deposit"
  <2>1. E = D
    BY <1>2, <1>3, <1>6
  <2>2. r.amount = 0
    BY <1>6 DEF UserRequest
  <2>3. OpenDeposits' = OpenDeposits /\ OpenDeposits \in Nat
    BY <1>4, <2>1 DEF OpenDeposits
  <2> QED BY <2>2, <2>3
<1> QED BY <1>5, <1>6

\* depositETH brings what it asks for, fullExit brings nothing.
LEMMA RequestKeepsFunds ==
  ASSUME QueueInv, FundsInv, NEW r \in UserRequest, Request(r), vault' = vault + r.amount,
         UNCHANGED <<rollup, exodus, pendingWithdrawals, firstPendingWithdrawalIndex,
                     numberOfPendingWithdrawals, balancesToWithdraw>>
  PROVE  FundsInv'
<1>1. OpenDeposits' = OpenDeposits + r.amount /\ r.amount \in Nat
  BY RequestCounts DEF UserRequest
<1>2. UNCHANGED <<blocks, totalBlocksCommitted, totalBlocksVerified, exodusMode, exited>>
  BY DEF rollup, exodus
<1>3. RootsTyped' /\ PendingTyped' /\ ExitsInExodus'
  BY <1>2 DEF FundsInv, RootsTyped, PendingTyped, ExitsInExodus
<1>4. OwedTyped'
  BY <1>1 DEF FundsInv, OwedTyped
<1>5. FundsCovered'
  <2>1. Remaining' = Remaining
    BY <1>2 DEF Remaining, VerifiedRoot
  <2>2. vault' = TotalOf(balancesToWithdraw') + OpenDeposits' + TotalOf(Remaining')
    <3> HIDE DEF Remaining
    <3>1. TotalOf(balancesToWithdraw) \in Nat /\ OpenDeposits \in Nat /\ TotalOf(Remaining) \in Nat
          /\ vault = TotalOf(balancesToWithdraw) + OpenDeposits + TotalOf(Remaining)
      BY AmountsTyped
    <3> QED BY <1>1, <2>1, <3>1
  <2> QED BY <2>2 DEF FundsCovered, Remaining
<1> QED BY <1>3, <1>4, <1>5 DEF FundsInv

\* What changes neither the amounts nor the blocks.
LEMMA OthersKeepFunds ==
  ASSUME FundsInv, exodusMode' \in BOOLEAN, exodusMode => exodusMode',
         UNCHANGED <<queue, rollup, withdrawal, exited>>
  PROVE  FundsInv'
BY DEF FundsInv, RootsTyped, PendingTyped, OwedTyped, ExitsInExodus, FundsCovered, OpenDeposits,
       VerifiedRoot, queue, rollup, withdrawal

\* commitBlock moves no funds, whatever root the validator says.
LEMMA CommitKeepsFunds ==
  ASSUME QueueInv, FundsInv, NEW ops \in PublicDatas,
         NEW root \in {blocks[totalBlocksCommitted].root,
                       FoldLeft(Apply, blocks[totalBlocksCommitted].root, ops)},
         CommitBlock(ops, root)
  PROVE  FundsInv'
<1> DEFINE c == totalBlocksCommitted
           v == totalBlocksVerified
<1>0. c \in Nat /\ v \in 0 .. c
  BY DEF QueueInv, CountersTyped
<1>1. /\ blocks' = Put(blocks, c + 1, CommittedBlock(ops, root))
      /\ totalBlocksCommitted' = c + 1
      /\ UNCHANGED <<totalBlocksVerified, priorityRequests, pendingWithdrawals, exited, exodusMode,
                     firstPendingWithdrawalIndex, numberOfPendingWithdrawals,
                     balancesToWithdraw, vault>>
  BY DEF CommitBlock, queue, withdrawal, exodus
<1>2. DOMAIN blocks = 0 .. c
  BY DEF QueueInv, BlocksFormed
<1>3. \A n \in 0 .. c : blocks'[n] = blocks[n]
  BY <1>0, <1>1, <1>2 DEF Put
<1>4. blocks'[c + 1].root = root
  BY <1>1 DEF Put, CommittedBlock
<1>5. root \in Balances
  <2>1. blocks[c].root \in Balances
    BY <1>0 DEF FundsInv, RootsTyped
  <2>2. PICK t : ApplyTrace(t, blocks[c].root, ops)
    BY <2>1, ApplyHasTrace, ContractAssumption
  <2>3. Len(ops) \in 0 .. Len(ops)
    BY LenProperties, ContractAssumption
  <2>4. FoldLeft(Apply, blocks[c].root, ops) \in Balances
    BY <2>2, <2>3 DEF ApplyTrace
  <2> QED BY <2>1, <2>4
<1>6. RootsTyped'
  <2>1. \A n \in 0 .. c + 1 : blocks'[n].root \in Balances
    <3> TAKE n \in 0 .. c + 1
    <3>1. n \in 0 .. c \/ n = c + 1
      BY <1>0
    <3> QED BY <1>3, <1>4, <1>5, <3>1 DEF FundsInv, RootsTyped
  <2>2. \A n \in 0 .. v : blocks'[n].root \in [Owners -> Nat]
    BY <1>0, <1>3 DEF FundsInv, RootsTyped
  <2> QED BY <1>1, <2>1, <2>2 DEF RootsTyped
<1>7. PendingTyped' /\ OwedTyped' /\ ExitsInExodus'
  BY <1>1 DEF FundsInv, PendingTyped, OwedTyped, ExitsInExodus
<1>8. FundsCovered'
  <2>1. VerifiedRoot' = VerifiedRoot /\ OpenDeposits' = OpenDeposits
    BY <1>0, <1>1, <1>3 DEF VerifiedRoot, OpenDeposits
  <2> QED BY <1>1, <2>1 DEF FundsInv, FundsCovered
<1> QED BY <1>6, <1>7, <1>8 DEF FundsInv

\* revertBlocks leaves the verified blocks alone.
LEMMA RevertKeepsFunds ==
  ASSUME QueueInv, FundsInv, NEW max \in 1 .. MaxCommits, RevertBlocks(max)
  PROVE  FundsInv'
<1> DEFINE c == totalBlocksCommitted
           v == totalBlocksVerified
           number == MinOf(max, c - v)
           reverted == c - number + 1 .. c
<1>0. c \in Nat /\ v \in 0 .. c /\ max \in Nat
  BY DEF QueueInv, CountersTyped
<1>1. /\ blocks' = Restrict(blocks, DOMAIN blocks \ reverted)
      /\ totalBlocksCommitted' = c - number
      /\ UNCHANGED <<totalBlocksVerified, priorityRequests, pendingWithdrawals, exited, exodusMode,
                     firstPendingWithdrawalIndex, numberOfPendingWithdrawals,
                     balancesToWithdraw, vault>>
  BY DEF RevertBlocks, queue, withdrawal, exodus
<1>2. DOMAIN blocks = 0 .. c
  BY DEF QueueInv, BlocksFormed
<1>3. number \in Nat /\ number <= c - v
  BY <1>0 DEF MinOf
<1> HIDE DEF number
<1>4. \A n \in 0 .. c - number : n \in 0 .. c /\ blocks'[n] = blocks[n]
  <2>1. \A n \in 0 .. c - number : n \in 0 .. c /\ n \notin reverted
    BY <1>0, <1>3
  <2> HIDE DEF reverted
  <2> QED BY <1>1, <1>2, <2>1 DEF Restrict
<1>5. \A n \in 0 .. v : n \in 0 .. c - number
  BY <1>0, <1>3
<1>6. RootsTyped'
  <2>1. \A n \in 0 .. c - number : blocks'[n].root \in Balances
    BY <1>4 DEF FundsInv, RootsTyped
  <2>2. \A n \in 0 .. v : blocks'[n].root \in [Owners -> Nat]
    BY <1>4, <1>5 DEF FundsInv, RootsTyped
  <2> QED BY <1>1, <2>1, <2>2 DEF RootsTyped
<1>7. PendingTyped' /\ OwedTyped' /\ ExitsInExodus'
  BY <1>1 DEF FundsInv, PendingTyped, OwedTyped, ExitsInExodus
<1>8. FundsCovered'
  <2>1. v \in 0 .. v
    BY <1>0
  <2>2. VerifiedRoot' = VerifiedRoot /\ OpenDeposits' = OpenDeposits
    BY <1>1, <1>4, <1>5, <2>1 DEF VerifiedRoot, OpenDeposits
  <2> QED BY <1>1, <2>2 DEF FundsInv, FundsCovered
<1> QED BY <1>6, <1>7, <1>8 DEF FundsInv

\* withdrawETH pays what it takes from the balance.
LEMMA WithdrawKeepsFunds ==
  ASSUME QueueInv, FundsInv, NEW owner \in Owners, WithdrawETH(owner)
  PROVE  FundsInv'
<1>1. /\ balancesToWithdraw \in [Owners -> Nat] /\ vault \in Nat
      /\ UNCHANGED <<blocks, totalBlocksCommitted, totalBlocksVerified, priorityRequests,
                     pendingWithdrawals, exited, exodusMode,
                     firstPendingWithdrawalIndex, numberOfPendingWithdrawals>>
  BY DEF WithdrawETH, FundsInv, OwedTyped, queue, rollup, exodus
<1>2. PICK amount \in 1 .. balancesToWithdraw[owner] :
         /\ balancesToWithdraw' = [balancesToWithdraw EXCEPT ![owner] = @ - amount]
         /\ vault' = vault - amount
  BY DEF WithdrawETH, RegisterWithdrawal
<1>3. /\ amount \in Nat /\ balancesToWithdraw' \in [Owners -> Nat]
      /\ ChangesBy(balancesToWithdraw, balancesToWithdraw', owner, 0 - amount)
  BY <1>1, <1>2 DEF ChangesBy, Balances
<1>4. TotalOf(balancesToWithdraw') = TotalOf(balancesToWithdraw) + (0 - amount)
  BY <1>3, BalanceChanges
<1>5. TotalOf(balancesToWithdraw') \in Nat
  BY <1>3, SumIsNat, ContractAssumption DEF TotalOf
<1>6. RootsTyped' /\ PendingTyped' /\ ExitsInExodus'
  BY <1>1 DEF FundsInv, RootsTyped, PendingTyped, ExitsInExodus
<1>7. Remaining' = Remaining /\ OpenDeposits' = OpenDeposits
  BY <1>1 DEF Remaining, VerifiedRoot, OpenDeposits
<1> HIDE DEF Remaining
<1>8. vault' = TotalOf(balancesToWithdraw') + OpenDeposits' + TotalOf(Remaining') /\ vault' \in Nat
  <2>1. TotalOf(balancesToWithdraw) \in Nat /\ OpenDeposits \in Nat /\ TotalOf(Remaining) \in Nat
        /\ vault = TotalOf(balancesToWithdraw) + OpenDeposits + TotalOf(Remaining)
    BY AmountsTyped
  <2> QED BY <1>2, <1>3, <1>4, <1>5, <1>7, <2>1
<1>9. OwedTyped' /\ FundsCovered'
  BY <1>3, <1>8 DEF OwedTyped, FundsCovered, Remaining
<1> QED BY <1>6, <1>9 DEF FundsInv

\* exit moves the balance of the last verified block, once per owner.
LEMMA ExitKeepsFunds ==
  ASSUME QueueInv, FundsInv, NEW owner \in Owners, Exit(owner)
  PROVE  FundsInv'
<1>1. /\ balancesToWithdraw \in [Owners -> Nat] /\ exodusMode /\ owner \notin exited
      /\ balancesToWithdraw' = [balancesToWithdraw EXCEPT ![owner] = @ + VerifiedRoot[owner]]
      /\ exited' = exited \cup {owner}
      /\ UNCHANGED <<blocks, totalBlocksCommitted, totalBlocksVerified, priorityRequests,
                     pendingWithdrawals, exodusMode, vault,
                     firstPendingWithdrawalIndex, numberOfPendingWithdrawals>>
  BY DEF Exit, FundsInv, OwedTyped, queue, rollup
<1>2. PICK amount : amount = VerifiedRoot[owner]
  OBVIOUS
<1>3. owner \in Owners \ exited /\ Remaining[owner] = amount
  BY <1>1, <1>2 DEF Remaining
<1>4. Remaining \in [Owners \ exited -> Nat] /\ IsFiniteSet(Owners \ exited)
  BY AmountsTyped
<1>5. amount \in Nat
  BY <1>3, <1>4
<1>6. balancesToWithdraw' \in [Owners -> Nat]
      /\ ChangesBy(balancesToWithdraw, balancesToWithdraw', owner, amount)
  BY <1>1, <1>2, <1>5 DEF ChangesBy, Balances
<1>7. TotalOf(balancesToWithdraw') = TotalOf(balancesToWithdraw) + amount
  BY <1>6, BalanceChanges
<1>8. TotalOf(Remaining) = amount + TotalOf(Remaining') /\ TotalOf(Remaining') \in Int
  <2>1. Remaining' = Restrict(Remaining, (Owners \ exited) \ {owner})
    <3>1. Owners \ exited' = (Owners \ exited) \ {owner} /\ VerifiedRoot' = VerifiedRoot
      BY <1>1 DEF VerifiedRoot
    <3> QED BY <3>1 DEF Remaining, Restrict
  <2>2. Remaining \in [Owners \ exited -> Int]
    BY <1>4
  <2> QED BY <1>3, <1>4, <2>1, <2>2, SumTakesOne DEF TotalOf
<1>9. RootsTyped' /\ PendingTyped' /\ ExitsInExodus' /\ OwedTyped'
  BY <1>1, <1>6 DEF FundsInv, RootsTyped, PendingTyped, ExitsInExodus, OwedTyped
<1>10. OpenDeposits' = OpenDeposits
  BY <1>1 DEF OpenDeposits
<1> HIDE DEF Remaining
<1>11. vault' = TotalOf(balancesToWithdraw') + OpenDeposits' + TotalOf(Remaining')
  <2>1. TotalOf(balancesToWithdraw) \in Nat /\ OpenDeposits \in Nat
        /\ vault = TotalOf(balancesToWithdraw) + OpenDeposits + TotalOf(Remaining)
    BY AmountsTyped
  <2> QED BY <1>1, <1>5, <1>7, <1>8, <1>10, <2>1
<1>12. FundsCovered'
  BY <1>11 DEF FundsCovered, Remaining
<1> QED BY <1>9, <1>12 DEF FundsInv

\* completeWithdrawals pays out or leaves the balance, and shortens its queue.
LEMMA CompleteKeepsFunds ==
  ASSUME QueueInv, FundsInv, NEW sent \in SUBSET Owners, NEW n \in Nat, CompleteWithdrawals(n, sent)
  PROVE  FundsInv'
<1> DEFINE first == firstPendingWithdrawalIndex
           b == balancesToWithdraw
           number == MinOf(n, numberOfPendingWithdrawals)
           indices == first .. first + number - 1
           paid == {pendingWithdrawals[i] : i \in indices}
           gone == paid \cap sent
           left == [o \in Owners |-> IF o \in paid THEN Unsent(o, sent, b[o]) ELSE b[o]]
<1>1. /\ number > 0
      /\ firstPendingWithdrawalIndex' = first + number
      /\ numberOfPendingWithdrawals' = numberOfPendingWithdrawals - number
      /\ pendingWithdrawals' = Restrict(pendingWithdrawals, DOMAIN pendingWithdrawals \ indices)
      /\ balancesToWithdraw' = left
      /\ vault' = vault - TotalOf([o \in gone |-> b[o]])
      /\ UNCHANGED <<blocks, totalBlocksCommitted, totalBlocksVerified, priorityRequests,
                     exited, exodusMode>>
  BY DEF CompleteWithdrawals, queue, rollup, exodus
<1>2. /\ first \in Nat /\ numberOfPendingWithdrawals \in Nat /\ b \in [Owners -> Nat]
      /\ pendingWithdrawals \in [first .. first + numberOfPendingWithdrawals - 1 -> Owners]
  BY DEF FundsInv, PendingTyped, OwedTyped
<1>3. number \in Nat /\ number <= numberOfPendingWithdrawals
  BY <1>2 DEF MinOf
<1> HIDE DEF number
<1>4. PendingTyped'
  <2>1. (first .. first + numberOfPendingWithdrawals - 1) \ indices
          = first + number .. first + number + (numberOfPendingWithdrawals - number) - 1
    BY <1>2, <1>3
  <2>2. DOMAIN pendingWithdrawals = first .. first + numberOfPendingWithdrawals - 1
    BY <1>2
  <2> DEFINE A == DOMAIN pendingWithdrawals \ indices
  <2>3. A \subseteq DOMAIN pendingWithdrawals
    OBVIOUS
  <2>4. A = first + number .. first + number + (numberOfPendingWithdrawals - number) - 1
    BY <2>1, <2>2
  <2>5. pendingWithdrawals' = Restrict(pendingWithdrawals, A)
    BY <1>1
  <2> HIDE DEF A
  <2>6. pendingWithdrawals' \in [A -> Owners]
    BY <1>2, <2>3, <2>5 DEF Restrict
  <2>7. first + number \in Nat /\ numberOfPendingWithdrawals - number \in Nat
    BY <1>2, <1>3
  <2> QED BY <1>1, <2>4, <2>6, <2>7 DEF PendingTyped
<1>5. \A o \in Owners : left[o] = IF o \in gone THEN 0 ELSE b[o]
  BY DEF Unsent
<1>6. left \in [Owners -> Nat] /\ gone \in SUBSET Owners /\ IsFiniteSet(Owners)
  <2>1. left \in [Owners -> Nat]
    <3> HIDE DEF paid
    <3> QED BY <1>2 DEF Unsent
  <2> QED BY <2>1, ContractAssumption
<1> HIDE DEF left, gone
<1>7. /\ TotalOf(b) = TotalOf(Restrict(b, gone)) + TotalOf(Restrict(b, Owners \ gone))
      /\ TotalOf(Restrict(b, gone)) \in Int /\ TotalOf(Restrict(b, Owners \ gone)) \in Int
  <2>1. b \in [Owners -> Int]
    BY <1>2
  <2> QED BY <1>6, <2>1, SumOfParts DEF TotalOf
<1>8. TotalOf(left) = TotalOf(Restrict(left, gone)) + TotalOf(Restrict(left, Owners \ gone))
  <2>1. left \in [Owners -> Int]
    BY <1>6
  <2> QED BY <1>6, <2>1, SumOfParts DEF TotalOf
<1>9. TotalOf(Restrict(left, gone)) = 0
  <2>1. Restrict(left, gone) \in [gone -> Int] /\ \A o \in gone : Restrict(left, gone)[o] = 0
    BY <1>5, <1>6 DEF Restrict
  <2>2. IsFiniteSet(gone)
    BY <1>6, FS_Subset
  <2> QED BY <2>1, <2>2, SumOfZeros DEF TotalOf
<1>10. Restrict(left, Owners \ gone) = Restrict(b, Owners \ gone)
  BY <1>5 DEF Restrict
<1>11. [o \in gone |-> b[o]] = Restrict(b, gone)
  BY DEF Restrict
<1>12. TotalOf(left) \in Nat
  BY <1>6, SumIsNat DEF TotalOf
<1>13. RootsTyped' /\ ExitsInExodus'
  BY <1>1 DEF FundsInv, RootsTyped, ExitsInExodus
<1>14. Remaining' = Remaining /\ OpenDeposits' = OpenDeposits
  BY <1>1 DEF Remaining, VerifiedRoot, OpenDeposits
<1> HIDE DEF Remaining
<1>15. vault' = TotalOf(left) + OpenDeposits' + TotalOf(Remaining') /\ vault' \in Nat
  <2>1. TotalOf(b) \in Nat /\ OpenDeposits \in Nat /\ TotalOf(Remaining) \in Nat
        /\ vault = TotalOf(b) + OpenDeposits + TotalOf(Remaining)
    BY AmountsTyped
  <2>2. vault' = vault - TotalOf(Restrict(b, gone))
    BY <1>1, <1>11
  <2>3. TotalOf(left) = TotalOf(Restrict(b, Owners \ gone))
    <3>1. TotalOf(left) = 0 + TotalOf(Restrict(b, Owners \ gone))
      BY <1>8, <1>9, <1>10
    <3> QED BY <1>7, <3>1
  <2>4. \A V, B, D, R, G, L \in Int : V = B + D + R /\ B = G + L => V - G = L + D + R
    OBVIOUS
  <2>5. vault' = TotalOf(left) + OpenDeposits + TotalOf(Remaining)
    BY <1>7, <2>1, <2>2, <2>3, <2>4
  <2> QED BY <1>12, <1>14, <2>1, <2>5
<1>16. OwedTyped' /\ FundsCovered'
  BY <1>1, <1>6, <1>15 DEF OwedTyped, FundsCovered, Remaining
<1> QED BY <1>4, <1>13, <1>16 DEF FundsInv

\* cancelOutstandingDepositsForExodusMode gives the deposits back that it deletes.
LEMMA CancelKeepsFunds ==
  ASSUME QueueInv, FundsInv, NEW n \in Nat, CancelOutstandingDeposits(n)
  PROVE  FundsInv'
<1> DEFINE b == balancesToWithdraw
           number == MinOf(n, totalOpenPriorityRequests)
           ids == FirstIds(number)
           D == DepositIds(ids)
           owner == [id \in D |-> priorityRequests[id].owner]
           refunded == Refunded(ids)
<1>1. /\ number > 0 /\ exodusMode
      /\ balancesToWithdraw' = [o \in Owners |-> b[o] + refunded[o]]
      /\ DeleteRequests(number)
      /\ UNCHANGED <<blocks, totalBlocksCommitted, totalBlocksVerified, exited, exodusMode,
                     pendingWithdrawals, vault, firstPendingWithdrawalIndex,
                     numberOfPendingWithdrawals>>
  BY DEF CancelOutstandingDeposits, FirstIds, rollup, exodus
<1>2. b \in [Owners -> Nat] /\ IsFiniteSet(Owners) /\ totalOpenPriorityRequests \in Nat
      /\ CountersTyped /\ QueueOfRequests
  BY ContractAssumption DEF FundsInv, OwedTyped, QueueInv, CountersTyped
<1>3. number \in Nat
  BY <1>2 DEF MinOf
<1> HIDE DEF number
<1>4. OpenDeposits' = OpenDeposits - Cardinality(D) /\ Cardinality(D) \in Nat
  BY <1>1, <1>2, <1>3, DeleteTakesDeposits
<1>5. IsFiniteSet(D) /\ ids \subseteq DOMAIN priorityRequests /\ D \subseteq ids
  <2>1. IsFiniteSet(ids) /\ ids \subseteq DOMAIN priorityRequests
    BY <1>1, <1>2, <1>3, DeleteTakesDeposits
  <2> HIDE DEF ids
  <2>2. D \subseteq ids
    BY DEF DepositIds
  <2> HIDE DEF D
  <2> QED BY <2>1, <2>2, FS_Subset
<1> HIDE DEF ids
<1>6. owner \in [D -> Owners]
  <2>1. ASSUME NEW id \in DOMAIN priorityRequests
        PROVE  priorityRequests[id].owner \in Owners
    <3>1. /\ DOMAIN priorityRequests =
               firstPriorityRequestId .. firstPriorityRequestId + totalOpenPriorityRequests - 1
          /\ firstPriorityRequestId \in Nat /\ requested \in Seq(UserRequest)
          /\ Len(requested) = firstPriorityRequestId + totalOpenPriorityRequests
          /\ priorityRequests[id].owner = requested[id + 1].owner
      BY <1>2 DEF CountersTyped, QueueOfRequests
    <3>2. id + 1 \in 1 .. Len(requested)
      BY <1>2, <3>1
    <3>3. requested[id + 1] \in UserRequest
      BY <3>1, <3>2, ElementOfSeq
    <3> QED BY <3>1, <3>3 DEF UserRequest
  <2> HIDE DEF D
  <2> QED BY <1>5, <2>1
<1>7. refunded = [o \in Owners |-> Cardinality({id \in D : owner[id] = o})]
  <2>1. ASSUME NEW o \in Owners
        PROVE  {id \in ids : priorityRequests[id].type = "Deposit" /\ priorityRequests[id].owner = o}
                 = {id \in D : owner[id] = o}
    BY DEF DepositIds
  <2> HIDE DEF D, owner
  <2> QED BY <2>1 DEF Refunded
<1> HIDE DEF D, owner, refunded
<1>8. TotalOf(refunded) = Cardinality(D)
  BY <1>2, <1>5, <1>6, <1>7, SumOfCounts DEF TotalOf
<1>9. refunded \in [Owners -> Nat]
  <2>1. ASSUME NEW o \in Owners
        PROVE  Cardinality({id \in D : owner[id] = o}) \in Nat
    BY <1>5, FS_Subset, FS_CardinalityType
  <2> QED BY <1>7, <2>1
<1>10. TotalOf(balancesToWithdraw') = TotalOf(b) + TotalOf(refunded)
  <2>1. /\ b \in [Owners -> Int] /\ refunded \in [Owners -> Int]
        /\ balancesToWithdraw' \in [Owners -> Int]
        /\ \A o \in Owners : balancesToWithdraw'[o] = b[o] + refunded[o]
    BY <1>1, <1>2, <1>9
  <2> QED BY <1>2, <2>1, SumAdds DEF TotalOf
<1>11. RootsTyped' /\ PendingTyped' /\ ExitsInExodus'
  BY <1>1 DEF FundsInv, RootsTyped, PendingTyped, ExitsInExodus
<1>12. OwedTyped'
  <2>1. balancesToWithdraw' \in [Owners -> Nat]
    BY <1>1, <1>2, <1>9
  <2> QED BY <1>1, <2>1 DEF FundsInv, OwedTyped
<1>13. Remaining' = Remaining
  BY <1>1 DEF Remaining, VerifiedRoot
<1> HIDE DEF Remaining
<1>14. vault' = TotalOf(balancesToWithdraw') + OpenDeposits' + TotalOf(Remaining')
  <2>1. TotalOf(b) \in Nat /\ OpenDeposits \in Nat /\ TotalOf(Remaining) \in Nat
        /\ vault = TotalOf(b) + OpenDeposits + TotalOf(Remaining)
    BY AmountsTyped
  <2>2. TotalOf(balancesToWithdraw') = TotalOf(b) + Cardinality(D)
    BY <1>8, <1>10
  <2>3. \A B, O, R, C \in Int : B + O + R = (B + C) + (O - C) + R
    OBVIOUS
  <2>4. vault' = vault
    BY <1>1
  <2>5. PICK C \in Int : C = Cardinality(D)
    BY <1>4
  <2>6. TotalOf(balancesToWithdraw') = TotalOf(b) + C /\ OpenDeposits' = OpenDeposits - C
    BY <1>4, <2>2, <2>5
  <2>7. vault = (TotalOf(b) + C) + (OpenDeposits - C) + TotalOf(Remaining)
    BY <2>1, <2>3, <2>5
  <2> QED BY <1>13, <2>4, <2>6, <2>7
<1>15. FundsCovered'
  BY <1>14 DEF FundsCovered, Remaining
<1> QED BY <1>11, <1>12, <1>15 DEF FundsInv

\* verifyBlock moves what the exits of a proved block take into the balances to withdraw.
LEMMA VerifyKeepsFunds ==
  ASSUME QueueInv, FundsInv, VerifyBlock
  PROVE  FundsInv'
<1> DEFINE v == totalBlocksVerified
           c == totalBlocksCommitted
           b == balancesToWithdraw
           ops == blocks[v + 1].ops
           l2 == blocks[v].root
           root == blocks[v + 1].root
           data == WithdrawalsData(ops)
           ids == FirstIds(Len(PriorityOps(ops)))
<1>1. /\ ~exodusMode /\ v + 1 <= c
      /\ BlockProof(v + 1)
      /\ ProcessOnchainWithdrawals(blocks[v + 1].withdrawals)
      /\ DeleteRequests(blocks[v + 1].priorityOperations)
      /\ totalBlocksVerified' = v + 1
      /\ UNCHANGED <<blocks, totalBlocksCommitted, firstPendingWithdrawalIndex, vault,
                     exodusMode, exited>>
  BY DEF VerifyBlock, exodus
<1>2. /\ CountersTyped /\ QueueOfRequests /\ IsFiniteSet(Owners)
      /\ v \in Nat /\ c \in Nat /\ v + 1 \in 1 .. c /\ v + 1 \in v + 1 .. c /\ v \in 0 .. v
      /\ v + 1 \in 0 .. c
  BY <1>1, ContractAssumption DEF QueueInv, CountersTyped
<1>3. /\ ops \in Seq(Operation)
      /\ blocks[v + 1].priorityOperations = Len(PriorityOps(ops))
      /\ blocks[v + 1].withdrawals = data
  BY <1>2 DEF QueueInv, BlocksFormed, Formed
<1>4. Len(PriorityOps(ops)) \in Nat /\ data \in Seq(Withdrawal)
  BY <1>3, PriorityOpsFacts, WithdrawalsDataFacts
<1>5. DeleteRequests(Len(PriorityOps(ops)))
  BY <1>1, <1>3
<1>6. Answers(requested, firstPriorityRequestId, ops)
  <2>1. PICK off : Offsets(off) /\ BlocksAnswer(off)
    BY DEF QueueInv, BlocksHoldRequests
  <2>2. Answers(requested, firstPriorityRequestId + off[v + 1 - 1], blocks[v + 1].ops)
    BY <1>1, <1>2, <2>1 DEF BlocksAnswer
  <2>3. firstPriorityRequestId + off[v + 1 - 1] = firstPriorityRequestId
    BY <1>2, <2>1 DEF Offsets, CountersTyped
  <2> QED BY <2>2, <2>3
<1>7. l2 \in [Owners -> Nat] /\ b \in [Owners -> Nat] /\ exited = {} /\ Provable(l2, ops, root)
  <2>1. v + 1 - 1 = v
    BY <1>2
  <2> QED BY <1>1, <1>2, <2>1 DEF FundsInv, RootsTyped, OwedTyped, ExitsInExodus, BlockProof
<1>8. balancesToWithdraw' = Stored(b, ops)
  BY <1>1, <1>3 DEF ProcessOnchainWithdrawals, Stored
<1> HIDE DEF ops, l2, root, data
<1>9. /\ Cardinality(DepositIds(ids)) = Cardinality(DepositsIn(ops))
      /\ \A k \in DepositsIn(ops) : PriorityOps(ops)[k].amount = 1
  <2>1. Len(PriorityOps(ops)) <= totalOpenPriorityRequests
    BY <1>5 DEF DeleteRequests
  <2> QED BY <1>2, <1>3, <1>6, <2>1, AnsweredDeposits
<1>10. /\ OpenDeposits' = OpenDeposits - Cardinality(DepositIds(ids))
       /\ Cardinality(DepositIds(ids)) \in Nat
  BY <1>2, <1>4, <1>5, DeleteTakesDeposits
<1>11. /\ root \in [Owners -> Nat]
       /\ balancesToWithdraw' \in [Owners -> Nat]
       /\ TotalOf(root) + TotalOf(balancesToWithdraw')
            = TotalOf(l2) + TotalOf(b) + Cardinality(DepositsIn(ops))
  <2>1. Stored(b, ops) \in [Owners -> Nat]
    BY <1>3, <1>7, <1>9, ProvedFunds
  <2>2. root \in [Owners -> Nat]
    BY <1>3, <1>7, <1>9, ProvedFunds
  <2>3. TotalOf(root) + TotalOf(Stored(b, ops))
          = TotalOf(l2) + TotalOf(b) + Cardinality(DepositsIn(ops))
    <3> HIDE DEF b
    <3>1. Balanced(l2, b, root, Stored(b, ops), Cardinality(DepositsIn(ops)))
      BY <1>3, <1>7, <1>9, ProvedFunds
    <3> QED BY <3>1, Zenon DEF Balanced
  <2> QED BY <1>8, <2>1, <2>2, <2>3
<1>12. RootsTyped'
  <2>1. \A n \in 0 .. v + 1 : n \in 0 .. v \/ n = v + 1
    BY <1>2
  <2>2. \A n \in 0 .. v + 1 : blocks[n].root \in [Owners -> Nat]
    BY <1>11, <2>1 DEF FundsInv, RootsTyped, root
  <2> QED BY <1>1, <2>2 DEF FundsInv, RootsTyped
<1>13. PendingTyped'
  <2> DEFINE first == firstPendingWithdrawalIndex
             next == first + numberOfPendingWithdrawals
             queued == Queued(data)
             m == Len(queued)
  <2>1. /\ pendingWithdrawals' = WithQueue(next, queued)
        /\ numberOfPendingWithdrawals' = numberOfPendingWithdrawals + m
    BY <1>1, <1>3 DEF ProcessOnchainWithdrawals
  <2>2. /\ first \in Nat /\ numberOfPendingWithdrawals \in Nat
        /\ pendingWithdrawals \in [first .. next - 1 -> Owners]
    BY DEF FundsInv, PendingTyped
  <2>3. queued \in Seq(Withdrawal) /\ m \in Nat /\ \A k \in 1 .. m : queued[k].owner \in Owners
    <3>1. queued \in Seq(Withdrawal)
      BY <1>4, SelectedSelects DEF Queued
    <3> HIDE DEF queued
    <3>2. m \in Nat /\ \A k \in 1 .. m : queued[k] \in Withdrawal
      BY <3>1, LenProperties, ElementOfSeq
    <3> QED BY <3>1, <3>2 DEF Withdrawal
  <2> HIDE DEF queued, m
  <2>4. DOMAIN pendingWithdrawals \cup (next .. next + m - 1)
          = first .. first + (numberOfPendingWithdrawals + m) - 1
    BY <2>2, <2>3
  <2>5. \A i \in first .. first + (numberOfPendingWithdrawals + m) - 1 :
           IF i >= next /\ i < next + m THEN i - next + 1 \in 1 .. m
           ELSE i \in first .. next - 1
    BY <2>2, <2>3
  <2>6. WithQueue(next, queued)
          = [i \in first .. first + (numberOfPendingWithdrawals + m) - 1 |->
               IF i >= next /\ i < next + m THEN queued[i - next + 1].owner
               ELSE pendingWithdrawals[i]]
    <3> HIDE DEF next
    <3> QED BY <2>4 DEF WithQueue, m
  <2>7. WithQueue(next, queued)
          \in [first .. first + (numberOfPendingWithdrawals + m) - 1 -> Owners]
    <3>1. \A i \in first .. first + (numberOfPendingWithdrawals + m) - 1 :
             (IF i >= next /\ i < next + m THEN queued[i - next + 1].owner
              ELSE pendingWithdrawals[i]) \in Owners
      <4> TAKE i \in first .. first + (numberOfPendingWithdrawals + m) - 1
      <4>1. CASE i >= next /\ i < next + m
        BY <2>3, <2>5, <4>1
      <4>2. CASE ~ (i >= next /\ i < next + m)
        <5>1. i \in first .. next - 1
          BY <2>5, <4>2
        <5> HIDE DEF next
        <5> QED BY <2>2, <4>2, <5>1
      <4> QED BY <4>1, <4>2
    <3> HIDE DEF next
    <3> QED BY <2>6, <3>1
  <2>8. numberOfPendingWithdrawals + m \in Nat
    BY <2>2, <2>3
  <2> QED BY <1>1, <2>1, <2>2, <2>7, <2>8 DEF PendingTyped
<1>14. OwedTyped' /\ ExitsInExodus'
  BY <1>1, <1>11 DEF FundsInv, OwedTyped, ExitsInExodus
<1>15. Remaining = l2 /\ Remaining' = root
  <2>1. Remaining = l2
    BY <1>7 DEF Remaining, VerifiedRoot, l2
  <2>2. Remaining' = root
    BY <1>1, <1>7, <1>11 DEF Remaining, VerifiedRoot, root
  <2> QED BY <2>1, <2>2
<1> HIDE DEF Remaining, ids
<1>16. vault' = TotalOf(balancesToWithdraw') + OpenDeposits' + TotalOf(Remaining')
  <2>1. TotalOf(b) \in Nat /\ OpenDeposits \in Nat /\ TotalOf(Remaining) \in Nat
        /\ vault = TotalOf(b) + OpenDeposits + TotalOf(Remaining)
    BY AmountsTyped
  <2>2. TotalOf(root) \in Nat /\ TotalOf(balancesToWithdraw') \in Nat
    BY <1>2, <1>11, SumIsNat DEF TotalOf
  <2>3. PICK C \in Int : C = Cardinality(DepositIds(ids))
    BY <1>10
  <2>4. TotalOf(root) + TotalOf(balancesToWithdraw') = TotalOf(l2) + TotalOf(b) + C
        /\ OpenDeposits' = OpenDeposits - C
    BY <1>9, <1>10, <1>11, <2>3
  <2>5. \A V, B, O, R, S, E, D \in Int :
           V = B + O + R /\ S + E = R + B + D => V = E + (O - D) + S
    OBVIOUS
  <2>6. TotalOf(l2) \in Int /\ TotalOf(l2) = TotalOf(Remaining)
    BY <1>15, <2>1
  <2>7. vault = TotalOf(balancesToWithdraw') + (OpenDeposits - C) + TotalOf(root)
    <3>1. vault \in Int /\ vault = TotalOf(b) + OpenDeposits + TotalOf(l2)
      BY <2>1, <2>6
    <3> QED BY <2>1, <2>2, <2>3, <2>4, <2>5, <2>6, <3>1
  <2> QED BY <1>1, <1>15, <2>4, <2>7
<1>17. FundsCovered'
  BY <1>16 DEF FundsCovered, Remaining
<1> QED BY <1>12, <1>13, <1>14, <1>17 DEF FundsInv

\* Every step of the contract keeps the funds.
LEMMA FundsStep == QueueInv /\ FundsInv /\ [Next]_vars => FundsInv'
<1> SUFFICES ASSUME QueueInv, FundsInv, [Next]_vars
             PROVE  FundsInv'
  OBVIOUS
<1>0. exodusMode \in BOOLEAN
  BY DEF QueueInv, CountersTyped
<1>1. CASE Mine
  BY <1>0, <1>1, OthersKeepFunds DEF Mine, exodus
<1>2. CASE Validator
  <2>1. ASSUME NEW ops \in PublicDatas,
               NEW root \in {blocks[totalBlocksCommitted].root,
                             FoldLeft(Apply, blocks[totalBlocksCommitted].root, ops)},
               CommitBlock(ops, root)
        PROVE  FundsInv'
    BY <2>1, CommitKeepsFunds
  <2>2. CASE VerifyBlock
    BY <2>2, VerifyKeepsFunds
  <2>3. ASSUME NEW max \in 1 .. MaxCommits, RevertBlocks(max)
        PROVE  FundsInv'
    BY <2>3, RevertKeepsFunds
  <2> QED BY <1>2, <2>1, <2>2, <2>3 DEF Validator
<1>3. CASE Users
  <2>1. ASSUME NEW owner \in Owners, DepositETH(owner)
        PROVE  FundsInv'
    <3>1. PICK r : r = [type |-> "Deposit", owner |-> owner, amount |-> 1]
      OBVIOUS
    <3>2. r \in UserRequest /\ r.amount = 1
      BY <3>1, UserRequests
    <3>3. Request(r) /\ vault' = vault + r.amount
          /\ UNCHANGED <<rollup, exodus, pendingWithdrawals, firstPendingWithdrawalIndex,
                         numberOfPendingWithdrawals, balancesToWithdraw>>
      BY <2>1, <3>1, <3>2 DEF DepositETH, RegisterDeposit
    <3> QED BY <3>2, <3>3, RequestKeepsFunds
  <2>2. ASSUME NEW owner \in Owners, FullExit(owner)
        PROVE  FundsInv'
    <3>1. PICK r : r = [type |-> "FullExit", owner |-> owner, amount |-> 0]
      OBVIOUS
    <3>2. r \in UserRequest /\ r.amount = 0 /\ vault \in Nat
      BY <3>1, UserRequests DEF FundsInv, OwedTyped
    <3>3. Request(r) /\ vault' = vault + r.amount
          /\ UNCHANGED <<rollup, exodus, pendingWithdrawals, firstPendingWithdrawalIndex,
                         numberOfPendingWithdrawals, balancesToWithdraw>>
      BY <2>2, <3>1, <3>2 DEF FullExit, withdrawal
    <3> QED BY <3>2, <3>3, RequestKeepsFunds
  <2>3. ASSUME NEW owner \in Owners, WithdrawETH(owner)
        PROVE  FundsInv'
    BY <2>3, WithdrawKeepsFunds
  <2>4. ASSUME NEW owner \in Owners, Exit(owner)
        PROVE  FundsInv'
    BY <2>4, ExitKeepsFunds
  <2>5. ASSUME NEW sent \in SUBSET Owners, NEW n \in {1, MaxRequests}, CompleteWithdrawals(n, sent)
        PROVE  FundsInv'
    <3>1. n \in Nat
      BY ContractAssumption
    <3> QED BY <2>5, <3>1, CompleteKeepsFunds
  <2> QED BY <1>3, <2>1, <2>2, <2>3, <2>4, <2>5 DEF Users
<1>4. CASE TriggerExodusIfNeeded
  BY <1>4, OthersKeepFunds DEF TriggerExodusIfNeeded
<1>5. CASE Cancel
  <2>1. PICK n \in {1, MaxRequests} : CancelOutstandingDeposits(n)
    BY <1>5 DEF Cancel
  <2>2. n \in Nat
    BY ContractAssumption
  <2> QED BY <2>1, <2>2, CancelKeepsFunds
<1>6. CASE UNCHANGED vars
  BY <1>0, <1>6, OthersKeepFunds DEF vars, exodus
<1> QED BY <1>1, <1>2, <1>3, <1>4, <1>5, <1>6 DEF Next

\* The invariants say more than the property.
LEMMA FundsFollowFromInv == QueueInv /\ FundsInv => FundsFollow
<1> SUFFICES ASSUME QueueInv, FundsInv
             PROVE  FundsFollow
  OBVIOUS
<1>1. /\ height \in Nat /\ totalOpenPriorityRequests \in Nat /\ firstPriorityRequestId \in Nat
      /\ numberOfPendingWithdrawals \in Nat /\ vault \in Nat /\ exodusMode \in BOOLEAN
      /\ totalBlocksVerified \in 0 .. totalBlocksCommitted
      /\ totalBlocksCommitted \in Nat
  BY DEF QueueInv, CountersTyped, FundsInv, PendingTyped, OwedTyped
<1>2. totalCommittedPriorityRequests \in Nat
  <2>1. PICK off : Offsets(off)
    BY DEF QueueInv, BlocksHoldRequests
  <2>2. totalBlocksCommitted \in totalBlocksVerified .. totalBlocksCommitted
    BY <1>1
  <2> QED BY <2>1, <2>2 DEF Offsets
<1>3. TypeOK
  BY <1>1, <1>2 DEF TypeOK, QueueInv, QueueOfRequests, BlocksFormed, FundsInv, RootsTyped,
     OwedTyped, ExitsInExodus
<1>4. PendingQueueDense
  BY DEF FundsInv, PendingTyped, PendingQueueDense
<1> QED BY <1>3, <1>4 DEF FundsInv, FundsFollow

\* The contract holds exactly what it owes, no unsigned number passes below zero
\* and the queue of withdrawals has no holes (verifyBlock, completeWithdrawals,
\* withdrawETH, revertBlocks, exit, cancelOutstandingDepositsForExodusMode), for
\* every set of owners and public data.
THEOREM FundsFollowed == Spec => []FundsFollow
<1>1. Init => QueueInv /\ FundsInv
  BY QueueInitially, FundsInitially
<1>2. (QueueInv /\ FundsInv) /\ [Next]_vars => (QueueInv /\ FundsInv)'
  BY QueueStep, FundsStep
<1>3. QueueInv /\ FundsInv => FundsFollow
  BY FundsFollowFromInv
<1> QED BY <1>1, <1>2, <1>3, PTL DEF Spec
=============================================================================
