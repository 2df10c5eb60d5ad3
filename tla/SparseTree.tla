------------------------------ MODULE SparseTree ------------------------------
(***************************************************************************)
(* The sparse Merkle tree of the accounts                                  *)
(* (lib/crypto/src/merkle_tree/parallel_smt.rs): a node is kept for each   *)
(* leaf and for each place where two leaves part, the levels in between    *)
(* are skipped, and hashes are cached until an insert wipes them.  The     *)
(* same accounts go to the tree with a hash for every node on the way to a *)
(* leaf (sequential_smt.rs), which the tests take as the reference.        *)
(*                                                                         *)
(* The hash of a node is the sequence of the leaves below it, so that two  *)
(* hashes are equal only when the subtrees are.                            *)
(***************************************************************************)
EXTENDS Integers, SequencesExt, TLC

CONSTANTS
    Depth,              \* tree_depth
    Indices,            \* the accounts that are inserted
    Values, Default     \* the leaves; T::default()

Capacity == 2 ^ Depth

ASSUME TreeAssumption ==
    /\ Depth \in Nat /\ Depth > 1
    /\ Indices \subseteq 0 .. Capacity - 1 /\ Default \in Values

VARIABLES
    tree,               \* the SparseMerkleTree: items, nodes, cache
    flat                \* hashes of the sequential tree

vars == <<tree, flat>>

-----------------------------------------------------------------------------
(* Node indices: the root is 1, the children of n are 2 * n and 2 * n + 1. *)

None == 0
Node(index, depth, left, right) ==
    [index |-> index, depth |-> depth, left |-> left, right |-> right]

LeafIndex(i) == Capacity + i

DepthOf ==
    [n \in 1 .. 2 * Capacity - 1 |-> CHOOSE d \in 0 .. Depth : 2 ^ d <= n /\ n < 2 ^ (d + 1)]

\* The ancestor of n at a depth.
Above(n, depth) == n \div 2 ^ (DepthOf[n] - depth)

Side(n) == IF n % 2 = 0 THEN "left" ELSE "right"

\* NodeDirection::order_elements, compress
Compress(side, own, other) == IF side = "left" THEN own \o other ELSE other \o own

\* prehashed
Prehashed(depth) == [i \in 1 .. 2 ^ (Depth - depth) |-> Default]

\* parallel_smt.rs indexes items, and panics when there is none.
Missing == "missing"
ItemHash(items, n) ==
    IF n - Capacity \in DOMAIN items THEN <<items[n - Capacity]>> ELSE <<Missing>>

EmptyTree ==
    [items |-> << >>, nodes |-> <<Node(1, 0, None, None)>>, cache |-> << >>]

-----------------------------------------------------------------------------
(* insert *)

\* The nodes from the root down that lie above the leaf, the leaf included.
Visited(nodes, leaf) ==
    LET visit[ref \in DOMAIN nodes] ==
          LET node == nodes[ref]
              next == IF node.index = leaf THEN None ELSE node[Side(Above(leaf, node.depth + 1))]
          IN  IF next # None /\ Above(leaf, nodes[next].depth) = nodes[next].index
              THEN <<ref>> \o visit[next] ELSE <<ref>>
    IN  visit[1]

\* Mutant: the gaps above the node stay in the cache.
WipedOnly(cache, child, parent) == {child} \cap DOMAIN cache

\* wipe_cache: nothing above is removed when the node is not cached.
Wiped(cache, child, parent) ==
    IF child \notin DOMAIN cache THEN {}
    ELSE {Above(child, d) : d \in 0 .. DepthOf[child]} \ 0 .. parent

CommonParent(m, n) ==
    LET depth == CHOOSE d \in 0 .. DepthOf[m] :
                    Above(m, d) = Above(n, d) /\ \A e \in d + 1 .. DepthOf[m] : Above(m, e) # Above(n, e)
    IN  Above(m, depth)

\* Mutant: the new leaf always goes to the right.
SplitRight(leaf, leafRef, next, nextRef) ==
    LET common == CommonParent(Above(leaf, next.depth), next.index)
    IN  Node(common, DepthOf[common], nextRef, leafRef)

\* The node with the new leaf and the node that was in its way as children.
Split(leaf, leafRef, next, nextRef) ==
    LET beside == Above(leaf, next.depth)
        common == CommonParent(beside, next.index)
    IN  IF beside > next.index THEN Node(common, DepthOf[common], nextRef, leafRef)
        ELSE Node(common, DepthOf[common], leafRef, nextRef)

Insert(t, i, item) ==
    LET leaf == LeafIndex(i)
        path == Visited(t.nodes, leaf)
        last == path[Len(path)]
        current == t.nodes[last]
        reached == current.index = leaf
        side == Side(Above(leaf, current.depth + 1))
        next == current[side]
        newRef == Len(t.nodes) + 1
        split == Split(leaf, newRef, t.nodes[next], next)
        wiped == {1} \cup
            UNION {Wiped(t.cache, t.nodes[path[k + 1]].index, t.nodes[path[k]].index) :
                   k \in 1 .. Len(path) - 1} \cup
            (IF reached \/ next = None THEN {} ELSE Wiped(t.cache, split.index, current.index))
        withLeaf == Append(t.nodes, Node(leaf, Depth, None, None))
    IN  [items |-> (i :> item) @@ t.items,
         cache |-> [n \in DOMAIN t.cache \ wiped |-> t.cache[n]],
         nodes |-> IF reached THEN t.nodes
                   ELSE IF next = None THEN [withLeaf EXCEPT ![last][side] = newRef]
                   ELSE [Append(withLeaf, split) EXCEPT ![last][side] = newRef + 1]]

\* Mutant: the item is taken out, its hash stays.
RemoveItemOnly(t, i) == [t EXCEPT !.items = [j \in DOMAIN @ \ {i} |-> @[j]]]

\* remove: the leaf stays, as a default item.
RemoveLeaf(t, i) == Insert(t, i, Default)

-----------------------------------------------------------------------------
(* root_hash, merkle_path *)

\* calculate_child_hash: the hash of a node, raised through the levels that have no
\* node up to the one below its parent, and these hashes.
Raised(child, hash, parent) ==
    LET raise[d \in parent.depth + 1 .. child.depth] ==
          IF d = child.depth THEN hash
          ELSE Compress(Side(Above(child.index, d + 1)), raise[d + 1], Prehashed(d + 1))
    IN  [hash |-> raise[parent.depth + 1],
         updates |-> [n \in {Above(child.index, d) : d \in parent.depth + 1 .. child.depth - 1} |->
                        raise[DepthOf[n]]]]

\* get_hash, get_child_hash: the hash of each node, with the hashes found on the way.
Hashes(t) ==
    LET hashes[ref \in DOMAIN t.nodes] ==
          LET node == t.nodes[ref]
              Child(side) ==
                LET index == IF side = "left" THEN 2 * node.index ELSE 2 * node.index + 1
                    child == node[side]
                IN  IF index \in DOMAIN t.cache THEN [hash |-> t.cache[index], updates |-> << >>]
                    ELSE IF child = None
                    THEN [hash |-> Prehashed(node.depth + 1), updates |-> << >>]
                    ELSE LET below == hashes[child]
                             raised == Raised(t.nodes[child], below.hash, node)
                         IN  [hash |-> raised.hash, updates |-> raised.updates @@ below.updates]
              left == Child("left")
              right == Child("right")
              hash == IF node.depth = Depth THEN ItemHash(t.items, node.index)
                      ELSE left.hash \o right.hash
          IN  [hash |-> hash,
               updates |-> (node.index :> hash) @@
                           (IF node.depth = Depth THEN << >> ELSE left.updates @@ right.updates)]
    IN  hashes

Root(t) == Hashes(t)[1].hash

\* The tree after root_hash
Rooted(t) == [t EXCEPT !.cache = Hashes(t)[1].updates @@ @]

\* merkle_path, get_calculated_node_hash: the hash beside the node at each depth.
MerklePath(cache, i) ==
    LET Beside(n) == IF n % 2 = 0 THEN n + 1 ELSE n - 1
        NeighborHash(n) ==
            IF Beside(n) \in DOMAIN cache THEN cache[Beside(n)] ELSE Prehashed(DepthOf[n])
    IN  [d \in 1 .. Depth |-> NeighborHash(Above(LeafIndex(i), d))]

\* The hash that a leaf and the hashes on its path give.
Climbed(i, leaf, path) ==
    LET climb[d \in 0 .. Depth] ==
          IF d = Depth THEN leaf
          ELSE Compress(Side(Above(LeafIndex(i), d + 1)), climb[d + 1], path[d + 1])
    IN  climb[0]

-----------------------------------------------------------------------------
(* The sequential tree: hashes by level and place *)

FlatHash(hashes, level, place) ==
    IF <<level, place>> \in DOMAIN hashes THEN hashes[<<level, place>>] ELSE Prehashed(level)

\* recalculate_hashes, update_hash
FlatInsert(hashes, i, item) ==
    LET place == [d \in 0 .. Depth |-> i \div 2 ^ (Depth - d)]
        new[d \in 0 .. Depth] ==
          IF d = Depth THEN <<item>>
          ELSE Compress(Side(place[d + 1]), new[d + 1],
                        FlatHash(hashes, d + 1, IF place[d + 1] % 2 = 0 THEN place[d + 1] + 1
                                                ELSE place[d + 1] - 1))
    IN  [p \in DOMAIN hashes \cup {<<d, place[d]>> : d \in 0 .. Depth} |->
           IF p[2] = place[p[1]] THEN new[p[1]] ELSE hashes[p]]

-----------------------------------------------------------------------------
(* The accounts in the database: those that exist. *)
AccountsOf(t) ==
    LET present == {i \in DOMAIN t.items : t.items[i] # Default}
    IN  [i \in present |-> t.items[i]]

\* Mutant: only the accounts that exist are inserted again.
ChangedPresent(old, new) ==
    {i \in DOMAIN new : i \notin DOMAIN old \/ old[i] # new[i]}

\* load_state_diff: the accounts that differ
ChangedAccounts(old, new) ==
    ChangedPresent(old, new) \cup (DOMAIN old \ DOMAIN new)

\* get_internals, after root_hash
Internals(t) == [nodes |-> t.nodes, cache |-> Rooted(t).cache]

\* The tree of the accounts from the internals of a tree of other ones (witness
\* generator and state keeper, load_account_tree): set_internals, then the accounts
\* that differ, in order.
Restored(accounts, internals, old) ==
    LET loaded == [items |-> accounts, nodes |-> internals.nodes, cache |-> internals.cache]
        Put(t, i) == Insert(t, i, IF i \in DOMAIN accounts THEN accounts[i] ELSE Default)
    IN  FoldLeft(Put, loaded, SetToSortSeq(ChangedAccounts(old, accounts), <))

FlatOf(accounts) ==
    LET Put(h, i) == FlatInsert(h, i, accounts[i])
    IN  FoldLeft(Put, << >>, SetToSeq(DOMAIN accounts))

InsertItem(i, v) == tree' = Insert(tree, i, v) /\ flat' = FlatInsert(flat, i, v)

RemoveItem(i) == tree' = RemoveLeaf(tree, i) /\ flat' = FlatInsert(flat, i, Default)

\* root_hash, merkle_path
Hash == tree' = Rooted(tree) /\ UNCHANGED flat

\* The internals are stored, and another process takes them to build the tree of
\* a block before or after.  A row is not changed once it is stored.
Reload ==
    LET internals == Internals(tree)
    IN  \E accounts \in UNION {[present -> Values \ {Default}] : present \in SUBSET Indices} :
           /\ tree' = Restored(accounts, internals, AccountsOf(tree))
           /\ flat' = FlatOf(accounts)

Init == tree = EmptyTree /\ flat = << >>

Next ==
    \/ \E i \in Indices : RemoveItem(i) \/ \E v \in Values \ {Default} : InsertItem(i, v)
    \/ Hash \/ Reload

Spec == Init /\ [][Next]_vars

-----------------------------------------------------------------------------
\* The leaves below a node
Reference(n) ==
    LET first == n * 2 ^ (Depth - DepthOf[n]) - Capacity
    IN  [k \in 1 .. 2 ^ (Depth - DepthOf[n]) |->
           IF first + k - 1 \in DOMAIN tree.items THEN tree.items[first + k - 1] ELSE Default]

\* The nodes are one tree: each is reached from the root once, below its parent.
TypeOK ==
    /\ DOMAIN tree.items \subseteq Indices /\ \A i \in DOMAIN tree.items : tree.items[i] \in Values
    /\ \A ref \in DOMAIN tree.nodes :
          LET node == tree.nodes[ref]
          IN  /\ node.depth = DepthOf[node.index]
              /\ \A side \in {"left", "right"} : node[side] \in {None} \cup 2 .. Len(tree.nodes)
              /\ ref # 1 => \E parent \in DOMAIN tree.nodes :
                    /\ tree.nodes[parent].depth < node.depth
                    /\ tree.nodes[parent][Side(Above(node.index, tree.nodes[parent].depth + 1))] = ref
    /\ DOMAIN tree.cache \subseteq 1 .. 2 * Capacity - 1

\* Whatever was inserted, removed, hashed or restored in whatever order, the root
\* is the hash of all leaves ("which represents the state of all of the tree
\* elements", parallel_smt.rs:35), with no item missing.
RootIsReference == Root(tree) = Reference(1)

\* The path of every leaf, also of one that is not in the tree, leads to the root;
\* merkle_path takes a hash that is not cached for a default one
\* ("there will be no unknown hashes", parallel_smt.rs:401).
PathsLeadToRoot ==
    LET cache == Rooted(tree).cache
        root == Reference(1)
    IN  \A i \in Indices : Climbed(i, Reference(LeafIndex(i)), MerklePath(cache, i)) = root

\* The two trees agree (merkle_tree/tests.rs:54).
FlatAgrees == FlatHash(flat, 0, 0) = Root(tree)

\* However the tree was reached, root, paths and the other implementation agree
\* (root_hash, merkle_path, restore).
TreesAgree == TypeOK /\ RootIsReference /\ PathsLeadToRoot /\ FlatAgrees
=============================================================================
