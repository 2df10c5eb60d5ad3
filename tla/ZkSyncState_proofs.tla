-------------------------- MODULE ZkSyncState_proofs --------------------------
(***************************************************************************)
(* Theorems about the state library, for every account tree it starts      *)
(* with, every set of transactions, batches and priority operations.       *)
(*                                                                         *)
(* An execution is described once by what it does to the account tree      *)
(* (Sound): it moves the tree along the updates it reports, step by step   *)
(* and back again, keeps the total, and lets no nonce fall.  Batches,      *)
(* their undoing and the collection of fees are chains of such moves.      *)
(***************************************************************************)
EXTENDS ZkSyncState, DataFacts

-----------------------------------------------------------------------------
(* Account trees *)

AllTxs == Txs \cup UNION {Range(b) : b \in Batches}

\* The addresses and keys that accounts may get.
Addresses ==
    {Genesis[i].address : i \in DOMAIN Genesis}
      \cup {tx.to : tx \in AllTxs} \cup {op.to : op \in PriorityOps}
Keys == {NoKey} \cup {Genesis[i].key : i \in DOMAIN Genesis} \cup {tx.newKey : tx \in AllTxs}

Account == [address : Addresses, nonce : Nat, key : Keys, balance : Nat]

\* What updates may make of a tree, and the trees that executions keep to.
Trees == UNION {[D -> Account] : D \in SUBSET Nat}

Distinct(l) == \A i, j \in DOMAIN l : l[i].address = l[j].address => i = j
Ledgers == {l \in UNION {[0 .. n -> Account] : n \in Nat} : Distinct(l) /\ FeeAccountId \in DOMAIN l}

LEMMA LedgerFacts ==
  ASSUME NEW l \in Ledgers
  PROVE  /\ FreeId(l) \in Nat \ {0} /\ DOMAIN l = 0 .. FreeId(l) - 1 /\ IsFiniteSet(DOMAIN l)
         /\ l \in [DOMAIN l -> Account] /\ Distinct(l) /\ FeeAccountId \in DOMAIN l
         /\ l \in Trees /\ DOMAIN l \subseteq Nat
<1>1. PICK n \in Nat : l \in [0 .. n -> Account] /\ Distinct(l) /\ FeeAccountId \in DOMAIN l
  BY DEF Ledgers
<1>2. DOMAIN l = 0 .. n /\ 0 .. n \subseteq Nat
  BY <1>1
<1>3. IsFiniteSet(0 .. n) /\ Cardinality(0 .. n) = n + 1
  BY FS_Interval
<1>4. FreeId(l) = n + 1 /\ (n + 1) - 1 = n /\ n + 1 \in Nat \ {0}
  BY <1>2, <1>3 DEF FreeId
<1>5. l \in Trees
  BY <1>1, <1>2 DEF Trees
<1> QED BY <1>1, <1>2, <1>3, <1>4, <1>5

LEMMA LedgerIs ==
  ASSUME NEW n \in Nat, NEW l \in [0 .. n -> Account], Distinct(l), FeeAccountId \in 0 .. n
  PROVE  l \in Ledgers
BY DEF Ledgers

LEMMA TreeFacts ==
  ASSUME NEW l \in Trees
  PROVE  DOMAIN l \subseteq Nat /\ l \in [DOMAIN l -> Account]
BY DEF Trees

LEMMA TreeIs ==
  ASSUME NEW D \in SUBSET Nat, NEW l \in [D -> Account]
  PROVE  l \in Trees
BY DEF Trees

\* The total of a tree.
LEMMA TotalOfTree ==
  ASSUME NEW l \in Ledgers
  PROVE  SumBalances(l) \in Nat /\ SumBalances(l) = SumFunction([i \in DOMAIN l |-> l[i].balance])
<1>1. IsFiniteSet(DOMAIN l) /\ [i \in DOMAIN l |-> l[i].balance] \in [DOMAIN l -> Nat]
  BY LedgerFacts DEF Account
<1>2. SumBalances(l) = SumFunction([i \in DOMAIN l |-> l[i].balance])
  BY Zenon DEF SumBalances, SumFunction, SumFunctionOnSet, FoldFunction
<1> QED BY <1>1, <1>2, SumIsNat

\* An account is replaced by one with its address.
LEMMA Replaced ==
  ASSUME NEW l \in Ledgers, NEW i \in DOMAIN l, NEW a \in Account, a.address = l[i].address
  PROVE  LET m == Insert(l, i, a)
         IN  /\ m \in Ledgers /\ DOMAIN m = DOMAIN l /\ m[i] = a
             /\ \A j \in DOMAIN l \ {i} : m[j] = l[j]
             /\ SumBalances(m) = SumBalances(l) - l[i].balance + a.balance
<1> DEFINE m == Insert(l, i, a)
           n == FreeId(l) - 1
<1>1. /\ n \in Nat /\ DOMAIN l = 0 .. n /\ l \in [0 .. n -> Account] /\ Distinct(l)
      /\ FeeAccountId \in 0 .. n /\ IsFiniteSet(0 .. n)
  BY LedgerFacts
<1> HIDE DEF n
<1>2. m \in [0 .. n -> Account] /\ m[i] = a /\ \A j \in (0 .. n) \ {i} : m[j] = l[j]
  BY <1>1 DEF Insert
<1> HIDE DEF m
<1>3. Distinct(m)
  BY <1>1, <1>2 DEF Distinct
<1>4. m \in Ledgers
  BY <1>1, <1>2, <1>3, LedgerIs
<1>5. SumBalances(m) = SumBalances(l) - l[i].balance + a.balance
  <2> DEFINE f == [j \in 0 .. n |-> l[j].balance]
             g == [j \in 0 .. n |-> m[j].balance]
  <2>1. f \in [0 .. n -> Int] /\ g \in [0 .. n -> Int]
    <3>1. \A j \in 0 .. n : l[j].balance \in Nat /\ m[j].balance \in Nat
      BY <1>1, <1>2 DEF Account
    <3> QED BY <3>1
  <2>2. g[i] = a.balance /\ f[i] = l[i].balance /\ \A j \in (0 .. n) \ {i} : g[j] = f[j]
    BY <1>1, <1>2
  <2>3. SumBalances(m) = SumFunction(g) /\ SumBalances(l) = SumFunction(f)
    BY <1>1, <1>2, <1>4, TotalOfTree
  <2> HIDE DEF f, g
  <2>0. i \in 0 .. n
    BY <1>1
  <2>4. SumFunction(g) = SumFunction(f) - f[i] + g[i]
    <3> DEFINE S == 0 .. n
    <3>1. /\ IsFiniteSet(S) /\ f \in [S -> Int] /\ g \in [S -> Int] /\ i \in S
          /\ \A j \in S \ {i} : g[j] = f[j]
      BY <1>1, <2>0, <2>1, <2>2
    <3> HIDE DEF S
    <3> QED BY ONLY <3>1, SumChanges
  <2> QED BY <2>2, <2>3, <2>4
<1> QED BY <1>1, <1>2, <1>4, <1>5 DEF m

\* An account is created under the free id (get_free_account_id).
LEMMA Added ==
  ASSUME NEW l \in Ledgers, NEW a \in Account, Holder(l, a.address) = {}, a.balance = 0
  PROVE  LET m == Insert(l, FreeId(l), a)
         IN  /\ m \in Ledgers /\ DOMAIN m = DOMAIN l \cup {FreeId(l)} /\ m[FreeId(l)] = a
             /\ FreeId(l) \notin DOMAIN l /\ \A j \in DOMAIN l : m[j] = l[j]
             /\ SumBalances(m) = SumBalances(l)
<1> DEFINE i == FreeId(l)
           m == Insert(l, i, a)
<1>1. /\ i \in Nat \ {0} /\ DOMAIN l = 0 .. i - 1 /\ l \in [0 .. i - 1 -> Account] /\ Distinct(l)
      /\ FeeAccountId \in 0 .. i - 1
  BY LedgerFacts
<1>2. \A j \in 0 .. i - 1 : l[j].address # a.address
  BY <1>1 DEF Holder
<1> HIDE DEF i
<1>3. i \notin 0 .. i - 1 /\ 0 .. i = (0 .. i - 1) \cup {i} /\ IsFiniteSet(0 .. i)
  <2>1. i \notin 0 .. i - 1 /\ 0 .. i = (0 .. i - 1) \cup {i}
    BY <1>1
  <2> QED BY <1>1, <2>1, FS_Interval
<1>4. m \in [0 .. i -> Account] /\ m[i] = a /\ \A j \in 0 .. i - 1 : m[j] = l[j]
  BY <1>1, <1>3 DEF Insert
<1> HIDE DEF m
<1>5. Distinct(m)
  BY <1>1, <1>2, <1>3, <1>4 DEF Distinct
<1>6. m \in Ledgers
  BY <1>1, <1>3, <1>4, <1>5, LedgerIs
<1>7. SumBalances(m) = SumBalances(l)
  <2> DEFINE f == [j \in 0 .. i - 1 |-> l[j].balance]
             g == [j \in 0 .. i |-> m[j].balance]
  <2>1. g \in [0 .. i -> Int] /\ g[i] = 0
    <3>1. \A j \in 0 .. i : m[j].balance \in Nat
      BY <1>4 DEF Account
    <3> QED BY <1>1, <1>3, <1>4, <3>1
  <2>2. Restrict(g, 0 .. i \ {i}) = f
    <3>1. (0 .. i) \ {i} = 0 .. i - 1
      BY <1>1
    <3>2. Restrict(g, 0 .. i - 1) = f
      BY <1>1, <1>3, <1>4 DEF Restrict
    <3> QED BY <3>1, <3>2
  <2>3. SumBalances(m) = SumFunction(g) /\ SumBalances(l) = SumFunction(f)
    BY <1>1, <1>4, <1>6, TotalOfTree
  <2>4. i \in 0 .. i
    BY <1>1
  <2> HIDE DEF f, g
  <2>5. SumFunction(g) = g[i] + SumFunction(Restrict(g, 0 .. i \ {i})) /\ SumFunction(Restrict(g, 0 .. i \ {i})) \in Int
    BY <1>3, <2>1, <2>4, SumTakesOne
  <2> QED BY <2>1, <2>2, <2>3, <2>5
<1> QED BY <1>1, <1>3, <1>4, <1>6, <1>7 DEF m, i

\* Inserting twice under one id.
LEMMA InsertedTwice ==
  ASSUME NEW l \in Trees, NEW i \in Nat, NEW a \in Account, NEW b \in Account
  PROVE  Insert(Insert(l, i, a), i, b) = Insert(l, i, b)
BY DEF Insert

\* Insertions under different ids commute.
LEMMA InsertsCommute ==
  ASSUME NEW l \in Trees, NEW i \in Nat, NEW j \in Nat, i # j, NEW a \in Account, NEW b \in Account
  PROVE  Insert(Insert(l, i, a), j, b) = Insert(Insert(l, j, b), i, a)
BY DEF Insert

-----------------------------------------------------------------------------
(* Updates, and the way they lead *)

Updates ==
    [kind : {"Create", "Delete"}, id : Nat, address : Addresses, nonce : Nat]
      \cup [kind : {"UpdateBalance"}, id : Nat, old : Nat, new : Nat, oldNonce : Nat, newNonce : Nat]
      \cup [kind : {"ChangePubKeyHash"}, id : Nat, old : Keys, new : Keys, oldNonce : Nat,
            newNonce : Nat]

LEMMA NewAccountTyped ==
  ASSUME NEW a \in Addresses
  PROVE  /\ NewAccount(a) \in Account /\ NewAccount(a).address = a /\ NewAccount(a).nonce = 0
         /\ NewAccount(a).balance = 0 /\ NewAccount(a).key = NoKey
BY DEF NewAccount, Account, Keys

\* apply_account_updates keeps trees, whatever the update.
LEMMA UpdateTyped ==
  ASSUME NEW l \in Trees, NEW u \in Updates
  PROVE  ApplyUpdate(l, u) \in Trees
<1>1. DOMAIN l \subseteq Nat /\ l \in [DOMAIN l -> Account] /\ u.id \in Nat
  BY TreeFacts DEF Updates
<1>2. CASE u \in [kind : {"Create", "Delete"}, id : Nat, address : Addresses, nonce : Nat]
  <2>1. CASE u.kind = "Create"
    <3> DEFINE a == [NewAccount(u.address) EXCEPT !.nonce = u.nonce]
    <3>1. a \in Account
      BY <1>2 DEF NewAccount, Account, Keys
    <3>2. ApplyUpdate(l, u) = Insert(l, u.id, a)
      BY <2>1 DEF ApplyUpdate
    <3> HIDE DEF a
    <3>3. Insert(l, u.id, a) \in [DOMAIN l \cup {u.id} -> Account]
      BY <1>1, <3>1 DEF Insert
    <3>4. DOMAIN l \cup {u.id} \in SUBSET Nat
      BY <1>1
    <3> QED BY <3>2, <3>3, <3>4, TreeIs
  <2>2. CASE u.kind = "Delete"
    <3>1. ApplyUpdate(l, u) = Without(l, u.id)
      BY <2>2 DEF ApplyUpdate
    <3>2. Without(l, u.id) \in [DOMAIN l \ {u.id} -> Account]
      BY <1>1 DEF Without
    <3>3. DOMAIN l \ {u.id} \in SUBSET Nat
      BY <1>1
    <3> QED BY <3>1, <3>2, <3>3, TreeIs
  <2> QED BY <1>2, <2>1, <2>2
<1>3. CASE u \in [kind : {"UpdateBalance"}, id : Nat, old : Nat, new : Nat, oldNonce : Nat, newNonce : Nat]
  <2>1. ApplyUpdate(l, u) = [l EXCEPT ![u.id].balance = u.new, ![u.id].nonce = u.newNonce]
    BY <1>3 DEF ApplyUpdate
  <2>2. [l EXCEPT ![u.id].balance = u.new, ![u.id].nonce = u.newNonce] \in [DOMAIN l -> Account]
    <3>1. \A a \in Account : [a EXCEPT !.balance = u.new] \in Account
      BY <1>3 DEF Account
    <3>2. \A a \in Account : [a EXCEPT !.nonce = u.newNonce] \in Account
      BY <1>3 DEF Account
    <3> QED BY <1>1, <3>1, <3>2
  <2> QED BY <1>1, <2>1, <2>2, TreeIs
<1>4. CASE u \in [kind : {"ChangePubKeyHash"}, id : Nat, old : Keys, new : Keys, oldNonce : Nat, newNonce : Nat]
  <2>1. ApplyUpdate(l, u) = [l EXCEPT ![u.id].key = u.new, ![u.id].nonce = u.newNonce]
    BY <1>4 DEF ApplyUpdate
  <2>2. [l EXCEPT ![u.id].key = u.new, ![u.id].nonce = u.newNonce] \in [DOMAIN l -> Account]
    <3>1. \A a \in Account : [a EXCEPT !.key = u.new] \in Account
      BY <1>4 DEF Account
    <3>2. \A a \in Account : [a EXCEPT !.nonce = u.newNonce] \in Account
      BY <1>4 DEF Account
    <3> QED BY <1>1, <3>1, <3>2
  <2> QED BY <1>1, <2>1, <2>2, TreeIs
<1> QED BY <1>2, <1>3, <1>4 DEF Updates

ApplyEquation(g, base, s) ==
  g = [d \in SUBSET DOMAIN s |-> IF d = {} THEN base ELSE ApplyUpdate(g[d \ {Max(d)}], s[Max(d)])]

LEMMA ApplyUnfolds ==
  ASSUME NEW base, NEW s
  PROVE  FoldLeft(ApplyUpdate, base, s) = (CHOOSE g : ApplyEquation(g, base, s))[DOMAIN s]
BY Zenon DEF FoldLeft, MapThenFoldSet, ApplyEquation

ApplyTrace(t, base, s) ==
  /\ t \in [0 .. Len(s) -> Trees] /\ t[0] = base
  /\ \A i \in 1 .. Len(s) : t[i] = ApplyUpdate(t[i - 1], s[i])

\* Updates are applied one after the other.
LEMMA ApplyHasTrace ==
  ASSUME NEW base \in Trees, NEW s \in Seq(Updates)
  PROVE  \E t : ApplyTrace(t, base, s) /\ FoldLeft(ApplyUpdate, base, s) = t[Len(s)]
<1> DEFINE n == Len(s)
           step == [p \in Trees \X (1 .. n) |-> ApplyUpdate(p[1], s[p[2]])]
           choose == [d \in SUBSET (1 .. n) |-> Max(d)]
           G == CHOOSE g : ApplyEquation(g, base, s)
<1>0. n \in Nat /\ DOMAIN s = 1 .. n /\ IsFiniteSet(1 .. n) /\ \A i \in 1 .. n : s[i] \in Updates
  <2>1. n \in Nat /\ DOMAIN s = 1 .. n /\ \A i \in 1 .. n : s[i] \in Updates
    BY LenProperties, ElementOfSeq
  <2> QED BY <2>1, FS_Interval
<1>1. \A d \in SUBSET (1 .. n) : d # {} => choose[d] = Max(d) /\ Max(d) \in d
  BY <1>0, LastIsPicked
<1>2. step \in [Trees \X (1 .. n) -> Trees]
  <2>1. \A v \in Trees : \A i \in 1 .. n : ApplyUpdate(v, s[i]) \in Trees
    BY <1>0, UpdateTyped
  <2> QED BY <2>1
<1>3. \A v \in Trees : \A i \in 1 .. n : step[<<v, i>>] = ApplyUpdate(v, s[i])
  OBVIOUS
<1> HIDE DEF n, step, choose
<1>4. PICK H : IsIterator(H, 1 .. n, Trees, base, choose, step)
  <2>1. \A d \in SUBSET (1 .. n) : d # {} => choose[d] \in d
    BY <1>1
  <2> QED BY ONLY base \in Trees, <1>0, <1>2, <2>1, IteratorExists
<1>5. ApplyEquation(H, base, s)
  <2>1. H \in [SUBSET (1 .. n) -> Trees]
    BY <1>4 DEF IsIterator
  <2>2. \A d \in SUBSET (1 .. n) : d # {} =>
           step[<<H[d \ {choose[d]}], choose[d]>>] = ApplyUpdate(H[d \ {Max(d)}], s[Max(d)])
    <3> TAKE d \in SUBSET (1 .. n)
    <3> HAVE d # {}
    <3>1. choose[d] = Max(d) /\ Max(d) \in 1 .. n /\ H[d \ {Max(d)}] \in Trees
      BY <1>1, <2>1
    <3> QED BY <1>3, <3>1
  <2>3. H = [d \in SUBSET (1 .. n) |-> IF d = {} THEN base ELSE step[<<H[d \ {choose[d]}], choose[d]>>]]
    BY <1>4 DEF IsIterator
  <2>4. H = [d \in SUBSET (1 .. n) |->
               IF d = {} THEN base ELSE ApplyUpdate(H[d \ {Max(d)}], s[Max(d)])]
    BY <2>2, <2>3, Zenon
  <2> QED BY <1>0, <2>4 DEF ApplyEquation
<1>6. ApplyEquation(G, base, s)
  BY <1>5, Zenon
<1>7. FoldLeft(ApplyUpdate, base, s) = G[1 .. n]
  BY <1>0, ApplyUnfolds, Zenon
<1> HIDE DEF G
<1>8. \A d \in SUBSET (1 .. n) :
         G[d] = IF d = {} THEN base ELSE ApplyUpdate(G[d \ {Max(d)}], s[Max(d)])
  BY <1>0, <1>6 DEF ApplyEquation
<1>9. IsFold(G, n, Trees, base, step)
  <2>1. G[{}] = base
    BY <1>8
  <2>2. \A d \in SUBSET (1 .. n) : d # {} /\ G[d \ {Max(d)}] \in Trees =>
           G[d] = step[<<G[d \ {Max(d)}], Max(d)>>]
    BY <1>1, <1>3, <1>8
  <2> QED BY <2>1, <2>2 DEF IsFold
<1>10. PICK t : IsTrace(t, G, n, Trees, base, step)
  BY ONLY base \in Trees, <1>0, <1>2, <1>9, FoldHasTrace
<1>11. t \in [0 .. n -> Trees] /\ t[0] = base /\ G[1 .. n] = t[n]
  BY <1>10 DEF IsTrace
<1>12. \A i \in 1 .. n : t[i] = ApplyUpdate(t[i - 1], s[i])
  <2> TAKE i \in 1 .. n
  <2>1. t[i - 1] \in Trees /\ t[i] = step[<<t[i - 1], i>>]
    BY <1>0, <1>10 DEF IsTrace
  <2> QED BY <1>3, <2>1
<1> QED BY <1>7, <1>11, <1>12 DEF n, ApplyTrace

\* One update there and back.
Step(l, u, m) ==
  /\ UpdateFits(l, u) /\ ApplyUpdate(l, u) = m
  /\ UpdateFits(m, Reversed(u)) /\ ApplyUpdate(m, Reversed(u)) = l

IsPath(t, us) ==
  /\ t \in [0 .. Len(us) -> Trees]
  /\ \A i \in 1 .. Len(us) : Step(t[i - 1], us[i], t[i])

\* The updates lead from one tree to another, and their reverse leads back.
Moves(l, us, m) ==
  us \in Seq(Updates) /\ \E t : IsPath(t, us) /\ t[0] = l /\ t[Len(us)] = m

LEMMA ReversedTwice ==
  ASSUME NEW u \in Updates
  PROVE  Reversed(u) \in Updates /\ Reversed(Reversed(u)) = u
<1>1. CASE u \in [kind : {"Create", "Delete"}, id : Nat, address : Addresses, nonce : Nat]
  <2>1. u = [kind |-> u.kind, id |-> u.id, address |-> u.address, nonce |-> u.nonce]
    BY <1>1
  <2>2. CASE u.kind = "Create"
    <3>1. Reversed(u) = [kind |-> "Delete", id |-> u.id, address |-> u.address, nonce |-> u.nonce]
      BY <2>1, <2>2 DEF Reversed
    <3> QED BY <1>1, <2>1, <2>2, <3>1 DEF Reversed, Updates
  <2>3. CASE u.kind = "Delete"
    <3>1. Reversed(u) = [kind |-> "Create", id |-> u.id, address |-> u.address, nonce |-> u.nonce]
      BY <2>1, <2>3 DEF Reversed
    <3> QED BY <1>1, <2>1, <2>3, <3>1 DEF Reversed, Updates
  <2> QED BY <1>1, <2>2, <2>3
<1>2. CASE u \in [kind : {"UpdateBalance"}, id : Nat, old : Nat, new : Nat, oldNonce : Nat, newNonce : Nat]
  <2> DEFINE R(i, a, b, c, d) ==
               [kind |-> "UpdateBalance", id |-> i, old |-> a, new |-> b, oldNonce |-> c, newNonce |-> d]
  <2>1. \A i \in Nat, a \in Nat, b \in Nat, c \in Nat, d \in Nat :
           R(i, a, b, c, d) \in Updates /\ Reversed(R(i, a, b, c, d)) = R(i, b, a, d, c)
    <3> TAKE i \in Nat, a \in Nat, b \in Nat, c \in Nat, d \in Nat
    <3> DEFINE v == R(i, a, b, c, d)
    <3>1. v.kind = "UpdateBalance"
      OBVIOUS
    <3>2. Reversed(v) = [v EXCEPT !.old = v.new, !.new = v.old,
                                  !.oldNonce = v.newNonce, !.newNonce = v.oldNonce]
      <4> HIDE DEF v
      <4> QED BY <3>1 DEF Reversed
    <3>3. R(i, b, a, d, c) = [v EXCEPT !.old = v.new, !.new = v.old,
                                       !.oldNonce = v.newNonce, !.newNonce = v.oldNonce]
      <4> DEFINE w == [v EXCEPT !.old = v.new, !.new = v.old,
                                !.oldNonce = v.newNonce, !.newNonce = v.oldNonce]
                 S == [kind : {"UpdateBalance"}, id : Nat, old : Nat, new : Nat, oldNonce : Nat, newNonce : Nat]
      <4>1. v \in S
        OBVIOUS
      <4>2. /\ w \in S /\ w.id = v.id /\ w.old = v.new /\ w.new = v.old
            /\ w.oldNonce = v.newNonce /\ w.newNonce = v.oldNonce
        <5> HIDE DEF v
        <5> QED BY <4>1
      <4>3. v.id = i /\ v.old = a /\ v.new = b /\ v.oldNonce = c /\ v.newNonce = d
        OBVIOUS
      <4>4. w = R(w.id, w.old, w.new, w.oldNonce, w.newNonce)
        <5> HIDE DEF w
        <5> QED BY <4>2
      <4> HIDE DEF v, w
      <4>5. w = R(i, b, a, d, c)
        BY <4>2, <4>3, <4>4
      <4> QED BY <4>5, Zenon DEF w
    <3>4. v \in Updates
      BY DEF Updates
    <3> QED BY <3>2, <3>3, <3>4
  <2>2. /\ u.id \in Nat /\ u.old \in Nat /\ u.new \in Nat /\ u.oldNonce \in Nat /\ u.newNonce \in Nat
        /\ u = R(u.id, u.old, u.new, u.oldNonce, u.newNonce)
    BY <1>2
  <2> HIDE DEF R
  <2> QED BY <2>1, <2>2
<1>3. CASE u \in [kind : {"ChangePubKeyHash"}, id : Nat, old : Keys, new : Keys, oldNonce : Nat, newNonce : Nat]
  <2> DEFINE R(i, a, b, c, d) ==
               [kind |-> "ChangePubKeyHash", id |-> i, old |-> a, new |-> b, oldNonce |-> c, newNonce |-> d]
  <2>1. \A i \in Nat, a \in Keys, b \in Keys, c \in Nat, d \in Nat :
           R(i, a, b, c, d) \in Updates /\ Reversed(R(i, a, b, c, d)) = R(i, b, a, d, c)
    <3> TAKE i \in Nat, a \in Keys, b \in Keys, c \in Nat, d \in Nat
    <3> DEFINE v == R(i, a, b, c, d)
    <3>1. v.kind = "ChangePubKeyHash"
      OBVIOUS
    <3>2. Reversed(v) = [v EXCEPT !.old = v.new, !.new = v.old,
                                  !.oldNonce = v.newNonce, !.newNonce = v.oldNonce]
      <4> HIDE DEF v
      <4> QED BY <3>1 DEF Reversed
    <3>3. R(i, b, a, d, c) = [v EXCEPT !.old = v.new, !.new = v.old,
                                       !.oldNonce = v.newNonce, !.newNonce = v.oldNonce]
      <4> DEFINE w == [v EXCEPT !.old = v.new, !.new = v.old,
                                !.oldNonce = v.newNonce, !.newNonce = v.oldNonce]
                 S == [kind : {"ChangePubKeyHash"}, id : Nat, old : Keys, new : Keys, oldNonce : Nat, newNonce : Nat]
      <4>1. v \in S
        OBVIOUS
      <4>2. /\ w \in S /\ w.id = v.id /\ w.old = v.new /\ w.new = v.old
            /\ w.oldNonce = v.newNonce /\ w.newNonce = v.oldNonce
        <5> HIDE DEF v
        <5> QED BY <4>1
      <4>3. v.id = i /\ v.old = a /\ v.new = b /\ v.oldNonce = c /\ v.newNonce = d
        OBVIOUS
      <4>4. w = R(w.id, w.old, w.new, w.oldNonce, w.newNonce)
        <5> HIDE DEF w
        <5> QED BY <4>2
      <4> HIDE DEF v, w
      <4>5. w = R(i, b, a, d, c)
        BY <4>2, <4>3, <4>4
      <4> QED BY <4>5, Zenon DEF w
    <3>4. v \in Updates
      BY DEF Updates
    <3> QED BY <3>2, <3>3, <3>4
  <2>2. /\ u.id \in Nat /\ u.old \in Keys /\ u.new \in Keys /\ u.oldNonce \in Nat /\ u.newNonce \in Nat
        /\ u = R(u.id, u.old, u.new, u.oldNonce, u.newNonce)
    BY <1>3
  <2> HIDE DEF R
  <2> QED BY <2>1, <2>2
<1> QED BY <1>1, <1>2, <1>3 DEF Updates

LEMMA ReverseFacts ==
  ASSUME NEW us \in Seq(Updates)
  PROVE  /\ Len(us) \in Nat /\ ReverseUpdates(us) \in Seq(Updates)
         /\ Len(ReverseUpdates(us)) = Len(us)
         /\ \A k \in 1 .. Len(us) : ReverseUpdates(us)[k] = Reversed(us[Len(us) - k + 1])
<1> DEFINE n == Len(us)
           f == [k \in 1 .. n |-> Reversed(us[n - k + 1])]
<1>1. n \in Nat /\ DOMAIN us = 1 .. n /\ \A k \in 1 .. n : us[k] \in Updates
  BY LenProperties, ElementOfSeq
<1>2. ReverseUpdates(us) = f
  <2>1. \A k \in 1 .. n : Reverse(us)[k] = us[(n - k) + 1]
    BY DEF Reverse
  <2>2. ReverseUpdates(us) = [k \in 1 .. n |-> Reversed(Reverse(us)[k])]
    BY <1>1 DEF ReverseUpdates
  <2> HIDE DEF n
  <2> QED BY <2>1, <2>2
<1> HIDE DEF n
<1>3. f \in [1 .. n -> Updates]
  <2>1. \A k \in 1 .. n : us[n - k + 1] \in Updates
    BY <1>1
  <2> QED BY <2>1, ReversedTwice
<1>4. f \in Seq(Updates) /\ Len(f) = n
  <2> HIDE DEF f
  <2>1. f \in Seq(Updates)
    BY <1>1, <1>3, SeqDef
  <2>2. DOMAIN f = 1 .. n
    BY <1>3
  <2> QED BY <1>1, <2>1, <2>2, LenProperties
<1> QED BY <1>1, <1>2, <1>4 DEF n

LEMMA PathFacts ==
  ASSUME NEW l, NEW us, NEW m, Moves(l, us, m)
  PROVE  l \in Trees /\ m \in Trees /\ us \in Seq(Updates) /\ Len(us) \in Nat
<1>1. us \in Seq(Updates) /\ Len(us) \in Nat
  BY LenProperties DEF Moves
<1> QED BY <1>1 DEF Moves, IsPath

LEMMA MovesBack ==
  ASSUME NEW l, NEW us, NEW m, Moves(l, us, m)
  PROVE  Moves(m, ReverseUpdates(us), l)
<1> DEFINE n == Len(us)
           back == ReverseUpdates(us)
<1>1. us \in Seq(Updates) /\ n \in Nat
  BY PathFacts
<1>2. PICK t : IsPath(t, us) /\ t[0] = l /\ t[n] = m
  BY DEF Moves
<1>3. /\ back \in Seq(Updates) /\ Len(back) = n
      /\ \A k \in 1 .. n : back[k] = Reversed(us[n - k + 1])
  BY <1>1, ReverseFacts
<1>4. t \in [0 .. n -> Trees] /\ \A i \in 1 .. n : us[i] \in Updates /\ Step(t[i - 1], us[i], t[i])
  BY <1>1, <1>2, ElementOfSeq DEF IsPath
<1> DEFINE s == [k \in 0 .. n |-> t[n - k]]
<1> HIDE DEF n, back
<1>5. s \in [0 .. n -> Trees] /\ s[0] = m /\ s[n] = l
  <2>1. \A k \in 0 .. n : n - k \in 0 .. n
    BY <1>1
  <2>2. 0 \in 0 .. n /\ n \in 0 .. n /\ n - 0 = n /\ n - n = 0
    BY <1>1
  <2> QED BY <1>2, <1>4, <2>1, <2>2 DEF n
<1>6. \A k \in 1 .. n : Step(s[k - 1], back[k], s[k])
  <2> TAKE k \in 1 .. n
  <2> DEFINE i == n - k + 1
  <2>1. i \in 1 .. n /\ k - 1 \in 0 .. n /\ k \in 0 .. n /\ n - (k - 1) = i /\ n - k = i - 1
    BY <1>1
  <2>2. s[k - 1] = t[i] /\ s[k] = t[i - 1] /\ back[k] = Reversed(us[i])
    BY <1>3, <2>1
  <2> HIDE DEF i, s
  <2>3. Step(t[i - 1], us[i], t[i]) /\ us[i] \in Updates
    BY <1>4, <2>1
  <2>4. Reversed(Reversed(us[i])) = us[i]
    BY <2>3, ReversedTwice
  <2> QED BY <2>2, <2>3, <2>4 DEF Step
<1> HIDE DEF s
<1> QED BY <1>3, <1>5, <1>6 DEF Moves, IsPath, back

LEMMA MovesNot ==
  ASSUME NEW l \in Trees
  PROVE  Moves(l, <<>>, l)
<1> DEFINE t == [i \in 0 .. 0 |-> l]
<1>1. <<>> \in Seq(Updates) /\ Len(<<>>) = 0
  BY EmptySeq
<1>2. IsPath(t, <<>>) /\ t[0] = l
  BY <1>1 DEF IsPath
<1> HIDE DEF t
<1> QED BY <1>1, <1>2 DEF Moves

LEMMA MovesOnce ==
  ASSUME NEW l \in Trees, NEW m \in Trees, NEW u \in Updates, Step(l, u, m)
  PROVE  Moves(l, <<u>>, m)
<1> DEFINE t == [i \in 0 .. 1 |-> IF i = 0 THEN l ELSE m]
<1>1. <<u>> \in Seq(Updates) /\ Len(<<u>>) = 1 /\ <<u>>[1] = u
  OBVIOUS
<1>2. t \in [0 .. 1 -> Trees] /\ t[0] = l /\ t[1] = m
  OBVIOUS
<1> HIDE DEF t
<1>3. IsPath(t, <<u>>)
  BY <1>1, <1>2 DEF IsPath
<1> QED BY <1>1, <1>2, <1>3 DEF Moves

LEMMA MovesOn ==
  ASSUME NEW l, NEW us, NEW m, NEW vs, NEW k, Moves(l, us, m), Moves(m, vs, k)
  PROVE  Moves(l, us \o vs, k)
<1> DEFINE n == Len(us)
           p == Len(vs)
           w == us \o vs
<1>1. us \in Seq(Updates) /\ n \in Nat /\ vs \in Seq(Updates) /\ p \in Nat
  BY PathFacts
<1>2. PICK t : IsPath(t, us) /\ t[0] = l /\ t[n] = m
  BY DEF Moves
<1>3. PICK s : IsPath(s, vs) /\ s[0] = m /\ s[p] = k
  BY DEF Moves
<1>4. /\ w \in Seq(Updates) /\ Len(w) = n + p
      /\ \A i \in 1 .. n + p : w[i] = IF i <= n THEN us[i] ELSE vs[i - n]
  BY <1>1, ConcatProperties
<1>5. /\ t \in [0 .. n -> Trees] /\ \A i \in 1 .. n : Step(t[i - 1], us[i], t[i])
      /\ s \in [0 .. p -> Trees] /\ \A i \in 1 .. p : Step(s[i - 1], vs[i], s[i])
  BY <1>2, <1>3 DEF IsPath
<1>6. t[0] = l /\ t[n] = m /\ s[0] = m /\ s[p] = k
  BY <1>2, <1>3
<1> DEFINE z == [i \in 0 .. n + p |-> IF i <= n THEN t[i] ELSE s[i - n]]
<1> HIDE DEF n, p, w
<1>7. z \in [0 .. n + p -> Trees] /\ z[0] = l /\ z[n + p] = k
  <2>1. \A i \in 0 .. n + p : IF i <= n THEN i \in 0 .. n ELSE i - n \in 0 .. p
    BY <1>1
  <2>2. z \in [0 .. n + p -> Trees]
    BY <1>5, <2>1
  <2>3. z[0] = l
    BY <1>1, <1>6
  <2>4. z[n + p] = k
    <3>1. CASE p = 0
      <4>1. n + p = n /\ n + p \in 0 .. n + p
        BY <1>1, <3>1
      <4> QED BY <1>6, <3>1, <4>1
    <3>2. CASE p # 0
      <4>1. ~ (n + p <= n) /\ n + p \in 0 .. n + p /\ (n + p) - n = p
        BY <1>1, <3>2
      <4> QED BY <1>6, <4>1
    <3> QED BY <3>1, <3>2
  <2> QED BY <2>2, <2>3, <2>4
<1>8. \A i \in 1 .. n + p : Step(z[i - 1], w[i], z[i])
  <2> TAKE i \in 1 .. n + p
  <2>1. CASE i <= n
    <3>1. i \in 1 .. n /\ i \in 0 .. n + p /\ i - 1 \in 0 .. n + p /\ i - 1 <= n
      BY <1>1, <2>1
    <3>2. z[i] = t[i] /\ z[i - 1] = t[i - 1] /\ w[i] = us[i]
      BY <1>4, <2>1, <3>1
    <3> HIDE DEF z
    <3> QED BY <1>5, <3>1, <3>2
  <2>2. CASE ~ (i <= n)
    <3> DEFINE j == i - n
    <3>1. j \in 1 .. p /\ i \in 0 .. n + p /\ i - 1 \in 0 .. n + p /\ (i - 1) - n = j - 1
      BY <1>1, <2>2
    <3>2. z[i] = s[j] /\ w[i] = vs[j]
      BY <1>4, <2>2, <3>1
    <3>3. z[i - 1] = s[j - 1]
      <4>1. CASE j = 1
        <5>1. i - 1 = n
          BY <1>1, <4>1
        <5>2. z[i - 1] = t[n] /\ j - 1 = 0
          BY <1>1, <3>1, <4>1, <5>1
        <5> HIDE DEF z, j
        <5> QED BY <1>6, <5>2
      <4>2. CASE j # 1
        <5>1. ~ (i - 1 <= n)
          BY <1>1, <2>2, <4>2
        <5> QED BY <3>1, <5>1
      <4> QED BY <4>1, <4>2
    <3> HIDE DEF z, j
    <3> QED BY <1>5, <3>1, <3>2, <3>3
  <2> QED BY <2>1, <2>2
<1> HIDE DEF z
<1> QED BY <1>4, <1>7, <1>8 DEF Moves, IsPath, w

\* Applying the updates is going the path.
LEMMA PathApplies ==
  ASSUME NEW l, NEW us, NEW m, Moves(l, us, m)
  PROVE  ApplyUpdates(l, us) = m
<1> DEFINE n == Len(us)
<1>1. l \in Trees /\ us \in Seq(Updates) /\ n \in Nat
  BY PathFacts
<1>2. PICK t : IsPath(t, us) /\ t[0] = l /\ t[n] = m
  BY DEF Moves
<1>3. PICK s : ApplyTrace(s, l, us) /\ FoldLeft(ApplyUpdate, l, us) = s[n]
  BY <1>1, ApplyHasTrace
<1>4. /\ \A i \in 1 .. n : t[i] = ApplyUpdate(t[i - 1], us[i])
      /\ s[0] = l /\ \A i \in 1 .. n : s[i] = ApplyUpdate(s[i - 1], us[i])
  BY <1>2, <1>3 DEF IsPath, Step, ApplyTrace
<1> HIDE DEF n
<1> DEFINE T == {i \in 0 .. n : s[i] = t[i]}
<1>5. 0 .. n \subseteq T
  <2>1. 0 \in T
    BY <1>1, <1>2, <1>4
  <2>2. \A i \in 1 .. n : i - 1 \in T => i \in T
    BY <1>1, <1>4
  <2> HIDE DEF T
  <2> QED BY <1>1, <2>1, <2>2, AlongInterval
<1>6. s[n] = t[n]
  BY <1>1, <1>5
<1> QED BY <1>2, <1>3, <1>6 DEF ApplyUpdates, n

\* apply_account_updates meets none of its assertions on the way.
LEMMA MovesMean ==
  ASSUME NEW l, NEW us, NEW m, Moves(l, us, m)
  PROVE  Undoable(l, us) /\ ApplyUpdates(l, us) = m
<1>1. l \in Trees /\ us \in Seq(Updates) /\ Len(us) \in Nat /\ DOMAIN us = 1 .. Len(us)
  BY PathFacts, LenProperties
<1>2. PICK t : IsPath(t, us) /\ t[0] = l /\ t[Len(us)] = m
  BY DEF Moves
<1>3. ASSUME NEW k \in 1 .. Len(us)
      PROVE  UpdateFits(ApplyUpdates(l, SubSeq(us, 1, k - 1)), us[k])
  <2> DEFINE v == SubSeq(us, 1, k - 1)
  <2>1. k - 1 \in 0 .. Len(us) /\ k - 1 \in Nat
    BY <1>1
  <2>2. v \in Seq(Updates) /\ Len(v) = k - 1 /\ \A i \in 1 .. k - 1 : v[i] = us[i]
    <3>1. \A i \in 1 .. k - 1 : us[i] \in Updates
      BY <1>1, ElementOfSeq
    <3>2. v = [i \in 1 .. k - 1 |-> us[i]]
      BY <1>1, <2>1
    <3>3. v \in [1 .. k - 1 -> Updates]
      BY <3>1, <3>2
    <3>4. v \in Seq(Updates) /\ DOMAIN v = 1 .. k - 1
      BY <2>1, <3>3, SeqDef
    <3> QED BY <2>1, <3>2, <3>4, LenProperties
  <2> HIDE DEF v
  <2> DEFINE s == [i \in 0 .. k - 1 |-> t[i]]
  <2>3. s \in [0 .. k - 1 -> Trees] /\ \A i \in 1 .. k - 1 : Step(s[i - 1], v[i], s[i])
    <3>1. /\ t \in [0 .. Len(us) -> Trees]
          /\ \A i \in 1 .. Len(us) : Step(t[i - 1], us[i], t[i])
      BY <1>2 DEF IsPath
    <3>2. \A i \in 0 .. k - 1 : i \in 0 .. Len(us) /\ s[i] = t[i]
      BY <1>1
    <3>3. \A i \in 1 .. k - 1 : i \in 1 .. Len(us) /\ i - 1 \in 0 .. k - 1 /\ i \in 0 .. k - 1
      BY <1>1
    <3>4. s \in [0 .. k - 1 -> Trees]
      BY <3>1, <3>2
    <3> HIDE DEF s
    <3> QED BY <2>2, <3>1, <3>2, <3>3, <3>4
  <2>4. s[0] = l /\ s[k - 1] = t[k - 1]
    BY <1>2, <2>1
  <2> HIDE DEF s
  <2>5. Moves(l, v, t[k - 1])
    BY <2>2, <2>3, <2>4 DEF Moves, IsPath
  <2>6. ApplyUpdates(l, v) = t[k - 1]
    BY <2>5, PathApplies
  <2> QED BY <1>2, <2>6 DEF v, IsPath, Step
<1> QED BY <1>1, <1>3, PathApplies DEF Undoable

-----------------------------------------------------------------------------
(* One account *)

\* No account leaves, changes its address or lowers its nonce.
Grows(l, m) ==
  /\ DOMAIN l \subseteq DOMAIN m
  /\ \A i \in DOMAIN l : m[i].address = l[i].address /\ l[i].nonce <= m[i].nonce

LEMMA GrowsOn ==
  ASSUME NEW l \in Ledgers, NEW m \in Ledgers, NEW k \in Ledgers, Grows(l, m), Grows(m, k)
  PROVE  Grows(l, k)
<1>1. \A i \in DOMAIN l : l[i].nonce \in Nat
  BY LedgerFacts DEF Account
<1>2. \A i \in DOMAIN m : m[i].nonce \in Nat
  BY LedgerFacts DEF Account
<1>3. \A i \in DOMAIN k : k[i].nonce \in Nat
  BY LedgerFacts DEF Account
<1> QED BY <1>1, <1>2, <1>3 DEF Grows

LEMMA GrowsNot ==
  ASSUME NEW l \in Ledgers
  PROVE  Grows(l, l)
BY LedgerFacts DEF Grows, Account

LEMMA SameAccount ==
  ASSUME NEW a \in Account, NEW b \in Account, a.address = b.address, a.nonce = b.nonce,
         a.key = b.key, a.balance = b.balance
  PROVE  a = b
BY DEF Account

LEMMA AccountFields ==
  ASSUME NEW a \in Account
  PROVE  a.address \in Addresses /\ a.nonce \in Nat /\ a.key \in Keys /\ a.balance \in Nat
BY DEF Account

\* An update of balance and nonce writes the account.
LEMMA BalanceWritten ==
  ASSUME NEW l \in Ledgers, NEW i \in DOMAIN l, NEW a \in Account,
         a.address = l[i].address, a.key = l[i].key
  PROVE  ApplyUpdate(l, Moved(i, l[i], a)) = Insert(l, i, a)
<1> DEFINE u == Moved(i, l[i], a)
           m == [l EXCEPT ![i].balance = a.balance, ![i].nonce = a.nonce]
<1>1. l \in [DOMAIN l -> Account] /\ l[i] \in Account
  BY LedgerFacts
<1>2. u.kind = "UpdateBalance" /\ u.id = i /\ u.new = a.balance /\ u.newNonce = a.nonce
  BY DEF Moved
<1>3. ApplyUpdate(l, u) = m
  <2> HIDE DEF u
  <2> QED BY <1>2 DEF ApplyUpdate
<1>4. a.balance \in Nat /\ a.nonce \in Nat
  BY AccountFields
<1>5. m \in [DOMAIN l -> Account] /\ m[i] \in Account
  BY <1>1, <1>4 DEF Account
<1>6. /\ m[i].address = l[i].address /\ m[i].key = l[i].key
      /\ m[i].balance = a.balance /\ m[i].nonce = a.nonce
  BY <1>1, <1>4 DEF Account
<1>7. \A j \in DOMAIN l \ {i} : m[j] = l[j]
  BY <1>1
<1> HIDE DEF m
<1>8. m[i] = a
  BY <1>5, <1>6, SameAccount
<1>9. m = Insert(l, i, a)
  BY <1>5, <1>7, <1>8 DEF Insert
<1> QED BY <1>3, <1>9 DEF u

\* So does an update of key and nonce.
LEMMA KeyWritten ==
  ASSUME NEW l \in Ledgers, NEW i \in DOMAIN l, NEW a \in Account,
         a.address = l[i].address, a.balance = l[i].balance
  PROVE  ApplyUpdate(l, Rekeyed(i, l[i], a)) = Insert(l, i, a)
<1> DEFINE u == Rekeyed(i, l[i], a)
           m == [l EXCEPT ![i].key = a.key, ![i].nonce = a.nonce]
<1>1. l \in [DOMAIN l -> Account] /\ l[i] \in Account
  BY LedgerFacts
<1>2. u.kind = "ChangePubKeyHash" /\ u.id = i /\ u.new = a.key /\ u.newNonce = a.nonce
  BY DEF Rekeyed
<1>3. ApplyUpdate(l, u) = m
  <2> HIDE DEF u
  <2> QED BY <1>2 DEF ApplyUpdate
<1>4. a.key \in Keys /\ a.nonce \in Nat
  BY AccountFields
<1>5. m \in [DOMAIN l -> Account] /\ m[i] \in Account
  BY <1>1, <1>4 DEF Account
<1>6. /\ m[i].address = l[i].address /\ m[i].balance = l[i].balance
      /\ m[i].key = a.key /\ m[i].nonce = a.nonce
  BY <1>1, <1>4 DEF Account
<1>7. \A j \in DOMAIN l \ {i} : m[j] = l[j]
  BY <1>1
<1> HIDE DEF m
<1>8. m[i] = a
  BY <1>5, <1>6, SameAccount
<1>9. m = Insert(l, i, a)
  BY <1>5, <1>7, <1>8 DEF Insert
<1> QED BY <1>3, <1>9 DEF u

\* An account is written over and back.
LEMMA WrittenBack ==
  ASSUME NEW l \in Ledgers, NEW i \in DOMAIN l, NEW a \in Account, a.address = l[i].address
  PROVE  /\ Insert(l, i, a) \in Ledgers /\ i \in DOMAIN Insert(l, i, a)
         /\ Insert(l, i, a)[i] = a /\ l[i] \in Account
         /\ Insert(Insert(l, i, a), i, l[i]) = l
<1>1. Insert(l, i, a) \in Ledgers /\ i \in DOMAIN Insert(l, i, a) /\ Insert(l, i, a)[i] = a
  BY Replaced
<1>2. l \in [DOMAIN l -> Account] /\ l \in Trees /\ i \in Nat /\ l[i] \in Account
  BY LedgerFacts
<1>3. Insert(Insert(l, i, a), i, l[i]) = Insert(l, i, l[i])
  BY <1>2, InsertedTwice
<1>4. Insert(l, i, l[i]) = l
  BY <1>2 DEF Insert
<1> QED BY <1>1, <1>2, <1>3, <1>4

LEMMA BalanceMoves ==
  ASSUME NEW l \in Ledgers, NEW i \in DOMAIN l, NEW a \in Account,
         a.address = l[i].address, a.key = l[i].key
  PROVE  Moves(l, <<Moved(i, l[i], a)>>, Insert(l, i, a))
<1> DEFINE u == Moved(i, l[i], a)
           m == Insert(l, i, a)
<1>1. /\ m \in Ledgers /\ i \in DOMAIN m /\ m[i] = a /\ l[i] \in Account
      /\ Insert(m, i, l[i]) = l
  BY WrittenBack
<1>2. l \in Trees /\ m \in Trees /\ i \in Nat
  BY <1>1, LedgerFacts
<1>3. u \in Updates
  BY <1>1, <1>2, AccountFields DEF Moved, Updates
<1>4. ApplyUpdate(l, u) = m
  BY BalanceWritten
<1>5. UpdateFits(l, u)
  BY DEF UpdateFits, Moved
<1>6. Reversed(u) = Moved(i, m[i], l[i])
  <2> DEFINE v == Moved(i, m[i], l[i])
  <2>1. u.kind = "UpdateBalance"
    BY DEF Moved
  <2>2. Reversed(u) = [u EXCEPT !.old = u.new, !.new = u.old,
                                !.oldNonce = u.newNonce, !.newNonce = u.oldNonce]
    <3> HIDE DEF u
    <3> QED BY <2>1 DEF Reversed
  <2>3. /\ u.id = i /\ u.old = l[i].balance /\ u.new = a.balance
        /\ u.oldNonce = l[i].nonce /\ u.newNonce = a.nonce
    BY DEF Moved
  <2>4. /\ v.kind = "UpdateBalance" /\ v.id = i /\ v.old = a.balance /\ v.new = l[i].balance
        /\ v.oldNonce = a.nonce /\ v.newNonce = l[i].nonce
    BY <1>1 DEF Moved
  <2> DEFINE S == [kind : {"UpdateBalance"}, id : Nat, old : Nat, new : Nat, oldNonce : Nat,
                   newNonce : Nat]
  <2>5. u \in S /\ v \in S
    BY <1>1, <1>2, AccountFields DEF Moved
  <2> DEFINE w == [u EXCEPT !.old = u.new, !.new = u.old,
                            !.oldNonce = u.newNonce, !.newNonce = u.oldNonce]
  <2> HIDE DEF u, v
  <2>6. /\ w \in S /\ w.id = u.id /\ w.old = u.new /\ w.new = u.old
        /\ w.oldNonce = u.newNonce /\ w.newNonce = u.oldNonce
    BY <2>5
  <2> HIDE DEF w
  <2>7. w = v
    BY <2>3, <2>4, <2>5, <2>6
  <2> QED BY <2>2, <2>7 DEF w, v
<1>7. UpdateFits(m, Reversed(u)) /\ ApplyUpdate(m, Reversed(u)) = l
  <2>1. UpdateFits(m, Moved(i, m[i], l[i]))
    BY <1>1 DEF UpdateFits, Moved
  <2>2. l[i].address = m[i].address /\ l[i].key = m[i].key
    BY <1>1
  <2>3. ApplyUpdate(m, Moved(i, m[i], l[i])) = Insert(m, i, l[i])
    BY <1>1, <2>2, BalanceWritten
  <2> QED BY <1>1, <1>6, <2>1, <2>3
<1> HIDE DEF u, m
<1>8. Step(l, u, m)
  BY <1>4, <1>5, <1>7 DEF Step
<1> QED BY <1>2, <1>3, <1>8, MovesOnce DEF u, m

LEMMA KeyMoves ==
  ASSUME NEW l \in Ledgers, NEW i \in DOMAIN l, NEW a \in Account,
         a.address = l[i].address, a.balance = l[i].balance
  PROVE  Moves(l, <<Rekeyed(i, l[i], a)>>, Insert(l, i, a))
<1> DEFINE u == Rekeyed(i, l[i], a)
           m == Insert(l, i, a)
<1>1. /\ m \in Ledgers /\ i \in DOMAIN m /\ m[i] = a /\ l[i] \in Account
      /\ Insert(m, i, l[i]) = l
  BY WrittenBack
<1>2. l \in Trees /\ m \in Trees /\ i \in Nat
  BY <1>1, LedgerFacts
<1>3. u \in Updates
  BY <1>1, <1>2, AccountFields DEF Rekeyed, Updates
<1>4. ApplyUpdate(l, u) = m
  BY KeyWritten
<1>5. UpdateFits(l, u)
  BY DEF UpdateFits, Rekeyed
<1>6. Reversed(u) = Rekeyed(i, m[i], l[i])
  <2> DEFINE v == Rekeyed(i, m[i], l[i])
  <2>1. u.kind = "ChangePubKeyHash"
    BY DEF Rekeyed
  <2>2. Reversed(u) = [u EXCEPT !.old = u.new, !.new = u.old,
                                !.oldNonce = u.newNonce, !.newNonce = u.oldNonce]
    <3> HIDE DEF u
    <3> QED BY <2>1 DEF Reversed
  <2>3. /\ u.id = i /\ u.old = l[i].key /\ u.new = a.key
        /\ u.oldNonce = l[i].nonce /\ u.newNonce = a.nonce
    BY DEF Rekeyed
  <2>4. /\ v.kind = "ChangePubKeyHash" /\ v.id = i /\ v.old = a.key /\ v.new = l[i].key
        /\ v.oldNonce = a.nonce /\ v.newNonce = l[i].nonce
    BY <1>1 DEF Rekeyed
  <2> DEFINE S == [kind : {"ChangePubKeyHash"}, id : Nat, old : Keys, new : Keys,
                   oldNonce : Nat, newNonce : Nat]
  <2>5. u \in S /\ v \in S
    BY <1>1, <1>2, AccountFields DEF Rekeyed
  <2> DEFINE w == [u EXCEPT !.old = u.new, !.new = u.old,
                            !.oldNonce = u.newNonce, !.newNonce = u.oldNonce]
  <2> HIDE DEF u, v
  <2>6. /\ w \in S /\ w.id = u.id /\ w.old = u.new /\ w.new = u.old
        /\ w.oldNonce = u.newNonce /\ w.newNonce = u.oldNonce
    BY <2>5
  <2> HIDE DEF w
  <2>7. w = v
    BY <2>3, <2>4, <2>5, <2>6
  <2> QED BY <2>2, <2>7 DEF w, v
<1>7. UpdateFits(m, Reversed(u)) /\ ApplyUpdate(m, Reversed(u)) = l
  <2>1. UpdateFits(m, Rekeyed(i, m[i], l[i]))
    BY <1>1 DEF UpdateFits, Rekeyed
  <2>2. l[i].address = m[i].address /\ l[i].balance = m[i].balance
    BY <1>1
  <2>3. ApplyUpdate(m, Rekeyed(i, m[i], l[i])) = Insert(m, i, l[i])
    BY <1>1, <2>2, KeyWritten
  <2> QED BY <1>1, <1>6, <2>1, <2>3
<1> HIDE DEF u, m
<1>8. Step(l, u, m)
  BY <1>4, <1>5, <1>7 DEF Step
<1> QED BY <1>2, <1>3, <1>8, MovesOnce DEF u, m

\* An account is created and deleted again.
LEMMA CreationMoves ==
  ASSUME NEW l \in Ledgers, NEW a \in Addresses, Holder(l, a) = {}
  PROVE  LET m == Insert(l, FreeId(l), NewAccount(a))
         IN  /\ m \in Ledgers /\ DOMAIN m = DOMAIN l \cup {FreeId(l)}
             /\ FreeId(l) \notin DOMAIN l /\ FreeId(l) \in Nat
             /\ m[FreeId(l)] = NewAccount(a) /\ \A j \in DOMAIN l : m[j] = l[j]
             /\ SumBalances(m) = SumBalances(l) /\ Grows(l, m)
             /\ Moves(l, <<Created(FreeId(l), NewAccount(a))>>, m)
<1> DEFINE i == FreeId(l)
           b == NewAccount(a)
           m == Insert(l, i, b)
           u == Created(i, b)
<1>1. b \in Account /\ b.address = a /\ b.nonce = 0 /\ b.balance = 0
  BY NewAccountTyped
<1>2. i \in Nat /\ l \in Trees /\ l \in [DOMAIN l -> Account]
  BY LedgerFacts
<1> HIDE DEF b
<1>3. /\ m \in Ledgers /\ DOMAIN m = DOMAIN l \cup {i} /\ i \notin DOMAIN l /\ m[i] = b
      /\ \A j \in DOMAIN l : m[j] = l[j]
      /\ SumBalances(m) = SumBalances(l)
  BY <1>1, Added
<1> HIDE DEF i
<1>4. m \in Trees /\ m \in [DOMAIN m -> Account]
  BY <1>3, LedgerFacts
<1>5. Grows(l, m)
  <2>1. \A j \in DOMAIN l : l[j].nonce \in Nat
    BY <1>2, AccountFields
  <2> HIDE DEF m
  <2> QED BY <1>3, <2>1 DEF Grows
<1>6. u \in Updates
  BY <1>1, <1>2 DEF Created, Updates
<1>7. u.kind = "Create" /\ u.id = i /\ u.address = a /\ u.nonce = 0
  BY <1>1 DEF Created
<1>8. Reversed(u) = [u EXCEPT !.kind = "Delete"]
  <2> HIDE DEF u
  <2> QED BY <1>7 DEF Reversed
<1> DEFINE v == [u EXCEPT !.kind = "Delete"]
<1>9. v.kind = "Delete" /\ v.id = i /\ v.address = a /\ v.nonce = 0
  BY <1>1 DEF Created
<1> HIDE DEF u, v
<1>10. UpdateFits(l, u)
  BY <1>7 DEF UpdateFits
<1>11. ApplyUpdate(l, u) = m
  <2>1. ApplyUpdate(l, u) = Insert(l, i, [NewAccount(a) EXCEPT !.nonce = 0])
    BY <1>7 DEF ApplyUpdate
  <2>2. [NewAccount(a) EXCEPT !.nonce = 0] = b
    BY DEF NewAccount, b
  <2> QED BY <2>1, <2>2
<1>12. UpdateFits(m, v)
  <2> HIDE DEF m
  <2> QED BY <1>1, <1>3, <1>9 DEF UpdateFits
<1>13. ApplyUpdate(m, v) = l
  <2>1. ApplyUpdate(m, v) = Without(m, i)
    BY <1>9 DEF ApplyUpdate
  <2> HIDE DEF m
  <2>2. Without(m, i) = l
    BY <1>2, <1>3 DEF Without
  <2> QED BY <2>1, <2>2
<1>14. Step(l, u, m)
  <2>1. Reversed(u) = v
    BY <1>8 DEF v
  <2> QED BY <1>10, <1>11, <1>12, <1>13, <2>1 DEF Step
<1>15. Moves(l, <<u>>, m)
  BY <1>2, <1>4, <1>6, <1>14, MovesOnce
<1> QED BY <1>2, <1>3, <1>5, <1>15 DEF i, b, u

-----------------------------------------------------------------------------
(* What an execution may do *)

OpNames ==
  {"None", "Transfer", "TransferToNew", "Withdraw", "ChangePubKey", "ForcedExit", "Deposit",
   "FullExit"}

Results ==
  [ok : BOOLEAN, ledger : Ledgers, updates : Seq(Updates), fee : Nat, op : OpNames, out : Nat]

\* The updates tell the way to the new tree, nothing that was brought is lost, and
\* no nonce falls.
Sound(l, brought, r) ==
  /\ r \in Results
  /\ Moves(l, r.updates, r.ledger)
  /\ Grows(l, r.ledger)
  /\ SumBalances(r.ledger) + r.fee + r.out = SumBalances(l) + brought

\* Success needs the nonce of the initiator and uses it up; failure changes nothing.
UsesNonce(l, id, nonce, r) ==
  IF r.ok THEN id \in DOMAIN l /\ l[id].nonce = nonce /\ r.ledger[id].nonce = nonce + 1
  ELSE r.ledger = l

LEMMA FailureSound ==
  ASSUME NEW l \in Ledgers, NEW id, NEW nonce
  PROVE  Sound(l, 0, Failure(l)) /\ UsesNonce(l, id, nonce, Failure(l)) /\ ~ Failure(l).ok
<1> DEFINE r == Failure(l)
<1>1. /\ r.ok = FALSE /\ r.ledger = l /\ r.updates = <<>> /\ r.fee = 0 /\ r.out = 0
  BY DEF Failure
<1>2. <<>> \in Seq(Updates) /\ l \in Trees /\ SumBalances(l) \in Nat
  BY EmptySeq, LedgerFacts, TotalOfTree
<1>3. r \in Results
  BY <1>2 DEF Failure, Results, OpNames
<1> HIDE DEF r
<1>4. Moves(l, r.updates, r.ledger) /\ Grows(l, r.ledger)
  BY <1>1, <1>2, MovesNot, GrowsNot
<1>5. SumBalances(r.ledger) + r.fee + r.out = SumBalances(l) + 0
  BY <1>1, <1>2
<1>6. Sound(l, 0, r) /\ UsesNonce(l, id, nonce, r) /\ ~ r.ok
  BY <1>1, <1>3, <1>4, <1>5 DEF Sound, UsesNonce
<1> QED BY <1>6 DEF r

LEMMA SuccessSound ==
  ASSUME NEW l \in Ledgers, NEW m \in Ledgers, NEW us, NEW fee \in Nat, NEW op \in OpNames,
         NEW out \in Nat, NEW brought \in Nat,
         Moves(l, us, m), Grows(l, m), SumBalances(m) + fee + out = SumBalances(l) + brought
  PROVE  LET r == Success(m, us, fee, op, out)
         IN  Sound(l, brought, r) /\ r.ok /\ r.ledger = m
<1> DEFINE r == Success(m, us, fee, op, out)
<1>1. us \in Seq(Updates)
  BY PathFacts
<1>2. r.ok = TRUE /\ r.ledger = m /\ r.updates = us /\ r.fee = fee /\ r.out = out
  BY DEF Success
<1>3. r \in Results
  BY <1>1 DEF Success, Results
<1> HIDE DEF r
<1>4. Sound(l, brought, r) /\ r.ok /\ r.ledger = m
  BY <1>2, <1>3 DEF Sound
<1> QED BY <1>4 DEF r

\* One account is written: its balance, and its nonce that does not fall.
LEMMA BalanceWrites ==
  ASSUME NEW l \in Ledgers, NEW i \in DOMAIN l, NEW a \in Account,
         a.address = l[i].address, a.key = l[i].key, l[i].nonce <= a.nonce
  PROVE  LET m == Insert(l, i, a)
         IN  /\ m \in Ledgers /\ DOMAIN m = DOMAIN l /\ m[i] = a
             /\ \A j \in DOMAIN l \ {i} : m[j] = l[j]
             /\ SumBalances(m) = SumBalances(l) - l[i].balance + a.balance
             /\ Grows(l, m) /\ Moves(l, <<Moved(i, l[i], a)>>, m)
<1> DEFINE m == Insert(l, i, a)
<1>1. /\ m \in Ledgers /\ DOMAIN m = DOMAIN l /\ m[i] = a
      /\ \A j \in DOMAIN l \ {i} : m[j] = l[j]
      /\ SumBalances(m) = SumBalances(l) - l[i].balance + a.balance
  BY Replaced
<1>2. Moves(l, <<Moved(i, l[i], a)>>, m)
  BY BalanceMoves
<1>3. \A j \in DOMAIN l : l[j].nonce \in Nat
  BY LedgerFacts, AccountFields
<1> HIDE DEF m
<1>4. Grows(l, m)
  BY <1>1, <1>3 DEF Grows
<1> QED BY <1>1, <1>2, <1>4 DEF m

\* An account pays.
LEMMA Pays ==
  ASSUME NEW l \in Ledgers, NEW i \in DOMAIN l, NEW cost \in Nat, l[i].balance >= cost
  PROVE  LET paid == Spend(l[i], cost)
             m == Insert(l, i, paid)
         IN  /\ paid \in Account /\ paid.nonce = l[i].nonce + 1 /\ paid.key = l[i].key
             /\ paid.address = l[i].address
             /\ m \in Ledgers /\ DOMAIN m = DOMAIN l /\ m[i] = paid
             /\ \A j \in DOMAIN l \ {i} : m[j] = l[j]
             /\ SumBalances(m) = SumBalances(l) - cost
             /\ Grows(l, m) /\ Moves(l, <<Moved(i, l[i], paid)>>, m)
<1> DEFINE paid == Spend(l[i], cost)
<1>1. l[i] \in Account /\ l[i].nonce \in Nat /\ l[i].balance \in Nat
  BY LedgerFacts, AccountFields
<1>2. l[i].balance - cost \in Nat /\ l[i].nonce + 1 \in Nat
  BY <1>1
<1>3. /\ paid \in Account /\ paid.nonce = l[i].nonce + 1 /\ paid.key = l[i].key
      /\ paid.address = l[i].address /\ paid.balance = l[i].balance - cost
  BY <1>1, <1>2 DEF Spend, Account
<1> HIDE DEF paid
<1>4. l[i].nonce <= paid.nonce
  BY <1>1, <1>3
<1>5. SumBalances(l) \in Nat
  BY TotalOfTree
<1>6. SumBalances(l) - l[i].balance + paid.balance = SumBalances(l) - cost
  BY <1>1, <1>3, <1>5
<1> QED BY <1>3, <1>4, <1>6, BalanceWrites DEF paid

Credited(a, amount) == [a EXCEPT !.balance = @ + amount]
Debited(a, amount) == [a EXCEPT !.balance = @ - amount]

\* An account gets an amount.
LEMMA Gets ==
  ASSUME NEW l \in Ledgers, NEW i \in DOMAIN l, NEW amount \in Nat
  PROVE  LET credited == Credited(l[i], amount)
             m == Insert(l, i, credited)
         IN  /\ credited \in Account
             /\ m \in Ledgers /\ DOMAIN m = DOMAIN l /\ m[i] = credited
             /\ \A j \in DOMAIN l \ {i} : m[j] = l[j]
             /\ SumBalances(m) = SumBalances(l) + amount
             /\ Grows(l, m) /\ Moves(l, <<Moved(i, l[i], credited)>>, m)
<1> DEFINE credited == Credited(l[i], amount)
<1>1. l[i] \in Account /\ l[i].nonce \in Nat /\ l[i].balance \in Nat
  BY LedgerFacts, AccountFields
<1>2. l[i].balance + amount \in Nat
  BY <1>1
<1>3. /\ credited \in Account /\ credited.nonce = l[i].nonce /\ credited.key = l[i].key
      /\ credited.address = l[i].address /\ credited.balance = l[i].balance + amount
  BY <1>1, <1>2 DEF Account, Credited
<1> HIDE DEF credited
<1>4. l[i].nonce <= credited.nonce
  BY <1>1, <1>3
<1>5. SumBalances(l) \in Nat
  BY TotalOfTree
<1>6. SumBalances(l) - l[i].balance + credited.balance = SumBalances(l) + amount
  BY <1>1, <1>3, <1>5
<1> DEFINE m == Insert(l, i, credited)
<1>7. /\ m \in Ledgers /\ DOMAIN m = DOMAIN l /\ m[i] = credited
      /\ \A j \in DOMAIN l \ {i} : m[j] = l[j]
      /\ SumBalances(m) = SumBalances(l) + amount
      /\ Grows(l, m) /\ Moves(l, <<Moved(i, l[i], credited)>>, m)
  BY <1>3, <1>4, <1>6, BalanceWrites
<1> QED BY <1>3, <1>7, Zenon DEF credited

\* An account is emptied to Ethereum.
LEMMA Leaves ==
  ASSUME NEW l \in Ledgers, NEW i \in DOMAIN l, NEW amount \in Nat, amount <= l[i].balance
  PROVE  LET emptied == Debited(l[i], amount)
             m == Insert(l, i, emptied)
         IN  /\ emptied \in Account
             /\ m \in Ledgers /\ DOMAIN m = DOMAIN l /\ m[i] = emptied
             /\ \A j \in DOMAIN l \ {i} : m[j] = l[j]
             /\ SumBalances(m) = SumBalances(l) - amount
             /\ Grows(l, m) /\ Moves(l, <<Moved(i, l[i], emptied)>>, m)
<1> DEFINE emptied == Debited(l[i], amount)
<1>1. l[i] \in Account /\ l[i].nonce \in Nat /\ l[i].balance \in Nat
  BY LedgerFacts, AccountFields
<1>2. l[i].balance - amount \in Nat
  BY <1>1
<1>3. /\ emptied \in Account /\ emptied.nonce = l[i].nonce /\ emptied.key = l[i].key
      /\ emptied.address = l[i].address /\ emptied.balance = l[i].balance - amount
  BY <1>1, <1>2 DEF Account, Debited
<1> HIDE DEF emptied
<1>4. l[i].nonce <= emptied.nonce
  BY <1>1, <1>3
<1>5. SumBalances(l) \in Nat
  BY TotalOfTree
<1>6. SumBalances(l) - l[i].balance + emptied.balance = SumBalances(l) - amount
  BY <1>1, <1>3, <1>5
<1> DEFINE m == Insert(l, i, emptied)
<1>7. /\ m \in Ledgers /\ DOMAIN m = DOMAIN l /\ m[i] = emptied
      /\ \A j \in DOMAIN l \ {i} : m[j] = l[j]
      /\ SumBalances(m) = SumBalances(l) - amount
      /\ Grows(l, m) /\ Moves(l, <<Moved(i, l[i], emptied)>>, m)
  BY <1>3, <1>4, <1>6, BalanceWrites
<1> QED BY <1>3, <1>7, Zenon DEF emptied

-----------------------------------------------------------------------------
(* The operations *)

LEMMA WithdrawSound ==
  ASSUME NEW l \in Ledgers, NEW o, o.id \in DOMAIN l, o.amount \in Nat, o.fee \in Nat
  PROVE  Sound(l, 0, Withdraw(l, o)) /\ UsesNonce(l, o.id, o.nonce, Withdraw(l, o))
<1> DEFINE cost == o.amount + o.fee
           paid == Spend(l[o.id], cost)
           m == Insert(l, o.id, paid)
           us == <<Moved(o.id, l[o.id], paid)>>
<1>1. CASE CanPay(l[o.id], o, cost)
  <2>1. l[o.id].nonce = o.nonce /\ l[o.id].balance >= cost /\ cost \in Nat
    BY <1>1 DEF CanPay
  <2>2. /\ paid.nonce = l[o.id].nonce + 1 /\ m \in Ledgers /\ m[o.id] = paid
        /\ SumBalances(m) = SumBalances(l) - cost /\ Grows(l, m) /\ Moves(l, us, m)
    BY <2>1, Pays
  <2>3. Withdraw(l, o) = Success(m, us, o.fee, "Withdraw", o.amount)
    BY <1>1 DEF Withdraw
  <2> HIDE DEF paid, m, us
  <2>4. SumBalances(m) + o.fee + o.amount = SumBalances(l) + 0
    <3>1. SumBalances(l) \in Nat
      BY TotalOfTree
    <3> QED BY <2>2, <3>1
  <2>5. /\ Sound(l, 0, Success(m, us, o.fee, "Withdraw", o.amount))
        /\ Success(m, us, o.fee, "Withdraw", o.amount).ok
        /\ Success(m, us, o.fee, "Withdraw", o.amount).ledger = m
    BY <2>2, <2>4, SuccessSound DEF OpNames
  <2> QED BY <2>1, <2>2, <2>3, <2>5 DEF UsesNonce
<1>2. CASE ~ CanPay(l[o.id], o, cost)
  BY <1>2, FailureSound DEF Withdraw
<1> QED BY <1>1, <1>2

LEMMA ChangePubKeySound ==
  ASSUME NEW l \in Ledgers, NEW o, o.id \in DOMAIN l, o.fee \in Nat, o.key \in Keys
  PROVE  Sound(l, 0, ChangePubKey(l, o)) /\ UsesNonce(l, o.id, o.nonce, ChangePubKey(l, o))
<1> DEFINE from == l[o.id]
           rekeyed == [from EXCEPT !.key = o.key, !.nonce = @ + 1]
           paid == [rekeyed EXCEPT !.balance = @ - o.fee]
           k == Insert(l, o.id, rekeyed)
           m == Insert(l, o.id, paid)
           us == <<Rekeyed(o.id, from, rekeyed), Moved(o.id, rekeyed, paid)>>
<1>1. CASE CanPay(from, o, o.fee)
  <2>1. from.nonce = o.nonce /\ from.balance >= o.fee
    BY <1>1 DEF CanPay
  <2>2. from \in Account /\ from.nonce \in Nat /\ from.balance \in Nat /\ o.id \in Nat /\ l \in Trees
    BY LedgerFacts, AccountFields
  <2>3. /\ rekeyed \in Account /\ rekeyed.address = from.address /\ rekeyed.key = o.key
        /\ rekeyed.nonce = from.nonce + 1 /\ rekeyed.balance = from.balance
    <3>1. from.nonce + 1 \in Nat
      BY <2>2
    <3> HIDE DEF from
    <3> QED BY <2>2, <3>1 DEF Account
  <2>4. ChangePubKey(l, o) = Success(m, us, o.fee, "ChangePubKey", 0)
    BY <1>1 DEF ChangePubKey
  <2> HIDE DEF rekeyed
  <2>5. /\ paid \in Account /\ paid.address = from.address /\ paid.key = o.key
        /\ paid.nonce = from.nonce + 1 /\ paid.balance = from.balance - o.fee
    <3>1. rekeyed.balance - o.fee \in Nat
      BY <2>1, <2>2, <2>3
    <3> QED BY <2>3, <3>1 DEF Account
  <2> HIDE DEF paid
  <2>6. Moves(l, <<Rekeyed(o.id, from, rekeyed)>>, k)
    BY <2>3, KeyMoves
  <2>7. k \in Ledgers /\ o.id \in DOMAIN k /\ k[o.id] = rekeyed
    BY <2>3, WrittenBack
  <2>8. Moves(k, <<Moved(o.id, rekeyed, paid)>>, Insert(k, o.id, paid))
    <3> HIDE DEF k
    <3>1. paid.address = k[o.id].address /\ paid.key = k[o.id].key
      BY <2>3, <2>5, <2>7
    <3> QED BY <2>5, <2>7, <3>1, BalanceMoves
  <2>9. Insert(k, o.id, paid) = m
    BY <2>2, <2>3, <2>5, InsertedTwice
  <2>10. Moves(l, us, m)
    <3>1. us = <<Rekeyed(o.id, from, rekeyed)>> \o <<Moved(o.id, rekeyed, paid)>>
      OBVIOUS
    <3> HIDE DEF k, m, us
    <3> QED BY <2>6, <2>8, <2>9, <3>1, MovesOn
  <2>11. /\ m \in Ledgers /\ DOMAIN m = DOMAIN l /\ m[o.id] = paid
         /\ \A j \in DOMAIN l \ {o.id} : m[j] = l[j]
         /\ SumBalances(m) = SumBalances(l) - from.balance + paid.balance
    BY <2>5, Replaced
  <2> HIDE DEF k, m, us
  <2>12. Grows(l, m)
    <3>1. \A j \in DOMAIN l : l[j].nonce \in Nat
      BY LedgerFacts, AccountFields
    <3>2. from.nonce <= paid.nonce
      BY <2>2, <2>5
    <3> QED BY <2>5, <2>11, <3>1, <3>2 DEF Grows
  <2>13. SumBalances(m) + o.fee + 0 = SumBalances(l) + 0
    <3>1. SumBalances(l) \in Nat
      BY TotalOfTree
    <3> QED BY <2>2, <2>5, <2>11, <3>1
  <2>14. /\ Sound(l, 0, Success(m, us, o.fee, "ChangePubKey", 0))
         /\ Success(m, us, o.fee, "ChangePubKey", 0).ok
         /\ Success(m, us, o.fee, "ChangePubKey", 0).ledger = m
    BY <2>10, <2>11, <2>12, <2>13, SuccessSound DEF OpNames
  <2> QED BY <2>1, <2>4, <2>5, <2>11, <2>14 DEF UsesNonce
<1>2. CASE ~ CanPay(from, o, o.fee)
  BY <1>2, FailureSound DEF ChangePubKey
<1> QED BY <1>1, <1>2

\* The initiator pays, another account leaves.
LEMMA ForcedExitSound ==
  ASSUME NEW l \in Ledgers, NEW o, o.id \in DOMAIN l, o.to \in DOMAIN l, o.id # o.to,
         o.fee \in Nat, o.amount = l[o.to].balance
  PROVE  Sound(l, 0, ForcedExit(l, o)) /\ UsesNonce(l, o.id, o.nonce, ForcedExit(l, o))
<1> DEFINE paid == Spend(l[o.id], o.fee)
           k == Insert(l, o.id, paid)
           emptied == [l[o.to] EXCEPT !.balance = @ - o.amount]
           m == Insert(k, o.to, emptied)
           us == <<Moved(o.id, l[o.id], paid), Moved(o.to, l[o.to], emptied)>>
<1>0. l[o.to].balance \in Nat /\ l[o.id].nonce \in Nat
  BY LedgerFacts, AccountFields
<1>1. CASE CanPay(l[o.id], o, o.fee)
  <2>1. l[o.id].nonce = o.nonce /\ l[o.id].balance >= o.fee
    BY <1>1 DEF CanPay
  <2>2. ForcedExit(l, o) = Success(m, us, o.fee, "ForcedExit", o.amount)
    BY <1>1 DEF ForcedExit
  <2>3. /\ paid.nonce = l[o.id].nonce + 1 /\ k \in Ledgers /\ DOMAIN k = DOMAIN l
        /\ k[o.id] = paid /\ \A j \in DOMAIN l \ {o.id} : k[j] = l[j]
        /\ SumBalances(k) = SumBalances(l) - o.fee
        /\ Grows(l, k) /\ Moves(l, <<Moved(o.id, l[o.id], paid)>>, k)
    BY <2>1, Pays
  <2> HIDE DEF paid, k
  <2>4. k[o.to] = l[o.to] /\ o.to \in DOMAIN k
    BY <2>3
  <2>5. /\ m \in Ledgers /\ m[o.id] = k[o.id]
        /\ SumBalances(m) = SumBalances(k) - o.amount
        /\ Grows(k, m) /\ Moves(k, <<Moved(o.to, l[o.to], emptied)>>, m)
    <3> DEFINE e == Debited(k[o.to], o.amount)
    <3>1. o.amount \in Nat /\ o.amount <= k[o.to].balance
      BY <1>0, <2>4
    <3>2. /\ Insert(k, o.to, e) \in Ledgers
          /\ \A j \in DOMAIN k \ {o.to} : Insert(k, o.to, e)[j] = k[j]
          /\ SumBalances(Insert(k, o.to, e)) = SumBalances(k) - o.amount
          /\ Grows(k, Insert(k, o.to, e))
          /\ Moves(k, <<Moved(o.to, k[o.to], e)>>, Insert(k, o.to, e))
      BY <2>3, <2>4, <3>1, Leaves
    <3>3. e = emptied
      BY <2>4 DEF Debited
    <3> HIDE DEF e, emptied
    <3> QED BY <2>3, <2>4, <3>2, <3>3
  <2>6. us = <<Moved(o.id, l[o.id], paid)>> \o <<Moved(o.to, l[o.to], emptied)>>
    OBVIOUS
  <2> HIDE DEF emptied, m, us
  <2>7. Moves(l, us, m) /\ Grows(l, m)
    BY <2>3, <2>5, <2>6, MovesOn, GrowsOn
  <2>8. SumBalances(m) + o.fee + o.amount = SumBalances(l) + 0
    <3>1. SumBalances(l) \in Nat
      BY TotalOfTree
    <3> QED BY <1>0, <2>3, <2>5, <3>1
  <2>9. /\ Sound(l, 0, Success(m, us, o.fee, "ForcedExit", o.amount))
        /\ Success(m, us, o.fee, "ForcedExit", o.amount).ok
        /\ Success(m, us, o.fee, "ForcedExit", o.amount).ledger = m
    BY <1>0, <2>5, <2>7, <2>8, SuccessSound DEF OpNames
  <2> QED BY <2>1, <2>2, <2>3, <2>5, <2>9 DEF UsesNonce
<1>2. CASE ~ CanPay(l[o.id], o, o.fee)
  BY <1>2, FailureSound DEF ForcedExit
<1> QED BY <1>1, <1>2

\* The id under which an address is credited.
IsReceiver(l, i, a) ==
  IF Holder(l, a) = {} THEN i = FreeId(l) ELSE i \in Holder(l, a)

\* The tree with the account of the receiver, created if need be.
Opened(l, i, a) == IF i \in DOMAIN l THEN l ELSE Insert(l, i, NewAccount(a))

LEMMA ReceiverIs ==
  ASSUME NEW l \in Ledgers, NEW a
  PROVE  IsReceiver(l, Receiver(l, a), a)
BY Zenon DEF IsReceiver, Receiver

LEMMA OpenedFacts ==
  ASSUME NEW l \in Ledgers, NEW i, NEW o, o.address \in Addresses, IsReceiver(l, i, o.address)
  PROVE  LET k == Opened(l, i, o.address)
         IN  /\ k \in Ledgers /\ i \in DOMAIN k /\ DOMAIN l \subseteq DOMAIN k
             /\ \A j \in DOMAIN l : k[j] = l[j]
             /\ k[i] = IF i \in DOMAIN l THEN l[i] ELSE NewAccount(o.address)
             /\ SumBalances(k) = SumBalances(l) /\ Grows(l, k)
             /\ Moves(l, CreationOf(l, i, o), k)
<1> DEFINE a == o.address
           k == Opened(l, i, a)
<1>1. CASE i \in DOMAIN l
  <2>1. k = l /\ CreationOf(l, i, o) = <<>> /\ l \in Trees
    BY <1>1, LedgerFacts DEF Opened, CreationOf
  <2>2. Moves(l, <<>>, l) /\ Grows(l, l)
    BY <2>1, MovesNot, GrowsNot
  <2> HIDE DEF k
  <2>3. /\ k \in Ledgers /\ i \in DOMAIN k /\ DOMAIN l \subseteq DOMAIN k
        /\ \A j \in DOMAIN l : k[j] = l[j]
        /\ k[i] = IF i \in DOMAIN l THEN l[i] ELSE NewAccount(a)
        /\ SumBalances(k) = SumBalances(l) /\ Grows(l, k)
        /\ Moves(l, CreationOf(l, i, o), k)
    BY <1>1, <2>1, <2>2
  <2> QED BY <2>3, Zenon DEF k
<1>2. CASE i \notin DOMAIN l
  <2>1. Holder(l, a) = {} /\ i = FreeId(l)
    BY <1>2 DEF IsReceiver, Holder
  <2>2. k = Insert(l, FreeId(l), NewAccount(a)) /\ CreationOf(l, i, o) = <<Created(FreeId(l), NewAccount(a))>>
    BY <1>2, <2>1 DEF Opened, CreationOf
  <2>3. LET m == Insert(l, FreeId(l), NewAccount(a))
        IN  /\ m \in Ledgers /\ DOMAIN m = DOMAIN l \cup {FreeId(l)}
            /\ m[FreeId(l)] = NewAccount(a) /\ \A j \in DOMAIN l : m[j] = l[j]
            /\ SumBalances(m) = SumBalances(l) /\ Grows(l, m)
            /\ Moves(l, <<Created(FreeId(l), NewAccount(a))>>, m)
    BY <2>1, CreationMoves
  <2> HIDE DEF k, a
  <2>4. /\ k \in Ledgers /\ i \in DOMAIN k /\ DOMAIN l \subseteq DOMAIN k
        /\ \A j \in DOMAIN l : k[j] = l[j]
        /\ k[i] = IF i \in DOMAIN l THEN l[i] ELSE NewAccount(a)
        /\ SumBalances(k) = SumBalances(l) /\ Grows(l, k)
        /\ Moves(l, CreationOf(l, i, o), k)
    BY <1>2, <2>1, <2>2, <2>3
  <2> QED BY <2>4, Zenon DEF k, a
<1> QED BY <1>1, <1>2

LEMMA TransferSound ==
  ASSUME NEW l \in Ledgers, NEW o, o.id \in DOMAIN l, o.amount \in Nat, o.fee \in Nat,
         o.address \in Addresses, o.op \in OpNames, IsReceiver(l, o.to, o.address)
  PROVE  Sound(l, 0, Transfer(l, o)) /\ UsesNonce(l, o.id, o.nonce, Transfer(l, o))
<1> DEFINE cost == o.amount + o.fee
<1>0. l[o.id].balance \in Nat /\ l[o.id].nonce \in Nat /\ l \in Trees /\ o.id \in Nat
  BY LedgerFacts, AccountFields
<1>1. CASE ~ (o.to <= MaxAccountId /\ CanPay(l[o.id], o, cost))
  <2>1. Transfer(l, o) = Failure(l)
    BY <1>1 DEF Transfer
  <2> QED BY <2>1, FailureSound
<1>2. CASE o.to <= MaxAccountId /\ CanPay(l[o.id], o, cost) /\ o.to = o.id
  <2> DEFINE paid == Spend(l[o.id], o.fee)
             m == Insert(l, o.id, paid)
             us == <<Moved(o.id, l[o.id], paid)>>
  <2>1. l[o.id].nonce = o.nonce /\ l[o.id].balance >= o.fee
    BY <1>0, <1>2 DEF CanPay
  <2>2. Transfer(l, o) = Success(m, us, o.fee, o.op, 0)
    BY <1>2 DEF Transfer, TransferToSelf
  <2>3. /\ paid.nonce = l[o.id].nonce + 1 /\ m \in Ledgers /\ m[o.id] = paid
        /\ SumBalances(m) = SumBalances(l) - o.fee /\ Grows(l, m) /\ Moves(l, us, m)
    BY <2>1, Pays
  <2> HIDE DEF paid, m, us
  <2>4. SumBalances(m) + o.fee + 0 = SumBalances(l) + 0
    <3>1. SumBalances(l) \in Nat
      BY TotalOfTree
    <3> QED BY <2>3, <3>1
  <2>5. /\ Sound(l, 0, Success(m, us, o.fee, o.op, 0))
        /\ Success(m, us, o.fee, o.op, 0).ok
        /\ Success(m, us, o.fee, o.op, 0).ledger = m
    BY <2>3, <2>4, SuccessSound
  <2> QED BY <2>1, <2>2, <2>3, <2>5 DEF UsesNonce
<1>3. CASE o.to <= MaxAccountId /\ CanPay(l[o.id], o, cost) /\ o.to # o.id
  <2> DEFINE k == Opened(l, o.to, o.address)
             paid == Spend(l[o.id], cost)
             n == Insert(k, o.id, paid)
             before == Target(l, o)
             credited == Credited(before, o.amount)
             m == Insert(n, o.to, credited)
             us == CreationOf(l, o.to, o)
             vs == <<Moved(o.id, l[o.id], paid)>>
             ws == <<Moved(o.to, before, credited)>>
  <2>1. l[o.id].nonce = o.nonce /\ l[o.id].balance >= cost /\ cost \in Nat
    BY <1>3 DEF CanPay
  <2>2. Transfer(l, o) = Success(Insert(Insert(l, o.id, paid), o.to, credited),
                                 us \o <<Moved(o.id, l[o.id], paid), Moved(o.to, before, credited)>>,
                                 o.fee, o.op, 0)
    BY <1>3 DEF Transfer, Credited
  <2>3. /\ k \in Ledgers /\ o.to \in DOMAIN k /\ DOMAIN l \subseteq DOMAIN k
        /\ \A j \in DOMAIN l : k[j] = l[j]
        /\ k[o.to] = before
        /\ SumBalances(k) = SumBalances(l) /\ Grows(l, k) /\ Moves(l, us, k)
    BY OpenedFacts DEF Target
  <2>4. k = l \/ (o.to \notin DOMAIN l /\ k = Insert(l, o.to, NewAccount(o.address)))
    BY DEF Opened
  <2> HIDE DEF k, before, cost, us
  <2>5. k[o.id] = l[o.id] /\ o.id \in DOMAIN k
    BY <2>3
  <2>6. /\ paid \in Account /\ paid.nonce = l[o.id].nonce + 1
        /\ n \in Ledgers /\ DOMAIN n = DOMAIN k /\ n[o.id] = paid
        /\ \A j \in DOMAIN k \ {o.id} : n[j] = k[j]
        /\ SumBalances(n) = SumBalances(k) - cost
        /\ Grows(k, n) /\ Moves(k, vs, n)
    <3>1. LET p == Spend(k[o.id], cost)
              q == Insert(k, o.id, p)
          IN  /\ p \in Account /\ p.nonce = k[o.id].nonce + 1
              /\ q \in Ledgers /\ DOMAIN q = DOMAIN k /\ q[o.id] = p
              /\ \A j \in DOMAIN k \ {o.id} : q[j] = k[j]
              /\ SumBalances(q) = SumBalances(k) - cost
              /\ Grows(k, q) /\ Moves(k, <<Moved(o.id, k[o.id], p)>>, q)
      BY <2>1, <2>3, <2>5, Pays
    <3> QED BY <2>5, <3>1
  <2> HIDE DEF paid, n, vs
  <2>7. n[o.to] = before /\ o.to \in DOMAIN n
    BY <1>3, <2>3, <2>6
  <2>8. /\ m \in Ledgers /\ m[o.id] = n[o.id] /\ credited \in Account
        /\ SumBalances(m) = SumBalances(n) + o.amount
        /\ Grows(n, m) /\ Moves(n, ws, m)
    <3>0. n \in Ledgers /\ o.to \in DOMAIN n
      BY <2>6, <2>7
    <3>1. LET c == Credited(n[o.to], o.amount)
              q == Insert(n, o.to, c)
          IN  /\ c \in Account /\ q \in Ledgers
              /\ \A j \in DOMAIN n \ {o.to} : q[j] = n[j]
              /\ SumBalances(q) = SumBalances(n) + o.amount
              /\ Grows(n, q) /\ Moves(n, <<Moved(o.to, n[o.to], c)>>, q)
      BY <3>0, Gets
    <3>2. o.id \in DOMAIN n \ {o.to}
      BY <1>3, <2>5, <2>6
    <3> QED BY <2>7, <3>1, <3>2
  <2>9. Insert(Insert(l, o.id, paid), o.to, credited) = m
    <3>1. o.to \in Nat
      BY <2>3, LedgerFacts
    <3>2. CASE k = l
      BY <3>2 DEF n
    <3>3. CASE k = Insert(l, o.to, NewAccount(o.address))
      <4> DEFINE new == NewAccount(o.address)
                 z == Insert(l, o.id, paid)
      <4>1. new \in Account
        BY NewAccountTyped
      <4> HIDE DEF new
      <4>2. n = Insert(z, o.to, new)
        BY <1>0, <1>3, <2>6, <3>1, <3>3, <4>1, InsertsCommute DEF n, new
      <4>3. z \in Trees
        <5>1. z \in [DOMAIN l \cup {o.id} -> Account] /\ DOMAIN l \cup {o.id} \in SUBSET Nat
          BY <1>0, <2>6, TreeFacts DEF Insert
        <5> QED BY <5>1, TreeIs
      <4> HIDE DEF z, credited
      <4>4. Insert(Insert(z, o.to, new), o.to, credited) = Insert(z, o.to, credited)
        BY <2>8, <3>1, <4>1, <4>3, InsertedTwice
      <4> QED BY <4>2, <4>4 DEF z
    <3> QED BY <2>4, <3>2, <3>3
  <2>10. Moves(l, us \o <<Moved(o.id, l[o.id], paid), Moved(o.to, before, credited)>>, m)
    <3>1. <<Moved(o.id, l[o.id], paid), Moved(o.to, before, credited)>> = vs \o ws
      BY DEF vs
    <3> HIDE DEF ws, m
    <3>2. Moves(k, vs \o ws, m)
      BY <2>6, <2>8, MovesOn
    <3>3. Moves(l, us \o (vs \o ws), m)
      BY <2>3, <3>2, MovesOn
    <3> QED BY <3>1, <3>3
  <2> HIDE DEF credited, ws, m
  <2>11. Grows(l, m)
    BY <2>3, <2>6, <2>8, GrowsOn
  <2>12. SumBalances(m) + o.fee + 0 = SumBalances(l) + 0
    <3>1. SumBalances(l) \in Nat
      BY TotalOfTree
    <3> QED BY <2>3, <2>6, <2>8, <3>1 DEF cost
  <2> DEFINE xs == us \o <<Moved(o.id, l[o.id], paid), Moved(o.to, before, credited)>>
  <2>13. Transfer(l, o) = Success(m, xs, o.fee, o.op, 0)
    BY <2>2, <2>9
  <2>14. Moves(l, xs, m)
    BY <2>10
  <2> HIDE DEF xs
  <2>15. /\ Sound(l, 0, Success(m, xs, o.fee, o.op, 0))
         /\ Success(m, xs, o.fee, o.op, 0).ok
         /\ Success(m, xs, o.fee, o.op, 0).ledger = m
    BY <2>8, <2>11, <2>12, <2>14, SuccessSound
  <2> QED BY <2>1, <2>6, <2>8, <2>13, <2>15 DEF UsesNonce
<1> QED BY <1>1, <1>2, <1>3

\* A deposit brings its amount.
LEMMA DepositSound ==
  ASSUME NEW l \in Ledgers, NEW o, o.amount \in Nat, o.address \in Addresses,
         IsReceiver(l, o.id, o.address)
  PROVE  Sound(l, o.amount, Deposit(l, o))
<1> DEFINE k == Opened(l, o.id, o.address)
           before == IF o.id \in DOMAIN l THEN l[o.id] ELSE NewAccount(o.address)
           credited == Credited(before, o.amount)
           m == Insert(k, o.id, credited)
           us == CreationOf(l, o.id, o)
           ws == <<Moved(o.id, before, credited)>>
<1>1. Deposit(l, o) = Success(Insert(l, o.id, credited), us \o ws, 0, "Deposit", 0)
  BY DEF Deposit, Credited
<1>2. /\ k \in Ledgers /\ o.id \in DOMAIN k /\ k[o.id] = before
      /\ SumBalances(k) = SumBalances(l) /\ Grows(l, k) /\ Moves(l, us, k)
  BY OpenedFacts
<1>3. k = l \/ k = Insert(l, o.id, NewAccount(o.address))
  BY DEF Opened
<1> HIDE DEF k, before, us
<1>4. /\ credited \in Account /\ m \in Ledgers
      /\ SumBalances(m) = SumBalances(k) + o.amount
      /\ Grows(k, m) /\ Moves(k, ws, m)
  <2>1. LET c == Credited(k[o.id], o.amount)
            q == Insert(k, o.id, c)
        IN  /\ c \in Account /\ q \in Ledgers
            /\ SumBalances(q) = SumBalances(k) + o.amount
            /\ Grows(k, q) /\ Moves(k, <<Moved(o.id, k[o.id], c)>>, q)
    BY <1>2, Gets
  <2> QED BY <1>2, <2>1
<1>5. Insert(l, o.id, credited) = m
  <2>1. o.id \in Nat /\ l \in Trees /\ NewAccount(o.address) \in Account
    BY <1>2, LedgerFacts, NewAccountTyped
  <2> HIDE DEF credited
  <2>2. CASE k = l
    BY <2>2
  <2>3. CASE k = Insert(l, o.id, NewAccount(o.address))
    BY <1>4, <2>1, <2>3, InsertedTwice
  <2> QED BY <1>3, <2>2, <2>3
<1> HIDE DEF credited, m, ws
<1>6. Moves(l, us \o ws, m) /\ Grows(l, m)
  BY <1>2, <1>4, MovesOn, GrowsOn
<1>7. SumBalances(m) + 0 + 0 = SumBalances(l) + o.amount
  <2>1. SumBalances(l) \in Nat
    BY TotalOfTree
  <2> QED BY <1>2, <1>4, <2>1
<1>8. Sound(l, o.amount, Success(m, us \o ws, 0, "Deposit", 0))
  BY <1>4, <1>6, <1>7, SuccessSound DEF OpNames
<1> QED BY <1>1, <1>5, <1>8

\* A full exit takes the balance found out, or nothing.
LEMMA FullExitSound ==
  ASSUME NEW l \in Ledgers, NEW o,
         o.id \in Holder(l, o.address) => o.amount = l[o.id].balance
  PROVE  Sound(l, 0, FullExit(l, o))
<1>1. CASE o.id \in Holder(l, o.address)
  <2> DEFINE emptied == Debited(l[o.id], o.amount)
             m == Insert(l, o.id, emptied)
             us == <<Moved(o.id, l[o.id], emptied)>>
  <2>1. FullExit(l, o) = Success(m, us, 0, "FullExit", o.amount)
    BY <1>1 DEF FullExit, Debited
  <2>2. o.id \in DOMAIN l /\ o.amount = l[o.id].balance /\ o.amount \in Nat
    BY <1>1, LedgerFacts, AccountFields DEF Holder
  <2>3. /\ m \in Ledgers /\ SumBalances(m) = SumBalances(l) - o.amount
        /\ Grows(l, m) /\ Moves(l, us, m)
    <3>1. o.amount <= l[o.id].balance
      BY <2>2
    <3> QED BY <2>2, <3>1, Leaves
  <2> HIDE DEF emptied, m, us
  <2>4. SumBalances(m) + 0 + o.amount = SumBalances(l) + 0
    <3>1. SumBalances(l) \in Nat
      BY TotalOfTree
    <3> QED BY <2>2, <2>3, <3>1
  <2>5. Sound(l, 0, Success(m, us, 0, "FullExit", o.amount))
    BY <2>2, <2>3, <2>4, SuccessSound DEF OpNames
  <2> QED BY <2>1, <2>5
<1>2. CASE o.id \notin Holder(l, o.address)
  <2>1. FullExit(l, o) = Success(l, <<>>, 0, "FullExit", 0)
    BY <1>2 DEF FullExit
  <2>2. l \in Trees /\ SumBalances(l) \in Nat
    BY LedgerFacts, TotalOfTree
  <2>3. Moves(l, <<>>, l) /\ Grows(l, l)
    BY <2>2, MovesNot, GrowsNot
  <2>4. SumBalances(l) + 0 + 0 = SumBalances(l) + 0
    BY <2>2
  <2>5. Sound(l, 0, Success(l, <<>>, 0, "FullExit", 0))
    BY <2>3, <2>4, SuccessSound DEF OpNames
  <2> QED BY <2>1, <2>5
<1> QED BY <1>1, <1>2

LEMMA SignedOwns ==
  ASSUME NEW l, NEW tx, SignedByOwner(l, tx)
  PROVE  tx.id \in DOMAIN l
BY DEF SignedByOwner, Holder

LEMMA TxFacts ==
  ASSUME NEW tx \in AllTxs
  PROVE  /\ tx.to \in Addresses /\ tx.newKey \in Keys
         /\ tx.kind \in {"Transfer", "Withdraw", "ChangePubKey", "ForcedExit", "Close"}
         /\ tx.nonce \in Nat
         /\ tx.kind # "Close" => tx.fee \in Nat /\ tx.key # NoKey
         /\ tx.kind \in {"Transfer", "Withdraw"} => tx.amount \in Nat
<1>1. tx.to \in Addresses /\ tx.newKey \in Keys
  BY DEF Addresses, Keys
<1>2. IsTransaction(tx)
  <2>1. CASE tx \in Txs
    BY <2>1, RequestsAssumption
  <2>2. CASE tx \in UNION {Range(b) : b \in Batches}
    <3>1. PICK b \in Batches : tx \in Range(b)
      BY <2>2
    <3>2. PICK k \in DOMAIN b : tx = b[k]
      BY <3>1 DEF Range
    <3> QED BY <3>2, RequestsAssumption
  <2> QED BY <2>1, <2>2 DEF AllTxs
<1> QED BY <1>1, <1>2 DEF IsTransaction

\* execute_tx, whatever the transaction: it is sound, and it uses up its nonce.
LEMMA ExecuteTxSound ==
  ASSUME NEW l \in Ledgers, NEW tx \in AllTxs
  PROVE  LET r == ExecuteTx(l, tx)
         IN  Sound(l, 0, r) /\ UsesNonce(l, tx.id, tx.nonce, r)
<1> DEFINE r == ExecuteTx(l, tx)
           o == CreateOp(l, tx)
<1>0. /\ tx.to \in Addresses /\ tx.newKey \in Keys
      /\ tx.kind \in {"Transfer", "Withdraw", "ChangePubKey", "ForcedExit", "Close"}
      /\ tx.kind # "Close" => tx.fee \in Nat /\ tx.key # NoKey
      /\ tx.kind \in {"Transfer", "Withdraw"} => tx.amount \in Nat
  BY TxFacts
<1>1. CASE ~ Convertible(l, tx)
  BY <1>1, FailureSound DEF ExecuteTx
<1>2. CASE Convertible(l, tx) /\ tx.kind = "Transfer"
  <2>1. tx.id \in DOMAIN l /\ IsReceiver(l, Receiver(l, tx.to), tx.to)
    BY <1>2, SignedOwns, ReceiverIs DEF Convertible
  <2>2. o = CreateTransfer(l, tx)
    BY <1>2 DEF CreateOp
  <2>3. /\ o.id = tx.id /\ o.to = Receiver(l, tx.to) /\ o.address = tx.to
        /\ o.nonce = tx.nonce /\ o.amount = tx.amount /\ o.fee = tx.fee
        /\ o.op \in {"Transfer", "TransferToNew"}
    BY <2>2 DEF CreateTransfer, Noop, TransferName
  <2> HIDE DEF o
  <2>4. ApplyOp(l, o) = Transfer(l, o)
    BY <2>3 DEF ApplyOp
  <2>5. r = Transfer(l, o)
    BY <1>2, <2>4 DEF ExecuteTx, o
  <2>6. Sound(l, 0, Transfer(l, o)) /\ UsesNonce(l, o.id, o.nonce, Transfer(l, o))
    BY <1>0, <1>2, <2>1, <2>3, TransferSound DEF OpNames
  <2> QED BY <2>3, <2>5, <2>6
<1>3. CASE Convertible(l, tx) /\ tx.kind = "Withdraw"
  <2>1. tx.id \in DOMAIN l
    BY <1>3, SignedOwns DEF Convertible
  <2>2. o = CreateWithdraw(l, tx)
    BY <1>3 DEF CreateOp
  <2>3. /\ o.id = tx.id /\ o.nonce = tx.nonce /\ o.amount = tx.amount /\ o.fee = tx.fee
        /\ o.op = "Withdraw"
    BY <2>2 DEF CreateWithdraw, Noop
  <2> HIDE DEF o
  <2>4. ApplyOp(l, o) = Withdraw(l, o)
    BY <2>3 DEF ApplyOp
  <2>5. r = Withdraw(l, o)
    BY <1>3, <2>4 DEF ExecuteTx, o
  <2>6. Sound(l, 0, Withdraw(l, o)) /\ UsesNonce(l, o.id, o.nonce, Withdraw(l, o))
    BY <1>0, <1>3, <2>1, <2>3, WithdrawSound
  <2> QED BY <2>3, <2>5, <2>6
<1>4. CASE Convertible(l, tx) /\ tx.kind = "ChangePubKey"
  <2>1. tx.id \in DOMAIN l
    BY <1>4 DEF Convertible, Holder
  <2>2. o = CreateChangePubKey(l, tx)
    BY <1>4 DEF CreateOp
  <2>3. /\ o.id = tx.id /\ o.nonce = tx.nonce /\ o.key = tx.newKey /\ o.fee = tx.fee
        /\ o.op = "ChangePubKey"
    BY <2>2 DEF CreateChangePubKey, Noop
  <2> HIDE DEF o
  <2>4. ApplyOp(l, o) = ChangePubKey(l, o)
    BY <2>3 DEF ApplyOp
  <2>5. r = ChangePubKey(l, o)
    BY <1>4, <2>4 DEF ExecuteTx, o
  <2>6. Sound(l, 0, ChangePubKey(l, o)) /\ UsesNonce(l, o.id, o.nonce, ChangePubKey(l, o))
    BY <1>0, <1>4, <2>1, <2>3, ChangePubKeySound
  <2> QED BY <2>3, <2>5, <2>6
<1>5. CASE Convertible(l, tx) /\ tx.kind = "ForcedExit"
  <2>1. /\ tx.id \in DOMAIN l /\ l[tx.id].key = tx.key /\ Holder(l, tx.to) # {}
        /\ l[Receiver(l, tx.to)].key = NoKey
    BY <1>5 DEF Convertible
  <2>2. Receiver(l, tx.to) \in DOMAIN l
    <3>1. Receiver(l, tx.to) \in Holder(l, tx.to)
      BY <2>1, ReceiverIs DEF IsReceiver
    <3> QED BY <3>1 DEF Holder
  <2>3. o = CreateForcedExit(l, tx)
    BY <1>5 DEF CreateOp
  <2>4. /\ o.id = tx.id /\ o.nonce = tx.nonce /\ o.to = Receiver(l, tx.to) /\ o.fee = tx.fee
        /\ o.amount = l[Receiver(l, tx.to)].balance /\ o.op = "ForcedExit"
    BY <2>3 DEF CreateForcedExit, Noop
  <2> HIDE DEF o
  <2>5. o.id # o.to
    BY <1>0, <1>5, <2>1, <2>4
  <2>6. ApplyOp(l, o) = ForcedExit(l, o)
    BY <2>4 DEF ApplyOp
  <2>7. r = ForcedExit(l, o)
    BY <1>5, <2>6 DEF ExecuteTx, o
  <2>8. Sound(l, 0, ForcedExit(l, o)) /\ UsesNonce(l, o.id, o.nonce, ForcedExit(l, o))
    BY <1>0, <1>5, <2>1, <2>2, <2>4, <2>5, ForcedExitSound
  <2> QED BY <2>4, <2>7, <2>8
<1>6. CASE Convertible(l, tx) /\ tx.kind = "Close"
  BY <1>6 DEF Convertible
<1> QED BY <1>0, <1>1, <1>2, <1>3, <1>4, <1>5, <1>6

Brought(op) == IF op.kind = "Deposit" THEN op.amount ELSE 0

\* execute_priority_op
LEMMA PriorityOpSound ==
  ASSUME NEW l \in Ledgers, NEW op \in PriorityOps
  PROVE  Sound(l, Brought(op), ExecutePriorityOp(l, op)) /\ Brought(op) \in Nat
<1> DEFINE o == CreateOp(l, op)
<1>0. IsPriorityOp(op) /\ op.to \in Addresses
  BY RequestsAssumption DEF Addresses
<1>1. CASE op.kind = "Deposit"
  <2>1. op.amount \in Nat /\ Brought(op) = op.amount
    BY <1>0, <1>1 DEF IsPriorityOp, Brought
  <2>2. o = CreateDeposit(l, op)
    BY <1>1 DEF CreateOp
  <2>3. o.op = "Deposit" /\ o.id = Receiver(l, op.to) /\ o.address = op.to /\ o.amount = op.amount
    BY <2>2 DEF CreateDeposit, Noop
  <2>4. IsReceiver(l, Receiver(l, op.to), op.to)
    BY ReceiverIs
  <2> HIDE DEF o
  <2>5. ApplyOp(l, o) = Deposit(l, o)
    BY <2>3 DEF ApplyOp
  <2>6. Sound(l, o.amount, Deposit(l, o))
    BY <1>0, <2>1, <2>3, <2>4, DepositSound
  <2> QED BY <2>1, <2>3, <2>5, <2>6 DEF ExecutePriorityOp, o
<1>2. CASE op.kind = "FullExit"
  <2>1. Brought(op) = 0
    BY <1>2 DEF Brought
  <2>2. o = CreateFullExit(l, op)
    BY <1>2 DEF CreateOp
  <2>3. /\ o.op = "FullExit" /\ o.id = op.id /\ o.address = op.from
        /\ o.amount = IF op.id \in Holder(l, op.from) THEN l[op.id].balance ELSE 0
    BY <2>2 DEF CreateFullExit, Noop
  <2> HIDE DEF o
  <2>4. ApplyOp(l, o) = FullExit(l, o)
    BY <2>3 DEF ApplyOp
  <2>5. Sound(l, 0, FullExit(l, o))
    BY <2>3, FullExitSound
  <2> QED BY <2>1, <2>4, <2>5 DEF ExecutePriorityOp, o
<1> QED BY <1>0, <1>1, <1>2 DEF IsPriorityOp

\* Priority operations pay no fee.
LEMMA PriorityIsFree ==
  ASSUME NEW l, NEW op \in PriorityOps
  PROVE  ExecutePriorityOp(l, op).fee = 0
<1> DEFINE o == CreateOp(l, op)
<1>0. IsPriorityOp(op)
  BY RequestsAssumption
<1>1. CASE op.kind = "Deposit"
  <2>1. o.op = "Deposit"
    BY <1>1 DEF CreateOp, CreateDeposit, Noop
  <2> HIDE DEF o
  <2>2. ApplyOp(l, o) = Deposit(l, o)
    BY <2>1 DEF ApplyOp
  <2> QED BY <2>2 DEF ExecutePriorityOp, Deposit, Success, o
<1>2. CASE op.kind = "FullExit"
  <2>1. o.op = "FullExit"
    BY <1>2 DEF CreateOp, CreateFullExit, Noop
  <2> HIDE DEF o
  <2>2. ApplyOp(l, o) = FullExit(l, o)
    BY <2>1 DEF ApplyOp
  <2> QED BY <2>2 DEF ExecutePriorityOp, FullExit, Success, o
<1> QED BY <1>0, <1>1, <1>2 DEF IsPriorityOp

-----------------------------------------------------------------------------
(* Totals *)

LEMMA TotalIs ==
  ASSUME NEW s \in Seq(Nat)
  PROVE  Total(s) \in Nat /\ Total(s) = SumFunction(s)
<1>1. Len(s) \in Nat /\ s \in [1 .. Len(s) -> Nat]
  BY LenProperties
<1>2. IsFiniteSet(1 .. Len(s))
  BY <1>1, FS_Interval
<1>3. Total(s) = SumFunction(s)
  BY Zenon DEF Total, FoldSeq, FoldFunction, SumFunction, SumFunctionOnSet
<1> QED BY <1>1, <1>2, <1>3, SumIsNat

LEMMA TotalOfNone == Total(<<>>) = 0
<1>1. Total(<<>>) = SumFunction(<<>>)
  BY EmptySeq, TotalIs
<1>2. DOMAIN <<>> = {}
  OBVIOUS
<1> QED BY <1>1, <1>2, SumOfNone

LEMMA TotalAppends ==
  ASSUME NEW s \in Seq(Nat), NEW x \in Nat
  PROVE  Total(Append(s, x)) = Total(s) + x
<1> DEFINE n == Len(s)
           S == 1 .. n + 1
           f == Append(s, x)
<1>1. n \in Nat /\ s \in [1 .. n -> Nat] /\ IsFiniteSet(S)
  <2>1. n \in Nat /\ s \in [1 .. n -> Nat]
    BY LenProperties
  <2> QED BY <2>1, FS_Interval
<1>2. /\ f \in Seq(Nat) /\ Len(f) = n + 1 /\ f[n + 1] = x
      /\ \A i \in 1 .. n : f[i] = s[i]
  BY AppendProperties
<1>3. f \in [S -> Nat]
  BY <1>2, LenProperties
<1> HIDE DEF n
<1>4. S \ {n + 1} = 1 .. n /\ n + 1 \in S
  BY <1>1
<1> HIDE DEF f
<1>5. Restrict(f, 1 .. n) = s
  BY <1>1, <1>2 DEF Restrict
<1>6. f \in [S -> Int]
  BY <1>3
<1> HIDE DEF S
<1>7. SumFunction(f) = f[n + 1] + SumFunction(Restrict(f, S \ {n + 1}))
  BY <1>1, <1>4, <1>6, SumTakesOne
<1>8. Total(f) = SumFunction(f) /\ Total(s) = SumFunction(s) /\ Total(s) \in Nat
  BY <1>2, TotalIs
<1>9. Total(f) = x + Total(s)
  BY <1>2, <1>4, <1>5, <1>7, <1>8
<1>10. Total(f) = Total(s) + x
  BY <1>8, <1>9
<1> QED BY <1>10 DEF f

LEMMA ConcatAppends ==
  ASSUME NEW s \in Seq(Nat), NEW v \in Seq(Nat), NEW x \in Nat
  PROVE  s \o v \in Seq(Nat) /\ s \o Append(v, x) = Append(s \o v, x)
<1> DEFINE w == <<x>>
<1>1. w \in Seq(Nat) /\ Append(v, x) = v \o w
  BY AppendIsConcat
<1>2. s \o v \in Seq(Nat)
  BY ConcatProperties
<1>3. Append(s \o v, x) = (s \o v) \o w
  BY <1>2, AppendIsConcat
<1> HIDE DEF w
<1>4. (s \o v) \o w = s \o (v \o w)
  BY <1>1
<1> QED BY <1>1, <1>2, <1>3, <1>4

LEMMA TotalConcatenates ==
  ASSUME NEW s \in Seq(Nat), NEW t \in Seq(Nat)
  PROVE  Total(s \o t) = Total(s) + Total(t)
<1> DEFINE n == Len(t)
           T == {k \in 0 .. n : Total(s \o SubSeq(t, 1, k)) = Total(s) + Total(SubSeq(t, 1, k))}
<1>1. n \in Nat /\ \A k \in 1 .. n : t[k] \in Nat
  BY LenProperties, ElementOfSeq
<1>2. \A k \in 0 .. n : SubSeq(t, 1, k) \in Seq(Nat)
  <2> TAKE k \in 0 .. n
  <2>1. \A i \in 1 .. k : t[i] \in Nat
    BY <1>1
  <2> QED BY <2>1, SubSeqProperties
<1>3. 0 \in T
  <2>1. SubSeq(t, 1, 0) = <<>>
    BY SubSeqEmpty
  <2>2. s \o <<>> = s /\ Total(s) \in Nat
    BY ConcatEmptySeq, TotalIs
  <2>3. Total(s \o SubSeq(t, 1, 0)) = Total(s) /\ Total(SubSeq(t, 1, 0)) = 0
    BY <2>1, <2>2, TotalOfNone
  <2>4. 0 \in 0 .. n
    BY <1>1
  <2> HIDE DEF n
  <2> QED BY <2>2, <2>3, <2>4
<1>4. ASSUME NEW k \in 1 .. n, k - 1 \in T
      PROVE  k \in T
  <2> DEFINE v == SubSeq(t, 1, k - 1)
             w == SubSeq(t, 1, k)
  <2>1. v \in Seq(Nat) /\ w \in Seq(Nat) /\ t[k] \in Nat
    BY <1>1, <1>2
  <2>2. w = v \o <<t[k]>>
    <3>1. 1 \in 1 .. Len(t) /\ k \in 1 .. Len(t)
      BY <1>1
    <3> QED BY <3>1, SubSeqRecursiveSecond
  <2>3. Total(s \o v) = Total(s) + Total(v)
    BY <1>4
  <2>4. k \in 0 .. n
    BY <1>1
  <2> HIDE DEF v, w
  <2>5. w = Append(v, t[k])
    BY <2>1, <2>2, AppendIsConcat
  <2>6. s \o w = Append(s \o v, t[k]) /\ s \o v \in Seq(Nat)
    BY <2>1, <2>5, ConcatAppends
  <2>7. Total(s \o w) = Total(s \o v) + t[k] /\ Total(w) = Total(v) + t[k]
    BY <2>1, <2>5, <2>6, TotalAppends
  <2>8. Total(s \o w) = Total(s) + Total(w)
    BY <2>1, <2>3, <2>7, TotalIs
  <2> QED BY <2>4, <2>8 DEF w
<1>5. 0 .. n \subseteq T
  <2> HIDE DEF n, T
  <2> QED BY <1>1, <1>3, <1>4, AlongInterval
<1>6. n \in T
  BY <1>1, <1>5
<1> QED BY <1>6, SubSeqFull

\* What the results of a batch collect and take out.
OutsOf(results) == [k \in DOMAIN results |-> results[k].out]

LEMMA ResultsAppend ==
  ASSUME NEW rs \in Seq(Results), NEW r \in Results
  PROVE  /\ FeesOf(rs) \in Seq(Nat) /\ OutsOf(rs) \in Seq(Nat) /\ r.fee \in Nat /\ r.out \in Nat
         /\ FeesOf(Append(rs, r)) = Append(FeesOf(rs), r.fee)
         /\ OutsOf(Append(rs, r)) = Append(OutsOf(rs), r.out)
<1> DEFINE n == Len(rs)
           qs == Append(rs, r)
<1>1. n \in Nat /\ DOMAIN rs = 1 .. n /\ \A k \in 1 .. n : rs[k] \in Results
  BY LenProperties, ElementOfSeq
<1>2. /\ qs \in Seq(Results) /\ Len(qs) = n + 1 /\ qs[n + 1] = r
      /\ \A i \in 1 .. n : qs[i] = rs[i]
  BY AppendProperties
<1>3. DOMAIN qs = 1 .. n + 1
  BY <1>2, LenProperties
<1> HIDE DEF n, qs
<1>4. r.fee \in Nat /\ r.out \in Nat
  BY DEF Results
<1>5. FeesOf(rs) \in [1 .. n -> Nat] /\ OutsOf(rs) \in [1 .. n -> Nat]
  BY <1>1 DEF FeesOf, OutsOf, Results
<1>6. FeesOf(rs) \in Seq(Nat) /\ OutsOf(rs) \in Seq(Nat)
  BY <1>1, <1>5, SeqDef
<1>7. Len(FeesOf(rs)) = n /\ Len(OutsOf(rs)) = n
  BY <1>1, <1>5, <1>6, LenProperties
<1>8. FeesOf(qs) = Append(FeesOf(rs), r.fee)
  <2> DEFINE a == Append(FeesOf(rs), r.fee)
  <2>1. a \in Seq(Nat) /\ Len(a) = n + 1 /\ a[n + 1] = r.fee /\ \A i \in 1 .. n : a[i] = FeesOf(rs)[i]
    BY <1>4, <1>6, <1>7, AppendProperties
  <2>2. a \in [1 .. n + 1 -> Nat]
    BY <2>1, LenProperties
  <2>3. FeesOf(qs) = [i \in 1 .. n + 1 |-> qs[i].fee]
    BY <1>3 DEF FeesOf
  <2>4. \A i \in 1 .. n : FeesOf(rs)[i] = qs[i].fee
    BY <1>1, <1>2 DEF FeesOf
  <2> HIDE DEF a
  <2>5. \A i \in 1 .. n + 1 : a[i] = qs[i].fee
    BY <1>1, <1>2, <2>1, <2>4
  <2>6. FeesOf(qs) = a
    BY <2>2, <2>3, <2>5
  <2> QED BY <2>6 DEF a
<1>9. OutsOf(qs) = Append(OutsOf(rs), r.out)
  <2> DEFINE a == Append(OutsOf(rs), r.out)
  <2>1. a \in Seq(Nat) /\ Len(a) = n + 1 /\ a[n + 1] = r.out /\ \A i \in 1 .. n : a[i] = OutsOf(rs)[i]
    BY <1>4, <1>6, <1>7, AppendProperties
  <2>2. a \in [1 .. n + 1 -> Nat]
    BY <2>1, LenProperties
  <2>3. OutsOf(qs) = [i \in 1 .. n + 1 |-> qs[i].out]
    BY <1>3 DEF OutsOf
  <2>4. \A i \in 1 .. n : OutsOf(rs)[i] = qs[i].out
    BY <1>1, <1>2 DEF OutsOf
  <2> HIDE DEF a
  <2>5. \A i \in 1 .. n + 1 : a[i] = qs[i].out
    BY <1>1, <1>2, <2>1, <2>4
  <2>6. OutsOf(qs) = a
    BY <2>2, <2>3, <2>5
  <2> QED BY <2>6 DEF a
<1> QED BY <1>4, <1>6, <1>8, <1>9 DEF qs

-----------------------------------------------------------------------------
(* Batches *)

\* The nonce of a transaction is used up: it cannot be executed again.
UsedUp(l, tx) == tx.id \in DOMAIN l /\ l[tx.id].nonce > tx.nonce

LEMMA UsedUpStays ==
  ASSUME NEW l \in Ledgers, NEW m \in Ledgers, Grows(l, m), NEW tx \in AllTxs, UsedUp(l, tx)
  PROVE  UsedUp(m, tx)
<1>1. tx.id \in DOMAIN l /\ tx.id \in DOMAIN m
  BY DEF UsedUp, Grows
<1>2. l[tx.id].nonce \in Nat /\ m[tx.id].nonce \in Nat /\ tx.nonce \in Nat
  BY <1>1, LedgerFacts, AccountFields, TxFacts
<1> QED BY <1>1, <1>2 DEF UsedUp, Grows

LEMMA UsedUpFails ==
  ASSUME NEW l \in Ledgers, NEW tx \in AllTxs, UsedUp(l, tx)
  PROVE  ~ ExecuteTx(l, tx).ok
<1>1. UsesNonce(l, tx.id, tx.nonce, ExecuteTx(l, tx))
  BY ExecuteTxSound
<1>2. tx.id \in DOMAIN l
  BY DEF UsedUp
<1>3. l[tx.id].nonce \in Nat /\ tx.nonce \in Nat
  BY <1>2, LedgerFacts, AccountFields, TxFacts
<1> QED BY <1>1, <1>3 DEF UsedUp, UsesNonce

LEMMA SuccessUsesUp ==
  ASSUME NEW l \in Ledgers, NEW tx \in AllTxs, ExecuteTx(l, tx).ok
  PROVE  UsedUp(ExecuteTx(l, tx).ledger, tx)
<1> DEFINE r == ExecuteTx(l, tx)
<1>1. Sound(l, 0, r) /\ UsesNonce(l, tx.id, tx.nonce, r)
  BY ExecuteTxSound
<1>2. tx.nonce \in Nat
  BY TxFacts
<1> HIDE DEF r
<1>3. r.ok
  BY DEF r
<1>4. tx.id \in DOMAIN r.ledger /\ r.ledger[tx.id].nonce = tx.nonce + 1
  BY <1>1, <1>3 DEF UsesNonce, Sound, Grows
<1> QED BY <1>2, <1>4 DEF UsedUp, r

Runs == [ok : BOOLEAN, ledger : Ledgers, results : Seq(Results)]

LEMMA BatchStepTyped ==
  ASSUME NEW acc \in Runs, NEW tx \in AllTxs
  PROVE  BatchStep(acc, tx) \in Runs
<1> DEFINE r == ExecuteTx(acc.ledger, tx)
<1>1. acc.ledger \in Ledgers /\ acc.results \in Seq(Results)
  BY DEF Runs
<1>2. r \in Results
  BY <1>1, ExecuteTxSound DEF Sound
<1>3. r.ledger \in Ledgers
  BY <1>2 DEF Results
<1>4. Append(acc.results, r) \in Seq(Results)
  BY <1>1, <1>2, AppendProperties
<1>5. \/ BatchStep(acc, tx) = acc
      \/ BatchStep(acc, tx) = [acc EXCEPT !.ok = FALSE]
      \/ BatchStep(acc, tx) = [acc EXCEPT !.ledger = r.ledger, !.results = Append(@, r)]
  BY DEF BatchStep
<1> HIDE DEF r
<1> QED BY <1>3, <1>4, <1>5 DEF Runs

BatchEquation(g, base, s) ==
  g = [d \in SUBSET DOMAIN s |-> IF d = {} THEN base ELSE BatchStep(g[d \ {Max(d)}], s[Max(d)])]

LEMMA BatchUnfolds ==
  ASSUME NEW base, NEW s
  PROVE  FoldLeft(BatchStep, base, s) = (CHOOSE g : BatchEquation(g, base, s))[DOMAIN s]
BY Zenon DEF FoldLeft, MapThenFoldSet, BatchEquation

BatchTrace(t, base, s) ==
  /\ t \in [0 .. Len(s) -> Runs] /\ t[0] = base
  /\ \A i \in 1 .. Len(s) : t[i] = BatchStep(t[i - 1], s[i])

\* The transactions of a batch are executed one after the other.
LEMMA BatchHasTrace ==
  ASSUME NEW base \in Runs, NEW s \in Seq(AllTxs)
  PROVE  \E t : BatchTrace(t, base, s) /\ FoldLeft(BatchStep, base, s) = t[Len(s)]
<1> DEFINE n == Len(s)
           step == [p \in Runs \X (1 .. n) |-> BatchStep(p[1], s[p[2]])]
           choose == [d \in SUBSET (1 .. n) |-> Max(d)]
           G == CHOOSE g : BatchEquation(g, base, s)
<1>0. n \in Nat /\ DOMAIN s = 1 .. n /\ IsFiniteSet(1 .. n) /\ \A i \in 1 .. n : s[i] \in AllTxs
  <2>1. n \in Nat /\ DOMAIN s = 1 .. n /\ \A i \in 1 .. n : s[i] \in AllTxs
    BY LenProperties, ElementOfSeq
  <2> QED BY <2>1, FS_Interval
<1>1. \A d \in SUBSET (1 .. n) : d # {} => choose[d] = Max(d) /\ Max(d) \in d
  BY <1>0, LastIsPicked
<1>2. step \in [Runs \X (1 .. n) -> Runs]
  <2>1. \A v \in Runs : \A i \in 1 .. n : BatchStep(v, s[i]) \in Runs
    BY <1>0, BatchStepTyped
  <2> QED BY <2>1
<1>3. \A v \in Runs : \A i \in 1 .. n : step[<<v, i>>] = BatchStep(v, s[i])
  OBVIOUS
<1> HIDE DEF n, step, choose
<1>4. PICK H : IsIterator(H, 1 .. n, Runs, base, choose, step)
  <2>1. \A d \in SUBSET (1 .. n) : d # {} => choose[d] \in d
    BY <1>1
  <2> QED BY ONLY base \in Runs, <1>0, <1>2, <2>1, IteratorExists
<1>5. BatchEquation(H, base, s)
  <2>1. H \in [SUBSET (1 .. n) -> Runs]
    BY <1>4 DEF IsIterator
  <2>2. \A d \in SUBSET (1 .. n) : d # {} =>
           step[<<H[d \ {choose[d]}], choose[d]>>] = BatchStep(H[d \ {Max(d)}], s[Max(d)])
    <3> TAKE d \in SUBSET (1 .. n)
    <3> HAVE d # {}
    <3>1. choose[d] = Max(d) /\ Max(d) \in 1 .. n /\ H[d \ {Max(d)}] \in Runs
      BY <1>1, <2>1
    <3> QED BY <1>3, <3>1
  <2>3. H = [d \in SUBSET (1 .. n) |-> IF d = {} THEN base ELSE step[<<H[d \ {choose[d]}], choose[d]>>]]
    BY <1>4 DEF IsIterator
  <2>4. H = [d \in SUBSET (1 .. n) |->
               IF d = {} THEN base ELSE BatchStep(H[d \ {Max(d)}], s[Max(d)])]
    BY <2>2, <2>3, Zenon
  <2> QED BY <1>0, <2>4 DEF BatchEquation
<1>6. BatchEquation(G, base, s)
  BY <1>5, Zenon
<1>7. FoldLeft(BatchStep, base, s) = G[1 .. n]
  BY <1>0, BatchUnfolds, Zenon
<1> HIDE DEF G
<1>8. \A d \in SUBSET (1 .. n) :
         G[d] = IF d = {} THEN base ELSE BatchStep(G[d \ {Max(d)}], s[Max(d)])
  BY <1>0, <1>6 DEF BatchEquation
<1>9. IsFold(G, n, Runs, base, step)
  <2>1. G[{}] = base
    BY <1>8
  <2>2. \A d \in SUBSET (1 .. n) : d # {} /\ G[d \ {Max(d)}] \in Runs =>
           G[d] = step[<<G[d \ {Max(d)}], Max(d)>>]
    BY <1>1, <1>3, <1>8
  <2> QED BY <2>1, <2>2 DEF IsFold
<1>10. PICK t : IsTrace(t, G, n, Runs, base, step)
  BY ONLY base \in Runs, <1>0, <1>2, <1>9, FoldHasTrace
<1>11. t \in [0 .. n -> Runs] /\ t[0] = base /\ G[1 .. n] = t[n]
  BY <1>10 DEF IsTrace
<1>12. \A i \in 1 .. n : t[i] = BatchStep(t[i - 1], s[i])
  <2> TAKE i \in 1 .. n
  <2>1. t[i - 1] \in Runs /\ t[i] = step[<<t[i - 1], i>>]
    BY <1>0, <1>10 DEF IsTrace
  <2> QED BY <1>3, <2>1
<1> QED BY <1>7, <1>11, <1>12 DEF n, BatchTrace

\* The trees a batch goes through, one for each result.
IsWay(p, l, rs, m) ==
  /\ p \in [0 .. Len(rs) -> Ledgers] /\ p[0] = l /\ p[Len(rs)] = m
  /\ \A k \in 1 .. Len(rs) : Moves(p[k - 1], rs[k].updates, p[k])

\* What has become of a tree after i transactions of a batch.
RunSound(l, txs, i, acc) ==
  /\ acc \in Runs
  /\ \E p : IsWay(p, l, acc.results, acc.ledger)
  /\ Grows(l, acc.ledger)
  /\ SumBalances(l) =
       SumBalances(acc.ledger) + Total(FeesOf(acc.results)) + Total(OutsOf(acc.results))
  /\ acc.ok => \A j \in 1 .. i : UsedUp(acc.ledger, txs[j])

LEMMA WayGoesOn ==
  ASSUME NEW l, NEW rs \in Seq(Results), NEW m, \E p : IsWay(p, l, rs, m),
         NEW r \in Results, Moves(m, r.updates, r.ledger)
  PROVE  \E p : IsWay(p, l, Append(rs, r), r.ledger)
<1> DEFINE n == Len(rs)
           qs == Append(rs, r)
<1>1. PICK p : IsWay(p, l, rs, m)
  OBVIOUS
<1>2. n \in Nat /\ r.ledger \in Ledgers
  BY LenProperties DEF Results
<1>3. Len(qs) = n + 1 /\ qs[n + 1] = r /\ \A i \in 1 .. n : qs[i] = rs[i]
  BY AppendProperties
<1>4. /\ p \in [0 .. n -> Ledgers] /\ p[0] = l /\ p[n] = m
      /\ \A k \in 1 .. n : Moves(p[k - 1], rs[k].updates, p[k])
  BY <1>1 DEF IsWay
<1> HIDE DEF n, qs
<1> DEFINE q == [k \in 0 .. n + 1 |-> IF k <= n THEN p[k] ELSE r.ledger]
<1>5. /\ q \in [0 .. n + 1 -> Ledgers] /\ q[0] = l /\ q[n + 1] = r.ledger
      /\ \A k \in 0 .. n : q[k] = p[k]
  <2>1. \A k \in 0 .. n + 1 : k <= n => k \in 0 .. n
    BY <1>2
  <2>2. q \in [0 .. n + 1 -> Ledgers]
    BY <1>2, <1>4, <2>1
  <2> QED BY <1>2, <1>4, <2>2
<1> HIDE DEF q
<1>6. \A k \in 1 .. n + 1 : Moves(q[k - 1], qs[k].updates, q[k])
  <2> TAKE k \in 1 .. n + 1
  <2>1. CASE k = n + 1
    <3>1. k - 1 = n /\ n \in 0 .. n
      BY <1>2, <2>1
    <3> QED BY <1>3, <1>4, <1>5, <2>1, <3>1
  <2>2. CASE k # n + 1
    <3>1. k \in 1 .. n /\ k \in 0 .. n /\ k - 1 \in 0 .. n
      BY <1>2, <2>2
    <3> QED BY <1>3, <1>4, <1>5, <3>1
  <2> QED BY <2>1, <2>2
<1>7. IsWay(q, l, qs, r.ledger)
  BY <1>3, <1>5, <1>6 DEF IsWay
<1> QED BY <1>7 DEF qs

\* One more transaction of a batch.
LEMMA RunGoesOn ==
  ASSUME NEW l \in Ledgers, NEW txs \in Seq(AllTxs), NEW i \in 1 .. Len(txs),
         NEW acc, RunSound(l, txs, i - 1, acc)
  PROVE  RunSound(l, txs, i, BatchStep(acc, txs[i]))
<1> DEFINE tx == txs[i]
           r == ExecuteTx(acc.ledger, tx)
           next == BatchStep(acc, tx)
<1>0. /\ tx \in AllTxs /\ Len(txs) \in Nat
      /\ \A j \in 1 .. i : txs[j] \in AllTxs /\ (j \in 1 .. i - 1 \/ j = i)
  BY LenProperties, ElementOfSeq
<1>1. /\ acc \in Runs /\ acc.ledger \in Ledgers /\ acc.results \in Seq(Results)
      /\ acc.ok \in BOOLEAN
  BY DEF RunSound, Runs
<1>2. next \in Runs
  BY <1>0, <1>1, BatchStepTyped
<1>3. CASE ~ acc.ok
  BY <1>3 DEF BatchStep, RunSound
<1>4. CASE acc.ok /\ ~ r.ok
  <2>1. next = [acc EXCEPT !.ok = FALSE]
    BY <1>4 DEF BatchStep
  <2>2. next.ok = FALSE /\ next.ledger = acc.ledger /\ next.results = acc.results
    BY <1>1, <2>1 DEF Runs
  <2> HIDE DEF next
  <2>3. RunSound(l, txs, i, next)
    BY <1>2, <2>2 DEF RunSound
  <2> QED BY <2>3 DEF next
<1>5. CASE acc.ok /\ r.ok
  <2>1. next = [acc EXCEPT !.ledger = r.ledger, !.results = Append(@, r)]
    BY <1>5 DEF BatchStep
  <2>2. next.ledger = r.ledger /\ next.results = Append(acc.results, r)
    BY <1>1, <2>1 DEF Runs
  <2>3. Sound(acc.ledger, 0, r) /\ UsedUp(r.ledger, tx)
    BY <1>0, <1>1, <1>5, ExecuteTxSound, SuccessUsesUp
  <2> HIDE DEF r, next
  <2>4. /\ r \in Results /\ r.ledger \in Ledgers /\ Moves(acc.ledger, r.updates, r.ledger)
        /\ Grows(acc.ledger, r.ledger)
        /\ SumBalances(r.ledger) + r.fee + r.out = SumBalances(acc.ledger) + 0
    BY <2>3 DEF Sound, Results
  <2>5. \E p : IsWay(p, l, next.results, next.ledger)
    BY <1>1, <2>2, <2>4, WayGoesOn DEF RunSound
  <2>6. Grows(l, next.ledger)
    BY <1>1, <2>2, <2>4, GrowsOn DEF RunSound
  <2>7. SumBalances(l) =
          SumBalances(next.ledger) + Total(FeesOf(next.results)) + Total(OutsOf(next.results))
    <3>1. /\ FeesOf(acc.results) \in Seq(Nat) /\ OutsOf(acc.results) \in Seq(Nat)
          /\ r.fee \in Nat /\ r.out \in Nat
          /\ FeesOf(next.results) = Append(FeesOf(acc.results), r.fee)
          /\ OutsOf(next.results) = Append(OutsOf(acc.results), r.out)
      BY <1>1, <2>2, <2>4, ResultsAppend
    <3>2. /\ Total(FeesOf(next.results)) = Total(FeesOf(acc.results)) + r.fee
          /\ Total(OutsOf(next.results)) = Total(OutsOf(acc.results)) + r.out
      BY <3>1, TotalAppends
    <3>3. /\ Total(FeesOf(acc.results)) \in Nat /\ Total(OutsOf(acc.results)) \in Nat
          /\ SumBalances(acc.ledger) \in Nat /\ SumBalances(r.ledger) \in Nat /\ SumBalances(l) \in Nat
      BY <1>1, <2>4, <3>1, TotalIs, TotalOfTree
    <3>4. SumBalances(l) = SumBalances(acc.ledger) + Total(FeesOf(acc.results)) + Total(OutsOf(acc.results))
      BY DEF RunSound
    <3>5. r.fee \in Nat /\ r.out \in Nat
      BY <3>1
    <3> DEFINE b == SumBalances(acc.ledger)
               c == SumBalances(r.ledger)
               d == Total(FeesOf(acc.results))
               e == Total(OutsOf(acc.results))
               x == r.fee
               y == r.out
    <3>6. /\ SumBalances(l) = b + d + e /\ c + x + y = b
          /\ b \in Nat /\ c \in Nat /\ d \in Nat /\ e \in Nat /\ x \in Nat /\ y \in Nat
      BY <2>4, <3>3, <3>4, <3>5
    <3>7. SumBalances(next.ledger) = c
      BY <2>2
    <3>8. Total(FeesOf(next.results)) = d + x /\ Total(OutsOf(next.results)) = e + y
      BY <3>2
    <3> HIDE DEF b, c, d, e, x, y
    <3> QED BY <3>6, <3>7, <3>8
  <2>8. \A j \in 1 .. i : UsedUp(next.ledger, txs[j])
    <3> TAKE j \in 1 .. i
    <3>1. CASE j = i
      BY <2>2, <2>3, <3>1
    <3>2. CASE j \in 1 .. i - 1
      <4>1. UsedUp(acc.ledger, txs[j]) /\ txs[j] \in AllTxs
        BY <1>0, <1>5, <3>2 DEF RunSound
      <4> QED BY <1>1, <2>2, <2>4, <4>1, UsedUpStays
    <3> QED BY <1>0, <3>1, <3>2
  <2>9. RunSound(l, txs, i, next)
    BY <1>2, <2>5, <2>6, <2>7, <2>8 DEF RunSound
  <2> QED BY <2>9 DEF next
<1> QED BY <1>1, <1>3, <1>4, <1>5

\* All the transactions of a batch, until the first failure.
LEMMA PrefixSound ==
  ASSUME NEW l \in Ledgers, NEW txs \in Seq(AllTxs)
  PROVE  RunSound(l, txs, Len(txs), BatchPrefix(l, txs))
<1> DEFINE n == Len(txs)
           base == [ok |-> TRUE, ledger |-> l, results |-> <<>>]
           T(t) == {i \in 0 .. n : RunSound(l, txs, i, t[i])}
<1>0. n \in Nat
  BY LenProperties
<1>1. base \in Runs
  BY EmptySeq DEF Runs
<1>2. PICK t : BatchTrace(t, base, txs) /\ FoldLeft(BatchStep, base, txs) = t[n]
  BY <1>1, BatchHasTrace
<1>3. t[0] = base /\ \A i \in 1 .. n : t[i] = BatchStep(t[i - 1], txs[i])
  BY <1>2 DEF BatchTrace
<1>4. RunSound(l, txs, 0, base)
  <2>1. base.ok = TRUE /\ base.ledger = l /\ base.results = <<>>
    OBVIOUS
  <2>2. FeesOf(<<>>) = <<>> /\ OutsOf(<<>>) = <<>>
    BY DEF FeesOf, OutsOf
  <2>3. Grows(l, l) /\ SumBalances(l) \in Nat
    BY GrowsNot, TotalOfTree
  <2>4. \E p : IsWay(p, l, <<>>, l)
    <3> DEFINE p == [k \in 0 .. 0 |-> l]
    <3>1. p \in [0 .. 0 -> Ledgers] /\ p[0] = l /\ Len(<<>>) = 0
      OBVIOUS
    <3> HIDE DEF p
    <3>2. IsWay(p, l, <<>>, l)
      BY <3>1 DEF IsWay
    <3> QED BY <3>2
  <2>5. SumBalances(l) = SumBalances(l) + Total(<<>>) + Total(<<>>)
    BY <2>3, TotalOfNone
  <2> HIDE DEF base
  <2> QED BY <1>1, <2>1, <2>2, <2>3, <2>4, <2>5 DEF RunSound
<1>5. 0 .. n \subseteq T(t)
  <2>1. 0 \in T(t)
    BY <1>0, <1>3, <1>4
  <2>2. \A i \in 1 .. n : i - 1 \in T(t) => i \in T(t)
    <3> TAKE i \in 1 .. n
    <3> HAVE i - 1 \in T(t)
    <3>1. RunSound(l, txs, i - 1, t[i - 1]) /\ i \in 0 .. n
      BY <1>0
    <3>2. RunSound(l, txs, i, BatchStep(t[i - 1], txs[i]))
      BY <3>1, RunGoesOn
    <3> QED BY <1>3, <3>1, <3>2
  <2> HIDE DEF T, n
  <2> QED BY <1>0, <2>1, <2>2, AlongInterval
<1>6. n \in T(t)
  BY <1>0, <1>5
<1> QED BY <1>2, <1>6 DEF BatchPrefix

-----------------------------------------------------------------------------
(* Batches taken back *)

LEMMA TakeBackTyped ==
  ASSUME NEW l \in Trees, NEW us \in Seq(Updates)
  PROVE  TakeBack(l, us) \in Trees
<1> DEFINE vs == ReverseUpdates(us)
<1>1. vs \in Seq(Updates) /\ Len(vs) \in Nat
  BY ReverseFacts, LenProperties
<1> HIDE DEF vs
<1>2. PICK t : ApplyTrace(t, l, vs) /\ FoldLeft(ApplyUpdate, l, vs) = t[Len(vs)]
  BY <1>1, ApplyHasTrace
<1>3. t[Len(vs)] \in Trees
  BY <1>1, <1>2 DEF ApplyTrace
<1> QED BY <1>2, <1>3 DEF TakeBack, ApplyUpdates, vs

TakeBackEquation(g, base, s) ==
  g = [d \in SUBSET DOMAIN s |-> IF d = {} THEN base ELSE TakeBack(g[d \ {Max(d)}], s[Max(d)])]

LEMMA TakeBackUnfolds ==
  ASSUME NEW base, NEW s
  PROVE  FoldLeft(TakeBack, base, s) = (CHOOSE g : TakeBackEquation(g, base, s))[DOMAIN s]
BY Zenon DEF FoldLeft, MapThenFoldSet, TakeBackEquation

TakeBackTrace(t, base, s) ==
  /\ t \in [0 .. Len(s) -> Trees] /\ t[0] = base
  /\ \A i \in 1 .. Len(s) : t[i] = TakeBack(t[i - 1], s[i])

\* Transactions are taken back one after the other.
LEMMA TakeBackHasTrace ==
  ASSUME NEW base \in Trees, NEW s \in Seq(Seq(Updates))
  PROVE  \E t : TakeBackTrace(t, base, s) /\ FoldLeft(TakeBack, base, s) = t[Len(s)]
<1> DEFINE n == Len(s)
           step == [p \in Trees \X (1 .. n) |-> TakeBack(p[1], s[p[2]])]
           choose == [d \in SUBSET (1 .. n) |-> Max(d)]
           G == CHOOSE g : TakeBackEquation(g, base, s)
<1>0. n \in Nat /\ DOMAIN s = 1 .. n /\ IsFiniteSet(1 .. n) /\ \A i \in 1 .. n : s[i] \in Seq(Updates)
  <2>1. n \in Nat /\ DOMAIN s = 1 .. n /\ \A i \in 1 .. n : s[i] \in Seq(Updates)
    BY LenProperties, ElementOfSeq
  <2> QED BY <2>1, FS_Interval
<1>1. \A d \in SUBSET (1 .. n) : d # {} => choose[d] = Max(d) /\ Max(d) \in d
  BY <1>0, LastIsPicked
<1>2. step \in [Trees \X (1 .. n) -> Trees]
  <2>1. \A v \in Trees : \A i \in 1 .. n : TakeBack(v, s[i]) \in Trees
    BY <1>0, TakeBackTyped
  <2> QED BY <2>1
<1>3. \A v \in Trees : \A i \in 1 .. n : step[<<v, i>>] = TakeBack(v, s[i])
  OBVIOUS
<1> HIDE DEF n, step, choose
<1>4. PICK H : IsIterator(H, 1 .. n, Trees, base, choose, step)
  <2>1. \A d \in SUBSET (1 .. n) : d # {} => choose[d] \in d
    BY <1>1
  <2> QED BY ONLY base \in Trees, <1>0, <1>2, <2>1, IteratorExists
<1>5. TakeBackEquation(H, base, s)
  <2>1. H \in [SUBSET (1 .. n) -> Trees]
    BY <1>4 DEF IsIterator
  <2>2. \A d \in SUBSET (1 .. n) : d # {} =>
           step[<<H[d \ {choose[d]}], choose[d]>>] = TakeBack(H[d \ {Max(d)}], s[Max(d)])
    <3> TAKE d \in SUBSET (1 .. n)
    <3> HAVE d # {}
    <3>1. choose[d] = Max(d) /\ Max(d) \in 1 .. n /\ H[d \ {Max(d)}] \in Trees
      BY <1>1, <2>1
    <3> QED BY <1>3, <3>1
  <2>3. H = [d \in SUBSET (1 .. n) |-> IF d = {} THEN base ELSE step[<<H[d \ {choose[d]}], choose[d]>>]]
    BY <1>4 DEF IsIterator
  <2>4. H = [d \in SUBSET (1 .. n) |->
               IF d = {} THEN base ELSE TakeBack(H[d \ {Max(d)}], s[Max(d)])]
    BY <2>2, <2>3, Zenon
  <2> QED BY <1>0, <2>4 DEF TakeBackEquation
<1>6. TakeBackEquation(G, base, s)
  BY <1>5, Zenon
<1>7. FoldLeft(TakeBack, base, s) = G[1 .. n]
  BY <1>0, TakeBackUnfolds, Zenon
<1> HIDE DEF G
<1>8. \A d \in SUBSET (1 .. n) :
         G[d] = IF d = {} THEN base ELSE TakeBack(G[d \ {Max(d)}], s[Max(d)])
  BY <1>0, <1>6 DEF TakeBackEquation
<1>9. IsFold(G, n, Trees, base, step)
  <2>1. G[{}] = base
    BY <1>8
  <2>2. \A d \in SUBSET (1 .. n) : d # {} /\ G[d \ {Max(d)}] \in Trees =>
           G[d] = step[<<G[d \ {Max(d)}], Max(d)>>]
    BY <1>1, <1>3, <1>8
  <2> QED BY <2>1, <2>2 DEF IsFold
<1>10. PICK t : IsTrace(t, G, n, Trees, base, step)
  BY ONLY base \in Trees, <1>0, <1>2, <1>9, FoldHasTrace
<1>11. t \in [0 .. n -> Trees] /\ t[0] = base /\ G[1 .. n] = t[n]
  BY <1>10 DEF IsTrace
<1>12. \A i \in 1 .. n : t[i] = TakeBack(t[i - 1], s[i])
  <2> TAKE i \in 1 .. n
  <2>1. t[i - 1] \in Trees /\ t[i] = step[<<t[i - 1], i>>]
    BY <1>0, <1>10 DEF IsTrace
  <2> QED BY <1>3, <2>1
<1> QED BY <1>7, <1>11, <1>12 DEF n, TakeBackTrace

\* Each result of a batch leads back where it came from.
LEMMA WayBack ==
  ASSUME NEW l, NEW m, NEW rs \in Seq(Results), NEW p, IsWay(p, l, rs, m)
  PROVE  \A i \in 1 .. Len(rs) :
               /\ rs[Len(rs) - i + 1].updates \in Seq(Updates)
               /\ Moves(p[Len(rs) - (i - 1)], ReverseUpdates(rs[Len(rs) - i + 1].updates),
                        p[Len(rs) - i])
               /\ TakeBack(p[Len(rs) - (i - 1)], rs[Len(rs) - i + 1].updates) = p[Len(rs) - i]
<1> DEFINE n == Len(rs)
<1>1. n \in Nat /\ \A k \in 1 .. n : rs[k] \in Results
  BY LenProperties, ElementOfSeq
<1>2. p[0] = l /\ p[n] = m /\ \A k \in 1 .. n : Moves(p[k - 1], rs[k].updates, p[k])
  BY DEF IsWay
<1> HIDE DEF n
<1>3. ASSUME NEW i \in 1 .. n
      PROVE  /\ rs[n - i + 1].updates \in Seq(Updates)
             /\ Moves(p[n - (i - 1)], ReverseUpdates(rs[n - i + 1].updates), p[n - i])
             /\ TakeBack(p[n - (i - 1)], rs[n - i + 1].updates) = p[n - i]
  <2> DEFINE k == n - i + 1
             u == rs[k].updates
  <2>1. k \in 1 .. n /\ n - (i - 1) = k /\ n - i = k - 1
    BY <1>1
  <2> HIDE DEF k
  <2>2. u \in Seq(Updates) /\ Moves(p[k - 1], u, p[k])
    BY <1>1, <1>2, <2>1 DEF Results
  <2> HIDE DEF u
  <2>3. Moves(p[k], ReverseUpdates(u), p[k - 1])
    BY <2>2, MovesBack
  <2>4. TakeBack(p[k], u) = p[k - 1]
    BY <2>3, PathApplies DEF TakeBack
  <2>5. /\ u \in Seq(Updates)
        /\ Moves(p[n - (i - 1)], ReverseUpdates(u), p[n - i])
        /\ TakeBack(p[n - (i - 1)], u) = p[n - i]
    BY <2>1, <2>2, <2>3, <2>4
  <2> QED BY <2>5 DEF u, k
<1> QED BY <1>1, <1>2, <1>3 DEF n

\* execute_txs_batch restores the tree that was there before the batch.
LEMMA UndoRestores ==
  ASSUME NEW l \in Ledgers, NEW m \in Ledgers, NEW rs \in Seq(Results), \E p : IsWay(p, l, rs, m)
  PROVE  Undo(m, [k \in DOMAIN rs |-> rs[k].updates]) = l
<1> DEFINE n == Len(rs)
           us == [k \in DOMAIN rs |-> rs[k].updates]
           back == Reverse(us)
<1>0. PICK p : IsWay(p, l, rs, m)
  OBVIOUS
<1>1. n \in Nat /\ DOMAIN rs = 1 .. n /\ \A k \in 1 .. n : rs[k] \in Results
  BY LenProperties, ElementOfSeq
<1>2. /\ p[0] = l /\ p[n] = m
      /\ \A i \in 1 .. n : /\ rs[n - i + 1].updates \in Seq(Updates)
                           /\ TakeBack(p[n - (i - 1)], rs[n - i + 1].updates) = p[n - i]
  BY <1>0, WayBack DEF IsWay
<1> HIDE DEF n
<1>3. us \in [1 .. n -> Seq(Updates)] /\ \A k \in 1 .. n : us[k] = rs[k].updates
  BY <1>1 DEF Results
<1> HIDE DEF us
<1>4. us \in Seq(Seq(Updates)) /\ Len(us) = n
  <2>1. us \in Seq(Seq(Updates))
    BY <1>1, <1>3, SeqDef
  <2>2. DOMAIN us = 1 .. n
    BY <1>3
  <2> QED BY <1>1, <2>1, <2>2, LenProperties
<1>5. back \in [1 .. n -> Seq(Updates)] /\ \A i \in 1 .. n : back[i] = rs[n - i + 1].updates
  <2>1. back = [i \in 1 .. n |-> us[(n - i) + 1]]
    BY <1>4 DEF Reverse
  <2>2. \A i \in 1 .. n : (n - i) + 1 \in 1 .. n
    BY <1>1
  <2> HIDE DEF back
  <2> QED BY <1>3, <2>1, <2>2
<1> HIDE DEF back
<1>6. back \in Seq(Seq(Updates)) /\ Len(back) = n
  <2>1. back \in Seq(Seq(Updates))
    BY <1>1, <1>5, SeqDef
  <2>2. DOMAIN back = 1 .. n
    BY <1>5
  <2> QED BY <1>1, <2>1, <2>2, LenProperties
<1>7. m \in Trees
  BY LedgerFacts
<1>8. PICK t : TakeBackTrace(t, m, back) /\ FoldLeft(TakeBack, m, back) = t[n]
  BY <1>6, <1>7, TakeBackHasTrace
<1>9. t[0] = m /\ \A i \in 1 .. n : t[i] = TakeBack(t[i - 1], back[i])
  BY <1>6, <1>8 DEF TakeBackTrace
<1> DEFINE T == {i \in 0 .. n : t[i] = p[n - i]}
<1>10. 0 .. n \subseteq T
  <2>1. 0 \in T
    <3>1. n - 0 = n /\ 0 \in 0 .. n
      BY <1>1
    <3> QED BY <1>2, <1>9, <3>1
  <2>2. \A i \in 1 .. n : i - 1 \in T => i \in T
    <3> TAKE i \in 1 .. n
    <3> HAVE i - 1 \in T
    <3>1. i \in 0 .. n
      BY <1>1
    <3>2. t[i - 1] = p[n - (i - 1)] /\ back[i] = rs[n - i + 1].updates
      BY <1>5
    <3>3. t[i] = p[n - i]
      BY <1>2, <1>9, <3>2
    <3> QED BY <3>1, <3>3
  <2> HIDE DEF T
  <2> QED BY <1>1, <2>1, <2>2, AlongInterval
<1>11. t[n] = p[0]
  <2>1. n \in 0 .. n /\ n - n = 0
    BY <1>1
  <2> QED BY <1>10, <2>1
<1> QED BY <1>2, <1>8, <1>11 DEF Undo, back, us

\* On the way back apply_account_updates meets none of its assertions.
LEMMA UndoFits ==
  ASSUME NEW l \in Ledgers, NEW m \in Ledgers, NEW rs \in Seq(Results), \E p : IsWay(p, l, rs, m)
  PROVE  Undoable(m, FlattenSeq([k \in DOMAIN rs |-> ReverseUpdates(Reverse(rs)[k].updates)]))
<1> DEFINE n == Len(rs)
           us == [k \in DOMAIN rs |-> ReverseUpdates(Reverse(rs)[k].updates)]
<1>0. PICK p : IsWay(p, l, rs, m)
  OBVIOUS
<1>1. n \in Nat /\ DOMAIN rs = 1 .. n /\ \A k \in 1 .. n : Reverse(rs)[k] = rs[n - k + 1]
  BY LenProperties DEF Reverse
<1>2. /\ p[0] = l /\ p[n] = m
      /\ \A i \in 1 .. n : Moves(p[n - (i - 1)], ReverseUpdates(rs[n - i + 1].updates), p[n - i])
  BY <1>0, WayBack DEF IsWay
<1>3. \A i \in 1 .. n : us[i] = ReverseUpdates(rs[n - i + 1].updates)
  BY <1>1
<1>4. \A i \in 1 .. n : us[i] \in Seq(Updates) /\ Moves(p[n - (i - 1)], us[i], p[n - i])
  BY <1>2, <1>3, PathFacts
<1>5. us \in Seq(Seq(Updates)) /\ Len(us) = n
  <2>1. us \in [1 .. n -> Seq(Updates)]
    <3>1. us = [k \in 1 .. n |-> us[k]]
      BY <1>1
    <3> HIDE DEF us
    <3> QED BY <1>4, <3>1
  <2> HIDE DEF us, n
  <2>2. us \in Seq(Seq(Updates)) /\ DOMAIN us = 1 .. n
    BY <1>1, <2>1, SeqDef
  <2> QED BY <1>1, <2>2, LenProperties
<1>6. m \in Trees
  BY LedgerFacts
<1> HIDE DEF n, us
<1>7. CASE n = 0
  <2>1. FlattenSeq(us) = us
    BY <1>5, <1>7, FlattenUnfolds
  <2>2. DOMAIN us = {}
    BY <1>5, <1>7, LenProperties
  <2>3. Undoable(m, us)
    BY <2>2 DEF Undoable
  <2> QED BY <2>1, <2>3 DEF us
<1>8. CASE n # 0
  <2>1. us # <<>>
    <3>1. Len(<<>>) = 0
      BY EmptySeq
    <3> QED BY <1>5, <1>8, <3>1
  <2>2. PICK g \in [1 .. n -> Seq(Updates)] :
           /\ FlattenSeq(us) = g[n] /\ g[1] = us[1]
           /\ \A i \in 2 .. n : g[i] = g[i - 1] \o us[i]
    BY <1>5, <2>1, FlattenHasSteps
  <2> DEFINE T == {i \in 0 .. n : i # 0 => Moves(m, g[i], p[n - i])}
  <2>3. 0 .. n \subseteq T
    <3>1. 0 \in T
      BY <1>1
    <3>2. \A i \in 1 .. n : i - 1 \in T => i \in T
      <4> TAKE i \in 1 .. n
      <4> HAVE i - 1 \in T
      <4>0. i \in 0 .. n
        BY <1>1
      <4>1. CASE i = 1
        <5>1. n - (1 - 1) = n
          BY <1>1
        <5>2. Moves(p[n], us[1], p[n - 1])
          BY <1>4, <4>1, <5>1
        <5> QED BY <1>2, <2>2, <4>0, <4>1, <5>2
      <4>2. CASE i # 1
        <5>1. i \in 2 .. n /\ i - 1 # 0
          BY <1>1, <4>2
        <5>2. Moves(m, g[i - 1], p[n - (i - 1)])
          BY <5>1
        <5>3. Moves(m, g[i - 1] \o us[i], p[n - i])
          BY <1>4, <5>2, MovesOn
        <5> QED BY <2>2, <4>0, <5>1, <5>3
      <4> QED BY <4>1, <4>2
    <3> HIDE DEF T
    <3> QED BY <1>1, <3>1, <3>2, AlongInterval
  <2>4. Moves(m, g[n], p[n - n])
    BY <1>1, <1>8, <2>3
  <2> QED BY <2>2, <2>4, MovesMean DEF us
<1> QED BY <1>7, <1>8

-----------------------------------------------------------------------------
(* Fees *)

Collections == [ledger : Ledgers, updates : Seq(Updates)]

\* One fee goes to the fee account.
LEMMA AddFeeSound ==
  ASSUME NEW acc \in Collections, NEW fee \in Nat
  PROVE  LET next == AddFee(acc, fee)
         IN  /\ next \in Collections
             /\ Grows(acc.ledger, next.ledger)
             /\ SumBalances(next.ledger) = SumBalances(acc.ledger) + fee
             /\ \A l : Moves(l, acc.updates, acc.ledger) => Moves(l, next.updates, next.ledger)
<1> DEFINE k == acc.ledger
           credited == Credited(k[FeeAccountId], fee)
           m == Insert(k, FeeAccountId, credited)
           u == Moved(FeeAccountId, k[FeeAccountId], credited)
           next == AddFee(acc, fee)
<1>1. k \in Ledgers /\ acc.updates \in Seq(Updates) /\ FeeAccountId \in DOMAIN k
  BY LedgerFacts DEF Collections
<1>2. CASE fee = 0
  <2>1. next = acc
    BY <1>2 DEF AddFee
  <2>2. Grows(k, k) /\ SumBalances(k) \in Nat
    BY <1>1, GrowsNot, TotalOfTree
  <2> HIDE DEF next
  <2>3. /\ next \in Collections
        /\ Grows(k, next.ledger)
        /\ SumBalances(next.ledger) = SumBalances(k) + fee
        /\ \A l : Moves(l, acc.updates, k) => Moves(l, next.updates, next.ledger)
    BY <1>2, <2>1, <2>2
  <2> QED BY <2>3 DEF next
<1>3. CASE fee # 0
  <2>1. next = [ledger |-> m, updates |-> Append(acc.updates, u)]
    BY <1>3 DEF AddFee, Credited
  <2>2. next.ledger = m /\ next.updates = Append(acc.updates, u)
    BY <2>1
  <2>3. /\ m \in Ledgers /\ SumBalances(m) = SumBalances(k) + fee
        /\ Grows(k, m) /\ Moves(k, <<u>>, m)
    BY <1>1, Gets
  <2> HIDE DEF m, u
  <2>4. u \in Updates
    <3>1. <<u>> \in Seq(Updates)
      BY <2>3, PathFacts
    <3> QED BY <3>1
  <2>5. Append(acc.updates, u) \in Seq(Updates) /\ Append(acc.updates, u) = acc.updates \o <<u>>
    BY <1>1, <2>4, AppendProperties, AppendIsConcat
  <2>6. next \in Collections
    BY <2>1, <2>3, <2>5 DEF Collections
  <2> HIDE DEF next
  <2>7. \A l : Moves(l, acc.updates, k) => Moves(l, next.updates, next.ledger)
    BY <2>2, <2>3, <2>5, MovesOn
  <2>8. Grows(k, next.ledger) /\ SumBalances(next.ledger) = SumBalances(k) + fee
    BY <2>2, <2>3
  <2> QED BY <2>6, <2>7, <2>8 DEF next
<1> QED BY <1>2, <1>3

LEMMA AddFeeTyped ==
  ASSUME NEW acc \in Collections, NEW fee \in Nat
  PROVE  AddFee(acc, fee) \in Collections
BY AddFeeSound

CollectEquation(g, base, s) ==
  g = [d \in SUBSET DOMAIN s |-> IF d = {} THEN base ELSE AddFee(g[d \ {Max(d)}], s[Max(d)])]

LEMMA CollectUnfolds ==
  ASSUME NEW base, NEW s
  PROVE  FoldLeft(AddFee, base, s) = (CHOOSE g : CollectEquation(g, base, s))[DOMAIN s]
BY Zenon DEF FoldLeft, MapThenFoldSet, CollectEquation

CollectTrace(t, base, s) ==
  /\ t \in [0 .. Len(s) -> Collections] /\ t[0] = base
  /\ \A i \in 1 .. Len(s) : t[i] = AddFee(t[i - 1], s[i])

\* The fees are collected one after the other.
LEMMA CollectHasTrace ==
  ASSUME NEW base \in Collections, NEW s \in Seq(Nat)
  PROVE  \E t : CollectTrace(t, base, s) /\ FoldLeft(AddFee, base, s) = t[Len(s)]
<1> DEFINE n == Len(s)
           step == [p \in Collections \X (1 .. n) |-> AddFee(p[1], s[p[2]])]
           choose == [d \in SUBSET (1 .. n) |-> Max(d)]
           G == CHOOSE g : CollectEquation(g, base, s)
<1>0. n \in Nat /\ DOMAIN s = 1 .. n /\ IsFiniteSet(1 .. n) /\ \A i \in 1 .. n : s[i] \in Nat
  <2>1. n \in Nat /\ DOMAIN s = 1 .. n /\ \A i \in 1 .. n : s[i] \in Nat
    BY LenProperties, ElementOfSeq
  <2> QED BY <2>1, FS_Interval
<1>1. \A d \in SUBSET (1 .. n) : d # {} => choose[d] = Max(d) /\ Max(d) \in d
  BY <1>0, LastIsPicked
<1>2. step \in [Collections \X (1 .. n) -> Collections]
  <2>1. \A v \in Collections : \A i \in 1 .. n : AddFee(v, s[i]) \in Collections
    BY <1>0, AddFeeTyped
  <2> QED BY <2>1
<1>3. \A v \in Collections : \A i \in 1 .. n : step[<<v, i>>] = AddFee(v, s[i])
  OBVIOUS
<1> HIDE DEF n, step, choose
<1>4. PICK H : IsIterator(H, 1 .. n, Collections, base, choose, step)
  <2>1. \A d \in SUBSET (1 .. n) : d # {} => choose[d] \in d
    BY <1>1
  <2> QED BY ONLY base \in Collections, <1>0, <1>2, <2>1, IteratorExists
<1>5. CollectEquation(H, base, s)
  <2>1. H \in [SUBSET (1 .. n) -> Collections]
    BY <1>4 DEF IsIterator
  <2>2. \A d \in SUBSET (1 .. n) : d # {} =>
           step[<<H[d \ {choose[d]}], choose[d]>>] = AddFee(H[d \ {Max(d)}], s[Max(d)])
    <3> TAKE d \in SUBSET (1 .. n)
    <3> HAVE d # {}
    <3>1. choose[d] = Max(d) /\ Max(d) \in 1 .. n /\ H[d \ {Max(d)}] \in Collections
      BY <1>1, <2>1
    <3> QED BY <1>3, <3>1
  <2>3. H = [d \in SUBSET (1 .. n) |-> IF d = {} THEN base ELSE step[<<H[d \ {choose[d]}], choose[d]>>]]
    BY <1>4 DEF IsIterator
  <2>4. H = [d \in SUBSET (1 .. n) |->
               IF d = {} THEN base ELSE AddFee(H[d \ {Max(d)}], s[Max(d)])]
    BY <2>2, <2>3, Zenon
  <2> QED BY <1>0, <2>4 DEF CollectEquation
<1>6. CollectEquation(G, base, s)
  BY <1>5, Zenon
<1>7. FoldLeft(AddFee, base, s) = G[1 .. n]
  BY <1>0, CollectUnfolds, Zenon
<1> HIDE DEF G
<1>8. \A d \in SUBSET (1 .. n) :
         G[d] = IF d = {} THEN base ELSE AddFee(G[d \ {Max(d)}], s[Max(d)])
  BY <1>0, <1>6 DEF CollectEquation
<1>9. IsFold(G, n, Collections, base, step)
  <2>1. G[{}] = base
    BY <1>8
  <2>2. \A d \in SUBSET (1 .. n) : d # {} /\ G[d \ {Max(d)}] \in Collections =>
           G[d] = step[<<G[d \ {Max(d)}], Max(d)>>]
    BY <1>1, <1>3, <1>8
  <2> QED BY <2>1, <2>2 DEF IsFold
<1>10. PICK t : IsTrace(t, G, n, Collections, base, step)
  BY ONLY base \in Collections, <1>0, <1>2, <1>9, FoldHasTrace
<1>11. t \in [0 .. n -> Collections] /\ t[0] = base /\ G[1 .. n] = t[n]
  BY <1>10 DEF IsTrace
<1>12. \A i \in 1 .. n : t[i] = AddFee(t[i - 1], s[i])
  <2> TAKE i \in 1 .. n
  <2>1. t[i - 1] \in Collections /\ t[i] = step[<<t[i - 1], i>>]
    BY <1>0, <1>10 DEF IsTrace
  <2> QED BY <1>3, <2>1
<1> QED BY <1>7, <1>11, <1>12 DEF n, CollectTrace

\* collect_fee: the fee account gets the total.
LEMMA CollectSound ==
  ASSUME NEW l \in Ledgers, NEW fs \in Seq(Nat)
  PROVE  LET c == CollectFees(l, fs)
         IN  /\ c.ledger \in Ledgers /\ Moves(l, c.updates, c.ledger) /\ Grows(l, c.ledger)
             /\ SumBalances(c.ledger) = SumBalances(l) + Total(fs)
<1> DEFINE n == Len(fs)
           base == [ledger |-> l, updates |-> <<>>]
<1>1. n \in Nat /\ fs \in [1 .. n -> Nat]
  BY LenProperties
<1>2. base \in Collections /\ base.ledger = l /\ base.updates = <<>>
  BY EmptySeq DEF Collections
<1> HIDE DEF base
<1>3. PICK t : CollectTrace(t, base, fs) /\ FoldLeft(AddFee, base, fs) = t[n]
  BY <1>2, CollectHasTrace
<1> HIDE DEF n
<1>4. /\ t \in [0 .. n -> Collections] /\ t[0] = base
      /\ \A i \in 1 .. n : t[i] = AddFee(t[i - 1], fs[i])
  BY <1>3 DEF CollectTrace, n
<1>5. \A i \in 0 .. n : t[i] \in Collections /\ t[i].ledger \in Ledgers
  BY <1>4 DEF Collections
<1>6. \A i \in 1 .. n :
         /\ i - 1 \in 0 .. n /\ i \in 0 .. n
         /\ Grows(t[i - 1].ledger, t[i].ledger)
         /\ SumBalances(t[i].ledger) = SumBalances(t[i - 1].ledger) + fs[i]
         /\ Moves(l, t[i - 1].updates, t[i - 1].ledger) => Moves(l, t[i].updates, t[i].ledger)
  <2> TAKE i \in 1 .. n
  <2>1. i - 1 \in 0 .. n /\ i \in 0 .. n /\ fs[i] \in Nat /\ t[i - 1] \in Collections
    BY <1>1, <1>5
  <2> QED BY <1>4, <2>1, AddFeeSound
<1> DEFINE T == {i \in 0 .. n : Grows(l, t[i].ledger) /\ Moves(l, t[i].updates, t[i].ledger)}
<1>7. 0 .. n \subseteq T
  <2>1. 0 \in T
    <3>1. l \in Trees /\ 0 \in 0 .. n
      BY <1>1, LedgerFacts
    <3> QED BY <1>2, <1>4, <3>1, GrowsNot, MovesNot
  <2>2. \A i \in 1 .. n : i - 1 \in T => i \in T
    BY <1>5, <1>6, GrowsOn
  <2> HIDE DEF T
  <2> QED BY <1>1, <2>1, <2>2, AlongInterval
<1>8. n \in 0 .. n /\ Grows(l, t[n].ledger) /\ Moves(l, t[n].updates, t[n].ledger) /\ t[n].ledger \in Ledgers
  BY <1>1, <1>5, <1>7
<1>9. SumBalances(t[n].ledger) = SumBalances(l) + Total(fs)
  <2> DEFINE off == [i \in 0 .. n |-> SumBalances(t[i].ledger)]
  <2>1. \A i \in 0 .. n : off[i] = SumBalances(t[i].ledger) /\ off[i] \in Int
    <3> TAKE i \in 0 .. n
    <3>1. SumBalances(t[i].ledger) \in Nat
      BY <1>5, TotalOfTree
    <3> QED BY <3>1
  <2>2. AreSteps(fs, off, 0, n)
    <3> HIDE DEF off
    <3>1. fs \in [0 + 1 .. n -> Int] /\ 0 <= n /\ 0 \in Int /\ n \in Int
      BY <1>1
    <3>2. \A i \in 0 + 1 .. n : fs[i] = off[i] - off[i - 1]
      <4> TAKE i \in 0 + 1 .. n
      <4>1. i \in 1 .. n
        BY <1>1
      <4>2. i - 1 \in 0 .. n /\ i \in 0 .. n /\ off[i] = off[i - 1] + fs[i] /\ fs[i] \in Int
        BY <1>1, <1>6, <2>1, <4>1
      <4> QED BY <2>1, <4>2
    <3> QED BY <2>1, <3>1, <3>2 DEF AreSteps
  <2>3. SumFunction(fs) = off[n] - off[0]
    BY <2>2, SumOfSteps
  <2>4. off[0] = SumBalances(l) /\ off[n] = SumBalances(t[n].ledger) /\ off[0] \in Int /\ off[n] \in Int
    BY <1>1, <1>2, <1>4, <1>8, <2>1
  <2> HIDE DEF off
  <2>5. Total(fs) = SumFunction(fs) /\ Total(fs) \in Nat
    BY TotalIs
  <2> QED BY <2>3, <2>4, <2>5
<1>10. CollectFees(l, fs) = t[n]
  BY <1>3 DEF CollectFees, base, n
<1> QED BY <1>8, <1>9, <1>10

-----------------------------------------------------------------------------
(* The component *)

LEMMA BatchIsSeq ==
  ASSUME NEW txs \in Batches
  PROVE  txs \in Seq(AllTxs) /\ Range(txs) \subseteq AllTxs /\ Range(txs) = {txs[j] : j \in 1 .. Len(txs)}
<1>1. txs \in Seq(Range(txs))
  BY RequestsAssumption
<1>2. Range(txs) \subseteq AllTxs
  BY DEF AllTxs
<1>3. DOMAIN txs = 1 .. Len(txs) /\ Len(txs) \in Nat /\ txs \in [1 .. Len(txs) -> Range(txs)]
  BY <1>1, LenProperties
<1>4. txs \in [1 .. Len(txs) -> AllTxs]
  BY <1>2, <1>3
<1>5. txs \in Seq(AllTxs)
  BY <1>3, <1>4, SeqDef
<1>6. Range(txs) = {txs[j] : j \in 1 .. Len(txs)}
  BY <1>3, RangeIsImage
<1> QED BY <1>2, <1>5, <1>6

\* execute_txs_batch: all the transactions take effect, or none does.
LEMMA BatchSound ==
  ASSUME NEW l \in Ledgers, NEW txs \in Seq(AllTxs)
  PROVE  LET run == ExecuteBatch(l, txs)
         IN  /\ run.ledger \in Ledgers /\ Grows(l, run.ledger)
             /\ FeesOf(run.results) \in Seq(Nat) /\ OutsOf(run.results) \in Seq(Nat)
             /\ SumBalances(l) = SumBalances(run.ledger) + Total(FeesOf(run.results))
                                   + Total(OutsOf(run.results))
             /\ run.ok => \A j \in 1 .. Len(txs) : UsedUp(run.ledger, txs[j])
             /\ ~ run.ok => run.ledger = l
<1> DEFINE first == BatchPrefix(l, txs)
           run == ExecuteBatch(l, txs)
<1>1. RunSound(l, txs, Len(txs), first)
  BY PrefixSound
<1> HIDE DEF first
<1>2. first.ledger \in Ledgers /\ first.results \in Seq(Results)
  BY <1>1 DEF RunSound, Runs
<1>3. CASE first.ok
  <2>1. run = first
    BY <1>3 DEF ExecuteBatch, first
  <2>2. FeesOf(first.results) \in Seq(Nat) /\ OutsOf(first.results) \in Seq(Nat)
    <3>1. CASE first.results = <<>>
      <4>1. FeesOf(<<>>) = <<>> /\ OutsOf(<<>>) = <<>>
        BY DEF FeesOf, OutsOf
      <4> QED BY <3>1, <4>1, EmptySeq
    <3>2. CASE first.results # <<>>
      <4>1. PICK r : r \in Results
        <5>1. Len(first.results) # 0 /\ Len(first.results) \in Nat
          BY <1>2, <3>2, EmptySeq
        <5> QED BY <1>2, <5>1, ElementOfSeq
      <4> QED BY <1>2, <4>1, ResultsAppend
    <3> QED BY <3>1, <3>2
  <2> HIDE DEF run
  <2>3. /\ run.ledger \in Ledgers /\ Grows(l, run.ledger)
        /\ FeesOf(run.results) \in Seq(Nat) /\ OutsOf(run.results) \in Seq(Nat)
        /\ SumBalances(l) = SumBalances(run.ledger) + Total(FeesOf(run.results))
                              + Total(OutsOf(run.results))
        /\ run.ok => \A j \in 1 .. Len(txs) : UsedUp(run.ledger, txs[j])
        /\ ~ run.ok => run.ledger = l
    BY <1>1, <1>2, <1>3, <2>1, <2>2 DEF RunSound
  <2> QED BY <2>3 DEF run
<1>4. CASE ~ first.ok
  <2>1. Undo(first.ledger, [k \in DOMAIN first.results |-> first.results[k].updates]) = l
    BY <1>1, <1>2, UndoRestores DEF RunSound
  <2>2. run = [ok |-> FALSE, results |-> <<>>,
               ledger |-> Undo(first.ledger, [k \in DOMAIN first.results |-> first.results[k].updates])]
    BY <1>4 DEF ExecuteBatch, first
  <2>3. run.ok = FALSE /\ run.results = <<>> /\ run.ledger = l
    BY <2>1, <2>2
  <2>4. FeesOf(<<>>) = <<>> /\ OutsOf(<<>>) = <<>> /\ <<>> \in Seq(Nat)
    BY EmptySeq DEF FeesOf, OutsOf
  <2>5. Grows(l, l) /\ SumBalances(l) \in Nat
    BY GrowsNot, TotalOfTree
  <2>6. SumBalances(l) = SumBalances(l) + Total(<<>>) + Total(<<>>)
    BY <2>5, TotalOfNone
  <2> HIDE DEF run
  <2>7. /\ run.ledger \in Ledgers /\ Grows(l, run.ledger)
        /\ FeesOf(run.results) \in Seq(Nat) /\ OutsOf(run.results) \in Seq(Nat)
        /\ SumBalances(l) = SumBalances(run.ledger) + Total(FeesOf(run.results))
                              + Total(OutsOf(run.results))
        /\ run.ok => \A j \in 1 .. Len(txs) : UsedUp(run.ledger, txs[j])
        /\ ~ run.ok => run.ledger = l
    BY <2>3, <2>4, <2>5, <2>6
  <2> QED BY <2>7 DEF run
<1> QED BY <1>3, <1>4

\* The trees a batch goes through, one transaction after the other.
IsExecution(p, l, txs, run) ==
  /\ p \in [0 .. Len(txs) -> Ledgers] /\ p[0] = l /\ p[Len(txs)] = run.ledger
  /\ run.results \in Seq(Results) /\ Len(run.results) = Len(txs)
  /\ \A k \in 1 .. Len(txs) :
        /\ run.results[k] = ExecuteTx(p[k - 1], txs[k])
        /\ run.results[k].ok /\ p[k] = run.results[k].ledger

\* The results of a batch are those of its transactions in their order; when one of
\* them fails there are none, and the tree is as before.
LEMMA BatchSteps ==
  ASSUME NEW l \in Ledgers, NEW txs \in Seq(AllTxs)
  PROVE  LET run == ExecuteBatch(l, txs)
         IN  /\ \/ \E p : IsExecution(p, l, txs, run)
                \/ /\ txs # <<>> /\ run.results = <<>> /\ run.ledger = l
                   /\ Len(txs) = 1 => ~ ExecuteTx(l, txs[1]).ok
<1> DEFINE n == Len(txs)
           base == [ok |-> TRUE, ledger |-> l, results |-> <<>>]
           first == BatchPrefix(l, txs)
           run == ExecuteBatch(l, txs)
<1>0. n \in Nat
  BY LenProperties
<1>1. base \in Runs /\ base.ok = TRUE /\ base.ledger = l /\ base.results = <<>>
  BY EmptySeq DEF Runs
<1> HIDE DEF base
<1>2. PICK t : BatchTrace(t, base, txs) /\ FoldLeft(BatchStep, base, txs) = t[n]
  BY <1>1, BatchHasTrace
<1>3. /\ t \in [0 .. n -> Runs] /\ t[0] = base
      /\ \A i \in 1 .. n : t[i] = BatchStep(t[i - 1], txs[i])
  BY <1>2 DEF BatchTrace
<1>4. first = t[n]
  BY <1>2 DEF BatchPrefix, base
<1> HIDE DEF first
<1>5. \A i \in 0 .. n : /\ t[i] \in Runs /\ t[i].ledger \in Ledgers
                        /\ t[i].results \in Seq(Results) /\ Len(t[i].results) \in Nat
  <2> TAKE i \in 0 .. n
  <2>1. t[i] \in Runs
    BY <1>3
  <2>2. t[i].ledger \in Ledgers /\ t[i].results \in Seq(Results)
    BY <2>1 DEF Runs
  <2> QED BY <2>1, <2>2, LenProperties
<1> DEFINE Result(k) == ExecuteTx(t[k - 1].ledger, txs[k])
           Done(i) == /\ Len(t[i].results) = i
                      /\ \A k \in 1 .. i : /\ t[i].results[k] = Result(k) /\ Result(k).ok
                                           /\ t[k].ledger = Result(k).ledger
           T == {i \in 0 .. n : t[i].ok => Done(i)}
<1>6. \A i \in 1 .. n : /\ i - 1 \in 0 .. n /\ i \in 0 .. n
                        /\ Result(i) \in Results
                        /\ t[i].ok => /\ t[i - 1].ok /\ Result(i).ok
                                      /\ t[i].ledger = Result(i).ledger
                                      /\ t[i].results = Append(t[i - 1].results, Result(i))
                        /\ t[i - 1].ok /\ Result(i).ok => t[i].ok
  <2> TAKE i \in 1 .. n
  <2> DEFINE acc == t[i - 1]
             r == ExecuteTx(acc.ledger, txs[i])
  <2>1. i - 1 \in 0 .. n /\ i \in 0 .. n /\ txs[i] \in AllTxs
    BY <1>0, ElementOfSeq
  <2>2. acc \in Runs /\ acc.ledger \in Ledgers /\ t[i] = BatchStep(acc, txs[i])
    BY <1>3, <1>5, <2>1
  <2>3. r \in Results
    BY <2>1, <2>2, ExecuteTxSound DEF Sound
  <2>4. BatchStep(acc, txs[i]) =
          IF ~ acc.ok THEN acc
          ELSE IF ~ r.ok THEN [acc EXCEPT !.ok = FALSE]
          ELSE [acc EXCEPT !.ledger = r.ledger, !.results = Append(@, r)]
    BY DEF BatchStep
  <2> HIDE DEF acc, r
  <2>5. t[i].ok => /\ acc.ok /\ r.ok /\ t[i].ledger = r.ledger
                   /\ t[i].results = Append(acc.results, r)
    BY <2>2, <2>4 DEF Runs
  <2>6. acc.ok /\ r.ok => t[i].ok
    BY <2>2, <2>4 DEF Runs
  <2> QED BY <2>1, <2>3, <2>5, <2>6 DEF acc, r
<1> HIDE DEF Result
<1>7. 0 \in T
  <2>1. t[0].results = <<>> /\ Len(<<>>) = 0
    BY <1>1, <1>3, EmptySeq
  <2> QED BY <1>0, <2>1
<1>8. \A i \in 1 .. n : i - 1 \in T => i \in T
  <2> SUFFICES ASSUME NEW i \in 1 .. n, t[i - 1].ok => Done(i - 1), t[i].ok
               PROVE  Done(i)
    BY <1>6
  <2>1. /\ i - 1 \in 0 .. n /\ Result(i) \in Results /\ Result(i).ok
        /\ t[i].ledger = Result(i).ledger
        /\ t[i].results = Append(t[i - 1].results, Result(i))
        /\ t[i - 1].ok
    BY <1>6
  <2>2. Done(i - 1)
    BY <2>1
  <2>3. t[i - 1].results \in Seq(Results) /\ Len(t[i - 1].results) = i - 1
    BY <1>5, <2>1, <2>2
  <2>4. /\ Len(t[i].results) = (i - 1) + 1 /\ t[i].results[(i - 1) + 1] = Result(i)
        /\ \A k \in 1 .. i - 1 : t[i].results[k] = t[i - 1].results[k]
    BY <2>1, <2>3, AppendProperties
  <2>5. (i - 1) + 1 = i /\ \A k \in 1 .. i : k \in 1 .. i - 1 \/ k = i
    BY <1>0
  <2> QED BY <2>1, <2>2, <2>4, <2>5
<1>9. n \in T
  <2> HIDE DEF T
  <2>1. 0 .. n \subseteq T
    BY <1>0, <1>7, <1>8, AlongInterval
  <2> QED BY <1>0, <2>1
<1>10. CASE first.ok
  <2>1. run = first
    BY <1>10 DEF ExecuteBatch, first
  <2>2. Done(n)
    BY <1>4, <1>9, <1>10
  <2> DEFINE p == [k \in 0 .. n |-> t[k].ledger]
  <2>3. p \in [0 .. n -> Ledgers] /\ p[0] = l /\ p[n] = first.ledger
    BY <1>0, <1>1, <1>3, <1>4, <1>5
  <2>4. \A k \in 1 .. n : p[k - 1] = t[k - 1].ledger /\ p[k] = t[k].ledger
    BY <1>6
  <2> HIDE DEF p, run
  <2>5. first.results \in Seq(Results) /\ Len(first.results) = n
    BY <1>0, <1>4, <1>5, <2>2
  <2>6. \A k \in 1 .. n : /\ first.results[k] = ExecuteTx(p[k - 1], txs[k])
                          /\ first.results[k].ok /\ p[k] = first.results[k].ledger
    BY <1>4, <2>2, <2>4 DEF Result
  <2>7. IsExecution(p, l, txs, run)
    BY <2>1, <2>3, <2>5, <2>6 DEF IsExecution
  <2> QED BY <2>7 DEF run
<1>11. CASE ~ first.ok
  <2>1. run.results = <<>> /\ run.ok = FALSE
    BY <1>11 DEF ExecuteBatch, first
  <2>2. run.ledger = l
    <3>1. ~ run.ok => run.ledger = l
      BY BatchSound
    <3> QED BY <2>1, <3>1
  <2>3. n # 0
    BY <1>1, <1>3, <1>4, <1>11
  <2>4. txs # <<>>
    BY <2>3, EmptySeq
  <2>5. ASSUME n = 1 PROVE ~ ExecuteTx(l, txs[1]).ok
    <3>1. 1 \in 1 .. n /\ 1 - 1 = 0
      BY <2>5
    <3>2. t[0].ok /\ Result(1).ok => t[1].ok
      BY <1>6, <3>1
    <3>3. ~ Result(1).ok
      BY <1>1, <1>3, <1>4, <1>11, <2>5, <3>2
    <3> QED BY <1>1, <1>3, <3>1, <3>3 DEF Result
  <2> QED BY <2>1, <2>2, <2>4, <2>5
<1> QED BY <1>10, <1>11

\* The inductive invariant: the tree is a ledger, nothing is lost, and the nonce of
\* every executed transaction is used up.
IInv ==
  /\ accounts \in Ledgers
  /\ fees \in Seq(Nat) /\ deposited \in Nat /\ withdrawn \in Nat
  /\ executed \subseteq AllTxs
  /\ Conservation
  /\ \A tx \in executed : UsedUp(accounts, tx)

LEMMA GenesisIsLedger == Genesis \in Ledgers
<1> USE DEF IsGenesis
<1> DEFINE c == Cardinality(DOMAIN Genesis)
<1>1. c \in Nat /\ FeeAccountId \in 0 .. c - 1 /\ DOMAIN Genesis = 0 .. c - 1
  <2>1. c \in Nat
    BY GenesisAssumption, FS_CardinalityType
  <2>2. DOMAIN Genesis = 0 .. c - 1
    BY GenesisAssumption
  <2> QED BY <2>1, <2>2, GenesisAssumption
<1> HIDE DEF c
<1>2. c - 1 \in Nat
  BY <1>1
<1>3. Genesis \in [0 .. c - 1 -> Account]
  <2>1. \A i \in 0 .. c - 1 : /\ Genesis[i].address \in Addresses /\ Genesis[i].key \in Keys
                              /\ Genesis[i].nonce \in Nat /\ Genesis[i].balance \in Nat
    BY <1>1, GenesisAssumption DEF Addresses, Keys
  <2>2. Genesis = [i \in 0 .. c - 1 |->
                     [address |-> Genesis[i].address, nonce |-> Genesis[i].nonce,
                      key |-> Genesis[i].key, balance |-> Genesis[i].balance]]
    BY GenesisAssumption DEF c
  <2> DEFINE A(i) == [address |-> Genesis[i].address, nonce |-> Genesis[i].nonce,
                      key |-> Genesis[i].key, balance |-> Genesis[i].balance]
  <2>3. \A i \in 0 .. c - 1 : A(i) \in Account
    BY <2>1 DEF Account
  <2>4. Genesis = [i \in 0 .. c - 1 |-> A(i)]
    BY <2>2
  <2> HIDE DEF A
  <2> QED BY <2>3, <2>4
<1>4. Distinct(Genesis)
  BY GenesisAssumption DEF Distinct
<1> QED BY <1>1, <1>2, <1>3, <1>4, LedgerIs

LEMMA InitIInv == Init => IInv
<1> SUFFICES ASSUME Init
             PROVE  IInv
  OBVIOUS
<1>1. accounts = Genesis /\ fees = <<>> /\ deposited = SumBalances(Genesis) /\ withdrawn = 0 /\ executed = {}
  BY DEF Init
<1>2. SumBalances(Genesis) \in Nat
  BY GenesisIsLedger, TotalOfTree
<1>3. Conservation
  BY <1>1, <1>2, TotalOfNone DEF Conservation
<1> QED BY <1>1, <1>2, <1>3, GenesisIsLedger, EmptySeq DEF IInv

\* The total after a call: what it brought is on an account, a fee, or out.
LEMMA Balanced ==
  ASSUME Conservation, accounts \in Ledgers, accounts' \in Ledgers, fees \in Seq(Nat),
         NEW fs \in Seq(Nat), NEW out \in Nat, NEW brought \in Nat,
         deposited \in Nat, withdrawn \in Nat,
         SumBalances(accounts') + Total(fs) + out = SumBalances(accounts) + brought,
         fees' = fees \o fs, withdrawn' = withdrawn + out, deposited' = deposited + brought
  PROVE  Conservation' /\ fees' \in Seq(Nat) /\ withdrawn' \in Nat /\ deposited' \in Nat
<1> DEFINE a == SumBalances(accounts)
           b == SumBalances(accounts')
           f == Total(fees)
           g == Total(fs)
<1>1. a \in Nat /\ b \in Nat /\ f \in Nat /\ g \in Nat
  BY TotalOfTree, TotalIs
<1>2. fees' \in Seq(Nat) /\ Total(fees') = f + g
  BY TotalConcatenates, ConcatProperties
<1>3. deposited = a + f + withdrawn /\ b + g + out = a + brought
  BY DEF Conservation
<1>4. Conservation' <=> deposited' = b + Total(fees') + withdrawn'
  BY DEF Conservation
<1> HIDE DEF a, b, f, g
<1> QED BY <1>1, <1>2, <1>3, <1>4

LEMMA NextIInv == IInv /\ [Next]_vars => IInv'
<1> SUFFICES ASSUME IInv, [Next]_vars
             PROVE  IInv'
  OBVIOUS
<1>0. /\ accounts \in Ledgers /\ fees \in Seq(Nat) /\ deposited \in Nat /\ withdrawn \in Nat
      /\ executed \subseteq AllTxs /\ Conservation
      /\ \A tx \in executed : UsedUp(accounts, tx)
  BY DEF IInv
<1>1. ASSUME NEW tx \in Txs, Tx(tx)
      PROVE  IInv'
  <2> DEFINE r == ExecuteTx(accounts, tx)
  <2>1. /\ r.ok /\ accounts' = r.ledger /\ fees' = Append(fees, r.fee)
        /\ withdrawn' = withdrawn + r.out /\ executed' = executed \cup {tx}
        /\ deposited' = deposited
    BY <1>1 DEF Tx
  <2>2. tx \in AllTxs
    BY DEF AllTxs
  <2>3. Sound(accounts, 0, r) /\ UsedUp(r.ledger, tx)
    BY <1>0, <2>1, <2>2, ExecuteTxSound, SuccessUsesUp
  <2> HIDE DEF r
  <2>4. /\ r.ledger \in Ledgers /\ r.fee \in Nat /\ r.out \in Nat /\ Grows(accounts, r.ledger)
        /\ SumBalances(r.ledger) + r.fee + r.out = SumBalances(accounts) + 0
    BY <2>3 DEF Sound, Results
  <2>5. Conservation' /\ fees' \in Seq(Nat) /\ withdrawn' \in Nat /\ deposited' \in Nat
    <3> DEFINE fs == <<r.fee>>
    <3>1. fs \in Seq(Nat) /\ fees' = fees \o fs
      BY <1>0, <2>1, <2>4, AppendIsConcat
    <3>2. Total(fs) = r.fee
      <4>1. Append(<<>>, r.fee) = fs /\ <<>> \in Seq(Nat)
        BY <2>4, EmptySeq
      <4>2. Total(Append(<<>>, r.fee)) = Total(<<>>) + r.fee
        BY <2>4, <4>1, TotalAppends
      <4> QED BY <2>4, <4>1, <4>2, TotalOfNone
    <3> HIDE DEF fs
    <3>3. /\ SumBalances(accounts') + Total(fs) + r.out = SumBalances(accounts) + 0
          /\ deposited' = deposited + 0 /\ 0 \in Nat
      BY <1>0, <2>1, <2>4, <3>2
    <3> QED BY <1>0, <2>1, <2>4, <3>1, <3>3, Balanced
  <2>6. \A t \in executed' : UsedUp(accounts', t)
    BY <1>0, <2>1, <2>2, <2>3, <2>4, UsedUpStays
  <2>7. executed' \subseteq AllTxs /\ accounts' \in Ledgers
    BY <1>0, <2>1, <2>2, <2>4
  <2> QED BY <2>5, <2>6, <2>7 DEF IInv
<1>2. ASSUME NEW txs \in Batches, Batch(txs)
      PROVE  IInv'
  <2> DEFINE run == ExecuteBatch(accounts, txs)
  <2>1. txs \in Seq(AllTxs) /\ Range(txs) \subseteq AllTxs /\ Range(txs) = {txs[j] : j \in 1 .. Len(txs)}
    BY BatchIsSeq
  <2>2. /\ accounts' = run.ledger /\ fees' = fees \o FeesOf(run.results)
        /\ withdrawn' = withdrawn + Total(OutsOf(run.results))
        /\ executed' = IF run.ok THEN executed \cup Range(txs) ELSE executed
        /\ deposited' = deposited
    BY <1>2 DEF Batch, OutsOf
  <2>3. /\ run.ledger \in Ledgers /\ Grows(accounts, run.ledger)
        /\ FeesOf(run.results) \in Seq(Nat) /\ OutsOf(run.results) \in Seq(Nat)
        /\ SumBalances(accounts) = SumBalances(run.ledger) + Total(FeesOf(run.results))
                                     + Total(OutsOf(run.results))
        /\ run.ok => \A j \in 1 .. Len(txs) : UsedUp(run.ledger, txs[j])
    BY <1>0, <2>1, BatchSound
  <2> HIDE DEF run
  <2>4. Conservation' /\ fees' \in Seq(Nat) /\ withdrawn' \in Nat /\ deposited' \in Nat
    <3> DEFINE fs == FeesOf(run.results)
               out == Total(OutsOf(run.results))
    <3>1. fs \in Seq(Nat) /\ out \in Nat
      BY <2>3, TotalIs
    <3>2. /\ SumBalances(accounts') + Total(fs) + out = SumBalances(accounts) + 0
          /\ deposited' = deposited + 0 /\ 0 \in Nat
      <4>1. SumBalances(accounts) \in Nat
        BY <1>0, TotalOfTree
      <4> QED BY <1>0, <2>2, <2>3, <4>1
    <3>3. fees' = fees \o fs /\ withdrawn' = withdrawn + out
      BY <2>2
    <3>4. accounts' \in Ledgers
      BY <2>2, <2>3
    <3> HIDE DEF fs, out
    <3> QED BY <1>0, <3>1, <3>2, <3>3, <3>4, Balanced
  <2>5. \A t \in executed' : UsedUp(accounts', t)
    <3> TAKE t \in executed'
    <3>1. CASE t \in executed
      BY <1>0, <2>2, <2>3, <3>1, UsedUpStays
    <3>2. CASE t \notin executed
      <4>1. run.ok /\ t \in Range(txs)
        BY <2>2, <3>2
      <4>2. PICK j \in 1 .. Len(txs) : t = txs[j]
        BY <2>1, <4>1
      <4> QED BY <2>2, <2>3, <4>1, <4>2
    <3> QED BY <3>1, <3>2
  <2>6. executed' \subseteq AllTxs /\ accounts' \in Ledgers
    BY <1>0, <2>1, <2>2, <2>3
  <2> QED BY <2>4, <2>5, <2>6 DEF IInv
<1>3. ASSUME NEW op \in PriorityOps, PriorityOp(op)
      PROVE  IInv'
  <2> DEFINE r == ExecutePriorityOp(accounts, op)
  <2>1. /\ accounts' = r.ledger /\ fees' = fees /\ executed' = executed
        /\ deposited' = IF op.kind = "Deposit" THEN deposited + op.amount ELSE deposited
        /\ withdrawn' = withdrawn + r.out
    BY <1>3 DEF PriorityOp
  <2>2. Sound(accounts, Brought(op), r) /\ Brought(op) \in Nat
    BY <1>0, PriorityOpSound
  <2>3. r.fee = 0
    BY PriorityIsFree, <1>0
  <2>4. deposited' = deposited + Brought(op)
    BY <1>0, <2>1 DEF Brought
  <2> HIDE DEF r
  <2>5. /\ r.ledger \in Ledgers /\ r.out \in Nat /\ Grows(accounts, r.ledger)
        /\ SumBalances(r.ledger) + r.fee + r.out = SumBalances(accounts) + Brought(op)
    BY <2>2 DEF Sound, Results
  <2>6. Conservation' /\ fees' \in Seq(Nat) /\ withdrawn' \in Nat /\ deposited' \in Nat
    <3>1. <<>> \in Seq(Nat) /\ fees' = fees \o <<>>
      BY <1>0, <2>1, EmptySeq, ConcatEmptySeq
    <3>2. SumBalances(accounts') + Total(<<>>) + r.out = SumBalances(accounts) + Brought(op)
      BY <2>1, <2>3, <2>5, TotalOfNone
    <3>3. accounts' \in Ledgers /\ withdrawn' = withdrawn + r.out /\ r.out \in Nat
      BY <2>1, <2>5
    <3> QED BY <1>0, <2>2, <2>4, <3>1, <3>2, <3>3, Balanced
  <2>7. \A t \in executed' : UsedUp(accounts', t)
    BY <1>0, <2>1, <2>5, UsedUpStays
  <2> QED BY <1>0, <2>1, <2>5, <2>6, <2>7 DEF IInv
<1>4. CASE CollectFee
  <2> DEFINE c == CollectFees(accounts, fees)
  <2>1. /\ accounts' = c.ledger /\ fees' = <<>> /\ deposited' = deposited
        /\ withdrawn' = withdrawn /\ executed' = executed
    BY <1>4 DEF CollectFee
  <2>2. /\ c.ledger \in Ledgers /\ Grows(accounts, c.ledger)
        /\ SumBalances(c.ledger) = SumBalances(accounts) + Total(fees)
    BY <1>0, CollectSound
  <2> HIDE DEF c
  <2>3. Conservation'
    <3>1. SumBalances(accounts) \in Nat /\ Total(fees) \in Nat
      BY <1>0, TotalOfTree, TotalIs
    <3>2. deposited = SumBalances(accounts) + Total(fees) + withdrawn
      BY <1>0 DEF Conservation
    <3>3. Total(fees') = 0 /\ SumBalances(accounts') = SumBalances(accounts) + Total(fees)
      BY <2>1, <2>2, TotalOfNone
    <3>4. deposited' = SumBalances(accounts') + Total(fees') + withdrawn'
      BY <1>0, <2>1, <3>1, <3>2, <3>3
    <3> QED BY <3>4 DEF Conservation
  <2>4. \A t \in executed' : UsedUp(accounts', t)
    BY <1>0, <2>1, <2>2, UsedUpStays
  <2> QED BY <1>0, <2>1, <2>2, <2>3, <2>4, EmptySeq DEF IInv
<1>5. CASE UNCHANGED vars
  BY <1>0, <1>5 DEF vars, IInv, Conservation, UsedUp
<1> QED BY <1>1, <1>2, <1>3, <1>4, <1>5 DEF Next

\* IInv holds in every state of the component.
THEOREM InvHolds == Spec => []IInv
<1>1. Init => IInv
  BY InitIInv
<1>2. IInv /\ [Next]_vars => IInv'
  BY NextIInv
<1> QED BY <1>1, <1>2, PTL DEF Spec

\* The free id is the number of accounts, and no two accounts share an address, also
\* after a failed batch has deleted the accounts it created (get_free_account_id).
THEOREM StateWellFormed == Spec => []WellFormed
<1>1. IInv => WellFormed
  <2> SUFFICES ASSUME IInv
               PROVE  WellFormed
    OBVIOUS
  <2>1. /\ accounts \in Ledgers /\ fees \in Seq(Nat) /\ deposited \in Nat /\ withdrawn \in Nat
        /\ executed \subseteq AllTxs
    BY DEF IInv
  <2>2. DOMAIN accounts = 0 .. Cardinality(DOMAIN accounts) - 1 /\ Distinct(accounts)
    BY <2>1, LedgerFacts DEF FreeId
  <2>3. \A i \in DOMAIN accounts : accounts[i].balance \in Nat /\ accounts[i].nonce \in Nat
    BY <2>1, LedgerFacts, AccountFields
  <2>4. \A k \in DOMAIN fees : fees[k] \in Nat
    BY <2>1
  <2>5. TypeOK
    BY <2>1, <2>3, <2>4 DEF TypeOK, AllTxs
  <2> QED BY <2>2, <2>5 DEF WellFormed, IdsDense, Distinct
<1> QED BY <1>1, InvHolds, PTL

\* Whatever is executed, no amount is created or lost.
THEOREM StateConserves == Spec => []Conservation
<1>1. IInv => Conservation
  BY DEF IInv
<1> QED BY <1>1, InvHolds, PTL

\* No transaction takes effect twice ("Nonce mismatch").
THEOREM StateNeverReplays == Spec => []NoReplay
<1>1. IInv => NoReplay
  BY UsedUpFails DEF IInv, NoReplay
<1> QED BY <1>1, InvHolds, PTL

\* execute_txs_batch takes a failed batch back without a panic and without a trace.
THEOREM StateUndoesBatches == Spec => []BatchUndone
<1>1. IInv => BatchUndone
  <2> SUFFICES ASSUME accounts \in Ledgers
               PROVE  BatchUndone
    BY DEF IInv
  <2>1. FailedBatchRestores
    <3>1. ASSUME NEW txs \in Batches, ~ ExecuteBatch(accounts, txs).ok
          PROVE  ExecuteBatch(accounts, txs).ledger = accounts
      BY <3>1, BatchIsSeq, BatchSound
    <3> QED BY <3>1 DEF FailedBatchRestores
  <2>2. UndoNeverPanics
    <3>1. ASSUME NEW txs \in Batches
          PROVE  LET run == BatchPrefix(accounts, txs)
                 IN  Undoable(run.ledger, FlattenSeq([k \in DOMAIN run.results |->
                                 ReverseUpdates(Reverse(run.results)[k].updates)]))
      <4> DEFINE run == BatchPrefix(accounts, txs)
      <4>1. RunSound(accounts, txs, Len(txs), run)
        BY BatchIsSeq, PrefixSound
      <4> HIDE DEF run
      <4>2. run.ledger \in Ledgers /\ run.results \in Seq(Results)
            /\ \E p : IsWay(p, accounts, run.results, run.ledger)
        BY <4>1 DEF RunSound, Runs
      <4>3. Undoable(run.ledger, FlattenSeq([k \in DOMAIN run.results |->
                        ReverseUpdates(Reverse(run.results)[k].updates)]))
        BY <4>2, UndoFits
      <4> QED BY <4>3 DEF run
    <3> QED BY <3>1 DEF UndoNeverPanics
  <2> QED BY <2>1, <2>2 DEF BatchUndone
<1> QED BY <1>1, InvHolds, PTL

\* The updates an execution reports lead from the old tree to the new one: who
\* follows the state by them, as the database does, has the same tree.
THEOREM StateUpdatesTell == Spec => []UpdatesTell
<1>1. IInv => UpdatesTell
  <2> SUFFICES ASSUME accounts \in Ledgers, fees \in Seq(Nat)
               PROVE  UpdatesTell
    BY DEF IInv
  <2>1. ASSUME NEW tx \in Txs
        PROVE  /\ Undoable(accounts, ExecuteTx(accounts, tx).updates)
               /\ ApplyUpdates(accounts, ExecuteTx(accounts, tx).updates) = ExecuteTx(accounts, tx).ledger
    <3>1. tx \in AllTxs
      BY DEF AllTxs
    <3> QED BY <3>1, ExecuteTxSound, MovesMean DEF Sound
  <2>2. ASSUME NEW op \in PriorityOps
        PROVE  ApplyUpdates(accounts, ExecutePriorityOp(accounts, op).updates)
                 = ExecutePriorityOp(accounts, op).ledger
    BY PriorityOpSound, MovesMean DEF Sound
  <2>3. ApplyUpdates(accounts, CollectFees(accounts, fees).updates) = CollectFees(accounts, fees).ledger
    BY CollectSound, MovesMean
  <2> QED BY <2>1, <2>2, <2>3 DEF UpdatesTell
<1> QED BY <1>1, InvHolds, PTL
=============================================================================
