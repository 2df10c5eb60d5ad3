---------------------------- MODULE Blocks_proofs ----------------------------
(***************************************************************************)
(* Theorems about what blocks contain, part two of StateKeeper_proofs: the *)
(* tables, the channel and the keeper follow each other through crashes    *)
(* and restarts.                                                           *)
(*                                                                         *)
(* The operations of the blocks are one run of the state library.  FInv    *)
(* says which part of it is in the tables, which is on the way to them and *)
(* which is in the open block; BInv says that batches stay together.       *)
(***************************************************************************)
EXTENDS StateKeeper_proofs

-----------------------------------------------------------------------------
(* The frontier: what is sealed, and the block that is open behind it *)

\* The operations are numbered by their places.
Indexed(ops) == \A k \in 1 .. Len(ops) : ops[k].index = k - 1

\* No transaction comes twice in the blocks, all are used up, and the priority
\* operations are older than number n.
OnceAmong(line) ==
  \A n, m \in DOMAIN line : \A i \in TxsOf(line[n]), j \in TxsOf(line[m]) :
     line[n][i].tx = line[m][j].tx => n = m /\ i = j
UsedAll(l, line) == \A n \in DOMAIN line : Used(l, line[n])
IdsBelow(line, n) ==
  \A k \in DOMAIN line : \A i \in DOMAIN line[k] : line[k][i].type # "tx" => line[k][i].id < n

\* The sealed blocks, the accounts and the number of the next priority operation
\* behind them, the operations of the open block and the point they lead to.
Frontiers == [line : Lines, base : Ledgers, before : Nat, ops : Seq(Ops), at : Points]

Start(f) == Point(f.base, <<>>, f.before)

Sound(f) ==
  /\ f \in Frontiers /\ Runs(Start(f), f.ops, f.at)
  /\ OnceAmong(f.line) /\ UsedAll(f.base, f.line) /\ IdsBelow(f.line, f.before)
  /\ Indexed(f.ops) /\ \A n \in DOMAIN f.line : Indexed(f.line[n])

\* The request that stores ops, with updates us of the keeper's own at the end.
Stores(f, r, new, p, us) ==
  /\ Runs(f.at, new, p) /\ r.success = f.ops \o new /\ Indexed(r.success)
  /\ r.number = Len(f.line) + 1
  /\ r.toStore.first = Len(f.at.updates)
  /\ \E vs \in Seq(Updates) : p.updates = f.at.updates \o vs /\ r.toStore.updates = vs \o us

\* A pending block moves the frontier on in its block, a sealed one behind it.
Advances(f, r, g) ==
  \/ /\ r.type = "PendingBlock"
     /\ \E new, p : /\ Stores(f, r, new, p, <<>>)
                    /\ g = [f EXCEPT !.ops = r.success, !.at = p]
  \/ /\ r.type = "Block"
     /\ \E new, p, us :
           /\ Stores(f, r, new, p, us) /\ Leads(p.ledger, us, r.root)
           /\ r.before = f.before /\ r.after = p.next
           /\ g = [line |-> Append(f.line, r.success), base |-> r.root, before |-> r.after,
                   ops |-> <<>>, at |-> Point(r.root, <<>>, r.after)]

\* Where the open block of a frontier starts.
LEMMA StartFacts ==
  ASSUME NEW f \in Frontiers
  PROVE  /\ Start(f) \in Points /\ Start(f).ledger = f.base /\ Start(f).updates = <<>>
         /\ Start(f).next = f.before
<1> DEFINE none == <<>>
<1>1. f.base \in Ledgers /\ none \in Seq(Updates) /\ f.before \in Nat
  BY EmptySeq DEF Frontiers
<1>2. Start(f) = Point(f.base, none, f.before)
  BY DEF Start
<1> HIDE DEF none
<1>3. /\ Start(f) \in Points /\ Start(f).ledger = f.base /\ Start(f).updates = none
      /\ Start(f).next = f.before
  BY <1>1, <1>2, PointFacts
<1> QED BY <1>3 DEF none

\* A run leads to one place only when nothing is left to run.
LEMMA RunsNothing ==
  ASSUME NEW x, NEW y, Runs(x, <<>>, y)
  PROVE  x = y
<1>1. Len(<<>>) = 0
  BY EmptySeq
<1> QED BY <1>1 DEF Runs, IsRun

\* The blocks and the open one: what the open one executes is in no block.
LEMMA OpenFacts ==
  ASSUME NEW f, Sound(f), NEW ops, NEW p, Runs(Start(f), ops, p)
  PROVE  LET all == Append(f.line, ops)
         IN  /\ all \in Lines /\ Len(all) = Len(f.line) + 1 /\ Len(f.line) \in Nat
             /\ DOMAIN all = 1 .. Len(f.line) + 1 /\ DOMAIN f.line = 1 .. Len(f.line)
             /\ all[Len(f.line) + 1] = ops
             /\ \A n \in 1 .. Len(f.line) : all[n] = f.line[n] /\ f.line[n] \in Seq(Ops)
             /\ OnceAmong(all) /\ UsedAll(p.ledger, all) /\ IdsBelow(all, p.next)
<1> DEFINE n == Len(f.line)
           all == Append(f.line, ops)
           x == Start(f)
<1>1. /\ f.line \in Seq(Seq(Ops)) /\ n \in Nat /\ DOMAIN f.line = 1 .. n /\ f \in Frontiers
      /\ \A k \in 1 .. n : f.line[k] \in Seq(Ops)
  BY LenProperties, ElementOfSeq DEF Sound, Frontiers, Lines
<1>2. x \in Points /\ x.ledger = f.base /\ x.next = f.before
  BY <1>1, StartFacts
<1>3. /\ ops \in Seq(Ops) /\ Past(x, p) /\ p \in Points
      /\ Used(p.ledger, ops) /\ Unused(x.ledger, ops) /\ OnceIn(ops) /\ IdsFrom(ops, x.next, p.next)
  BY RunFacts
<1>4. /\ all \in Lines /\ Len(all) = n + 1 /\ all[n + 1] = ops
      /\ \A k \in 1 .. n : all[k] = f.line[k]
  BY <1>1, <1>3, AppendProperties DEF Lines
<1>5. DOMAIN all = 1 .. n + 1
  BY <1>1, <1>4, LenProperties DEF Lines
<1>6. OnceAmong(f.line) /\ UsedAll(f.base, f.line) /\ IdsBelow(f.line, f.before)
  BY DEF Sound
<1> HIDE DEF n, all, x
<1>7. \A k \in 1 .. n : \A i \in TxsOf(f.line[k]) :
         f.line[k][i].tx \in AllTxs /\ UsedUp(f.base, f.line[k][i].tx)
  <2> TAKE k \in 1 .. n
  <2> TAKE i \in TxsOf(f.line[k])
  <2>1. i \in 1 .. Len(f.line[k]) /\ f.line[k][i].type = "tx"
    BY <1>1, LenProperties DEF TxsOf
  <2>2. f.line[k][i] \in Ops
    BY <1>1, <2>1, ElementOfSeq
  <2> QED BY <1>1, <1>6, <2>1, <2>2, OpFacts DEF UsedAll, Used
<1>8. OnceAmong(all)
  <2> SUFFICES ASSUME NEW a \in 1 .. n + 1, NEW b \in 1 .. n + 1,
                      NEW i \in TxsOf(all[a]), NEW j \in TxsOf(all[b]),
                      all[a][i].tx = all[b][j].tx
               PROVE  a = b /\ i = j
    BY <1>5 DEF OnceAmong
  <2>1. CASE a \in 1 .. n /\ b \in 1 .. n
    <3>1. a \in DOMAIN f.line /\ b \in DOMAIN f.line /\ all[a] = f.line[a] /\ all[b] = f.line[b]
      BY <1>1, <1>4, <2>1
    <3>2. /\ i \in TxsOf(f.line[a]) /\ j \in TxsOf(f.line[b])
          /\ f.line[a][i].tx = f.line[b][j].tx
      BY <3>1, Zenon
    <3>3. \A m, k \in DOMAIN f.line : \A u \in TxsOf(f.line[m]), v \in TxsOf(f.line[k]) :
             f.line[m][u].tx = f.line[k][v].tx => m = k /\ u = v
      BY <1>6, Zenon DEF OnceAmong
    <3> QED BY <3>1, <3>2, <3>3
  <2>2. CASE a \in 1 .. n /\ b = n + 1
    <3>1. all[a] = f.line[a] /\ all[b] = ops
      BY <1>1, <1>4, <2>2
    <3>2. i \in TxsOf(f.line[a]) /\ j \in TxsOf(ops) /\ f.line[a][i].tx = ops[j].tx
      BY <3>1, Zenon
    <3>3. UsedUp(f.base, f.line[a][i].tx)
      BY <1>7, <2>2, <3>2
    <3>4. ~ UsedUp(f.base, ops[j].tx)
      BY <1>2, <1>3, <3>2 DEF Unused
    <3> QED BY <3>2, <3>3, <3>4, Zenon
  <2>3. CASE a = n + 1 /\ b \in 1 .. n
    <3>1. all[b] = f.line[b] /\ all[a] = ops
      BY <1>1, <1>4, <2>3
    <3>2. j \in TxsOf(f.line[b]) /\ i \in TxsOf(ops) /\ f.line[b][j].tx = ops[i].tx
      BY <3>1, Zenon
    <3>3. UsedUp(f.base, f.line[b][j].tx)
      BY <1>7, <2>3, <3>2
    <3>4. ~ UsedUp(f.base, ops[i].tx)
      BY <1>2, <1>3, <3>2 DEF Unused
    <3> QED BY <3>2, <3>3, <3>4, Zenon
  <2>4. CASE a = n + 1 /\ b = n + 1
    BY <1>3, <1>4, <2>4 DEF OnceIn
  <2> QED BY <1>1, <2>1, <2>2, <2>3, <2>4
<1>9. UsedAll(p.ledger, all)
  <2> SUFFICES ASSUME NEW a \in 1 .. n + 1, NEW i \in TxsOf(all[a])
               PROVE  UsedUp(p.ledger, all[a][i].tx)
    BY <1>5 DEF UsedAll, Used
  <2>1. CASE a \in 1 .. n
    <3>1. all[a] = f.line[a]
      BY <1>4, <2>1
    <3>2. i \in TxsOf(f.line[a])
      BY <3>1, Zenon
    <3> DEFINE tx == f.line[a][i].tx
    <3>3. tx \in AllTxs /\ UsedUp(f.base, tx)
      BY <1>7, <2>1, <3>2
    <3>4. all[a][i].tx = tx
      BY <3>1
    <3> HIDE DEF tx
    <3>5. UsedUp(x.ledger, tx)
      BY <1>2, <3>3
    <3>6. UsedUp(p.ledger, tx)
      BY <1>3, <3>3, <3>5, PastUsedUp
    <3> QED BY <3>4, <3>6
  <2>2. CASE a = n + 1
    BY <1>3, <1>4, <2>2 DEF Used
  <2> QED BY <1>1, <2>1, <2>2
<1>10. IdsBelow(all, p.next)
  <2>0. f.before <= p.next /\ f.before \in Nat /\ p.next \in Nat
    BY <1>2, <1>3 DEF Past, Points
  <2> SUFFICES ASSUME NEW a \in 1 .. n + 1, NEW i \in DOMAIN all[a], all[a][i].type # "tx"
               PROVE  all[a][i].id < p.next
    BY <1>5 DEF IdsBelow
  <2>1. CASE a \in 1 .. n
    <3>1. f.line[a][i].id < f.before
      <4>1. a \in DOMAIN f.line /\ all[a] = f.line[a]
        BY <1>1, <1>4, <2>1
      <4>2. i \in DOMAIN f.line[a] /\ f.line[a][i].type # "tx"
        BY <4>1, Zenon
      <4> QED BY <1>6, <4>1, <4>2, Zenon DEF IdsBelow
    <3>2. f.line[a][i].id \in Nat
      <4>1. i \in 1 .. Len(f.line[a])
        BY <1>1, <1>4, <2>1, LenProperties
      <4>2. f.line[a][i] \in Ops /\ f.line[a][i].type # "tx"
        BY <1>1, <1>4, <2>1, <4>1, ElementOfSeq
      <4> QED BY <4>2, OpFacts, IdsFinite
    <3> QED BY <1>4, <2>0, <2>1, <3>1, <3>2
  <2>2. CASE a = n + 1
    BY <1>2, <1>3, <1>4, <2>0, <2>2 DEF IdsFrom
  <2> QED BY <1>1, <2>1, <2>2
<1> QED BY <1>1, <1>4, <1>5, <1>8, <1>9, <1>10 DEF n, all

\* One request: the frontier behind it is as sound as the one before.
LEMMA AdvanceSound ==
  ASSUME NEW f, Sound(f), NEW r \in Requests, NEW g, Advances(f, r, g)
  PROVE  /\ Sound(g)
         /\ g.line = IF r.type = "Block" THEN Append(f.line, r.success) ELSE f.line
         /\ r.number = Len(f.line) + 1
         /\ OnceAmong(Append(f.line, r.success)) /\ Indexed(r.success)
<1>1. f \in Frontiers /\ Runs(Start(f), f.ops, f.at)
  BY DEF Sound
<1>2. ASSUME NEW new, NEW p, NEW us, Stores(f, r, new, p, us)
      PROVE  Runs(Start(f), r.success, p) /\ Indexed(r.success) /\ r.number = Len(f.line) + 1
  BY <1>1, <1>2, RunsJoin DEF Stores
<1>3. CASE /\ r.type = "PendingBlock"
           /\ \E new, p : /\ Stores(f, r, new, p, <<>>)
                          /\ g = [f EXCEPT !.ops = r.success, !.at = p]
  <2>1. PICK new, p : /\ Stores(f, r, new, p, <<>>)
                      /\ g = [f EXCEPT !.ops = r.success, !.at = p]
    BY <1>3, Zenon
  <2>2. /\ Runs(Start(f), r.success, p) /\ Indexed(r.success)
        /\ r.number = Len(f.line) + 1
    BY <1>2, <2>1
  <2>3. r.success \in Seq(Ops) /\ p \in Points
    BY <2>2, RunFacts
  <2>4. /\ g \in Frontiers /\ g.line = f.line /\ g.base = f.base /\ g.before = f.before
        /\ g.ops = r.success /\ g.at = p
    BY <1>1, <2>1, <2>3 DEF Frontiers
  <2>5. Start(g) = Start(f)
    BY <2>4 DEF Start
  <2>6. Sound(g)
    BY <2>2, <2>4, <2>5 DEF Sound
  <2>7. OnceAmong(Append(f.line, r.success))
    BY <2>2, OpenFacts
  <2> QED BY <1>3, <2>2, <2>4, <2>6, <2>7
<1>4. CASE /\ r.type = "Block"
           /\ \E new, p, us :
                 /\ Stores(f, r, new, p, us) /\ Leads(p.ledger, us, r.root)
                 /\ r.before = f.before /\ r.after = p.next
                 /\ g = [line |-> Append(f.line, r.success), base |-> r.root, before |-> r.after,
                         ops |-> <<>>, at |-> Point(r.root, <<>>, r.after)]
  <2>1. PICK new, p, us :
                 /\ Stores(f, r, new, p, us) /\ Leads(p.ledger, us, r.root)
                 /\ r.before = f.before /\ r.after = p.next
                 /\ g = [line |-> Append(f.line, r.success), base |-> r.root, before |-> r.after,
                         ops |-> <<>>, at |-> Point(r.root, <<>>, r.after)]
    BY <1>4
  <2> DEFINE all == Append(f.line, r.success)
             none == <<>>
             n == Len(f.line)
             y == Point(r.root, none, r.after)
  <2>2. Runs(Start(f), r.success, p) /\ Indexed(r.success) /\ r.number = n + 1
    BY <1>2, <2>1
  <2>3. r.success \in Seq(Ops) /\ p \in Points
    BY <2>2, RunFacts
  <2>4. /\ all \in Lines /\ n \in Nat /\ DOMAIN all = 1 .. n + 1 /\ DOMAIN f.line = 1 .. n
        /\ all[n + 1] = r.success /\ \A k \in 1 .. n : all[k] = f.line[k] /\ f.line[k] \in Seq(Ops)
        /\ OnceAmong(all) /\ UsedAll(p.ledger, all) /\ IdsBelow(all, p.next)
    BY <2>2, OpenFacts
  <2>5. none \in Seq(Updates) /\ none \in Seq(Ops) /\ Len(none) = 0
    BY EmptySeq
  <2>6. r.root \in Ledgers /\ r.after \in Nat
    BY <2>1, <2>3 DEF Leads, Points
  <2>7. y \in Points
    BY <2>5, <2>6, PointFacts
  <2>8. Runs(y, none, y)
    BY <2>7, RunsNot
  <2>9. g = [line |-> all, base |-> r.root, before |-> r.after, ops |-> none, at |-> y]
    BY <2>1
  <2>10. UsedAll(r.root, all)
    <3> SUFFICES ASSUME NEW k \in 1 .. n + 1, NEW i \in TxsOf(all[k])
                 PROVE  UsedUp(r.root, all[k][i].tx)
      BY <2>4 DEF UsedAll, Used
    <3>1. UsedUp(p.ledger, all[k][i].tx)
      BY <2>4 DEF UsedAll, Used
    <3>2. all[k] \in Seq(Ops)
      BY <2>3, <2>4
    <3>3. i \in 1 .. Len(all[k]) /\ all[k][i].type = "tx"
      BY <3>2, LenProperties DEF TxsOf
    <3>4. all[k][i] \in Ops
      BY <3>2, <3>3, ElementOfSeq
    <3>5. all[k][i].tx \in AllTxs
      BY <3>3, <3>4, OpFacts
    <3> QED BY <2>1, <3>1, <3>5, LeadsUsedUp
  <2>11. \A k \in DOMAIN all : Indexed(all[k])
    <3>1. \A k \in 1 .. n : Indexed(f.line[k])
      BY <2>4 DEF Sound
    <3> QED BY <2>2, <2>4, <3>1
  <2> HIDE DEF all, none, y, n
  <2>12. /\ g \in Frontiers /\ g.line = all /\ g.base = r.root /\ g.before = r.after
         /\ g.ops = none /\ g.at = y
    BY <2>4, <2>5, <2>6, <2>7, <2>9 DEF Frontiers
  <2>13. Start(g) = y
    BY <2>12 DEF Start, y, none
  <2>14. Indexed(none)
    BY <2>5 DEF Indexed
  <2>15. Runs(Start(g), g.ops, g.at)
    BY <2>8, <2>12, <2>13
  <2>16. IdsBelow(all, r.after)
    BY <2>1, <2>4
  <2>17. Sound(g)
    BY <2>4, <2>10, <2>11, <2>12, <2>14, <2>15, <2>16 DEF Sound
  <2> QED BY <1>4, <2>2, <2>4, <2>12, <2>17 DEF all, n
<1> QED BY <1>3, <1>4, Zenon DEF Advances

\* The frontiers from one before the channel to one behind it.
IsPath(h, q, f, g) ==
  /\ DOMAIN h = 0 .. Len(q) /\ h[0] = f /\ h[Len(q)] = g
  /\ \A k \in 1 .. Len(q) : Advances(h[k - 1], q[k], h[k])

Path(q, f, g) == \E h : IsPath(h, q, f, g)

\* An empty channel leads nowhere.
LEMMA PathNot ==
  ASSUME NEW f
  PROVE  Path(<<>>, f, f)
<1> DEFINE h == [k \in 0 .. 0 |-> f]
<1>1. Len(<<>>) = 0 /\ h[0] = f
  BY EmptySeq
<1>2. IsPath(h, <<>>, f, f)
  BY <1>1 DEF IsPath
<1> QED BY <1>2 DEF Path

\* Only there does it lead.
LEMMA PathNothing ==
  ASSUME NEW f, NEW g, Path(<<>>, f, g)
  PROVE  f = g
<1>1. Len(<<>>) = 0
  BY EmptySeq
<1> QED BY <1>1 DEF Path, IsPath

\* A request sent leads on.
LEMMA PathPush ==
  ASSUME NEW q \in Seq(Requests), NEW f, NEW g, Path(q, f, g),
         NEW r \in Requests, NEW k, Advances(g, r, k)
  PROVE  Path(Append(q, r), f, k)
<1> DEFINE n == Len(q)
           p == Append(q, r)
<1>1. /\ n \in Nat /\ Len(p) = n + 1 /\ p[n + 1] = r /\ \A i \in 1 .. n : p[i] = q[i]
  BY LenProperties, AppendProperties
<1>2. PICK h : IsPath(h, q, f, g)
  BY DEF Path
<1>3. /\ DOMAIN h = 0 .. n /\ h[0] = f /\ h[n] = g
      /\ \A i \in 1 .. n : Advances(h[i - 1], q[i], h[i])
  BY <1>2 DEF IsPath
<1> HIDE DEF n, p
<1> DEFINE j == [i \in 0 .. n + 1 |-> IF i = n + 1 THEN k ELSE h[i]]
<1>4. j[0] = f /\ j[n + 1] = k /\ \A i \in 0 .. n : j[i] = h[i]
  BY <1>1, <1>3
<1>5. DOMAIN j = 0 .. n + 1
  OBVIOUS
<1> HIDE DEF j
<1>6. ASSUME NEW i \in 1 .. n + 1
      PROVE  Advances(j[i - 1], p[i], j[i])
  <2>1. CASE i \in 1 .. n
    <3>1. j[i - 1] = h[i - 1] /\ j[i] = h[i] /\ p[i] = q[i]
      BY <1>1, <1>4, <2>1
    <3> QED BY <1>3, <2>1, <3>1
  <2>2. CASE i = n + 1
    <3>1. j[i - 1] = g /\ j[i] = k /\ p[i] = r
      BY <1>1, <1>3, <1>4, <2>2
    <3> QED BY <3>1
  <2> QED BY <1>1, <2>1, <2>2
<1>7. IsPath(j, p, f, k)
  BY <1>1, <1>4, <1>5, <1>6 DEF IsPath
<1> QED BY <1>7 DEF Path, p

\* A request taken out has led to the point behind it.
LEMMA PathPop ==
  ASSUME NEW q \in Seq(Requests), q # <<>>, NEW f, NEW g, Path(q, f, g)
  PROVE  \E e : Advances(f, Head(q), e) /\ Path(Tail(q), e, g)
<1> DEFINE n == Len(q)
           t == Tail(q)
<1>1. /\ n \in Nat /\ n # 0 /\ Len(t) = n - 1 /\ Head(q) = q[1]
      /\ \A i \in 1 .. n - 1 : t[i] = q[i + 1]
  BY LenProperties, HeadTailProperties, EmptySeq
<1>2. PICK h : IsPath(h, q, f, g)
  BY DEF Path
<1>3. /\ DOMAIN h = 0 .. n /\ h[0] = f /\ h[n] = g
      /\ \A i \in 1 .. n : Advances(h[i - 1], q[i], h[i])
  BY <1>2 DEF IsPath
<1> HIDE DEF n, t
<1> DEFINE j == [i \in 0 .. n - 1 |-> h[i + 1]]
<1>4. DOMAIN j = 0 .. n - 1 /\ j[0] = h[1] /\ j[n - 1] = g
      /\ \A i \in 0 .. n - 1 : j[i] = h[i + 1]
  BY <1>1, <1>3
<1> HIDE DEF j
<1>5. ASSUME NEW i \in 1 .. n - 1
      PROVE  Advances(j[i - 1], t[i], j[i])
  <2>1. j[i - 1] = h[i] /\ j[i] = h[i + 1] /\ t[i] = q[i + 1]
    BY <1>1, <1>4
  <2>2. i + 1 \in 1 .. n /\ (i + 1) - 1 = i
    BY <1>1
  <2>3. Advances(h[(i + 1) - 1], q[i + 1], h[i + 1])
    BY <1>3, <2>2
  <2> QED BY <2>1, <2>2, <2>3
<1>6. IsPath(j, t, h[1], g)
  BY <1>1, <1>4, <1>5 DEF IsPath
<1>7. Advances(f, q[1], h[1])
  <2>1. 1 \in 1 .. n /\ 1 - 1 = 0
    BY <1>1
  <2>2. Advances(h[1 - 1], q[1], h[1])
    BY <1>3, <2>1
  <2> QED BY <1>3, <2>1, <2>2
<1> QED BY <1>1, <1>6, <1>7 DEF Path, t

-----------------------------------------------------------------------------
(* What the tables hold of the blocks *)

\* The rows of the successes are the transactions of the blocks.
TxsHold(rows, all) ==
  /\ \A x \in DOMAIN rows : rows[x].success = TRUE =>
        \E n \in DOMAIN all : \E k \in TxsOf(all[n]) :
           all[n][k].tx = x /\ rows[x] = TxRow(n, all[n][k])
  /\ \A n \in DOMAIN all : \A k \in TxsOf(all[n]) :
        all[n][k].tx \in DOMAIN rows /\ rows[all[n][k].tx] = TxRow(n, all[n][k])

PrioritiesOf(ops) == {k \in DOMAIN ops : ops[k].type # "tx"}

\* The rows of the priority operations are those of the blocks.
IdsHold(rows, all) ==
  /\ \A x \in DOMAIN rows :
        \E n \in DOMAIN all : \E k \in PrioritiesOf(all[n]) :
           all[n][k].id = x /\ rows[x] = PriorityRow(n, all[n][k])
  /\ \A n \in DOMAIN all : \A k \in PrioritiesOf(all[n]) :
        all[n][k].id \in DOMAIN rows /\ rows[all[n][k].id] = PriorityRow(n, all[n][k])

\* The open block, with more operations.
LEMMA ExtendFacts ==
  ASSUME NEW line \in Lines, NEW ops \in Seq(Ops), NEW new \in Seq(Ops)
  PROVE  LET n == Len(line)
             a == Append(line, ops)
             b == Append(line, ops \o new)
         IN  /\ n \in Nat /\ DOMAIN a = 1 .. n + 1 /\ DOMAIN b = 1 .. n + 1
             /\ a[n + 1] = ops /\ b[n + 1] = ops \o new /\ \A k \in 1 .. n : a[k] = b[k]
             /\ ops \o new \in Seq(Ops) /\ Len(ops) <= Len(ops \o new)
             /\ DOMAIN ops = 1 .. Len(ops) /\ DOMAIN (ops \o new) = 1 .. Len(ops \o new)
             /\ Len(ops) \in Nat /\ Len(ops \o new) \in Nat
             /\ \A k \in 1 .. Len(ops) : (ops \o new)[k] = ops[k]
<1> DEFINE n == Len(line)
           c == ops \o new
           a == Append(line, ops)
           b == Append(line, c)
<1>1. /\ c \in Seq(Ops) /\ Len(c) = Len(ops) + Len(new)
      /\ \A k \in 1 .. Len(ops) : c[k] = ops[k]
  BY ConcatProperties
<1>2. /\ Len(ops) \in Nat /\ Len(new) \in Nat /\ DOMAIN ops = 1 .. Len(ops)
  BY LenProperties
<1> HIDE DEF c
<1>3. Len(c) \in Nat /\ DOMAIN c = 1 .. Len(c)
  BY <1>1, LenProperties
<1>4. line \in Seq(Seq(Ops)) /\ n \in Nat
  BY LenProperties DEF Lines
<1>5. /\ a \in Seq(Seq(Ops)) /\ Len(a) = n + 1 /\ a[n + 1] = ops
      /\ \A k \in 1 .. n : a[k] = line[k]
  BY <1>4, AppendProperties
<1>6. /\ b \in Seq(Seq(Ops)) /\ Len(b) = n + 1 /\ b[n + 1] = c
      /\ \A k \in 1 .. n : b[k] = line[k]
  BY <1>1, <1>4, AppendProperties
<1>7. DOMAIN a = 1 .. n + 1 /\ DOMAIN b = 1 .. n + 1
  BY <1>5, <1>6, LenProperties
<1> HIDE DEF n, a, b
<1>8. Len(ops) <= Len(c)
  BY <1>1, <1>2
<1> QED BY <1>1, <1>2, <1>3, <1>4, <1>5, <1>6, <1>7, <1>8 DEF c, n, a, b

\* Storing the successes of the open block.
LEMMA TxsHoldOn ==
  ASSUME TablesOK, NEW req \in Requests, SaveTransactions(req),
         NEW line \in Lines, NEW ops \in Seq(Ops), NEW new \in Seq(Ops),
         req.number = Len(line) + 1, req.success = ops \o new,
         OnceAmong(Append(line, ops \o new)), TxsHold(execTxs, Append(line, ops))
  PROVE  TxsHold(execTxs', Append(line, ops \o new))
<1> DEFINE n == Len(line)
           c == ops \o new
           a == Append(line, ops)
           b == Append(line, c)
<1>1. /\ n \in Nat /\ DOMAIN a = 1 .. n + 1 /\ DOMAIN b = 1 .. n + 1
      /\ a[n + 1] = ops /\ b[n + 1] = c /\ \A k \in 1 .. n : a[k] = b[k]
      /\ c \in Seq(Ops) /\ Len(ops) <= Len(c)
      /\ DOMAIN ops = 1 .. Len(ops) /\ DOMAIN c = 1 .. Len(c)
      /\ Len(ops) \in Nat /\ Len(c) \in Nat
      /\ \A k \in 1 .. Len(ops) : c[k] = ops[k]
  BY ExtendFacts
<1>2. /\ \A x \in DOMAIN execTxs : x \in DOMAIN execTxs'
      /\ \A x \in DOMAIN execTxs' :
            \/ HasTx(c, Len(c), x) /\ WroteTx(n + 1, c, Len(c), x, execTxs'[x])
            \/ /\ ~ HasTx(c, Len(c), x)
               /\ x \in DOMAIN execTxs /\ execTxs'[x] = execTxs[x]
            \/ /\ ~ HasTx(c, Len(c), x)
               /\ x \notin DOMAIN execTxs /\ execTxs'[x] = FailedRow(n + 1)
      /\ \A x : HasTx(c, Len(c), x) => x \in DOMAIN execTxs'
  <2>1. /\ execTxs \in TxTables /\ execPriorityOps \in PriorityTables
        /\ mempoolRows \subseteq Seq(AllTxs)
    BY DEF TablesOK
  <2> HIDE DEF n, c
  <2>2. req.number = n + 1 /\ req.success = c
    BY DEF n, c
  <2> QED BY <2>1, <2>2, SaveFills
<1>3. /\ \A x \in DOMAIN execTxs : execTxs[x].success = TRUE =>
            \E m \in DOMAIN a : \E k \in TxsOf(a[m]) :
               a[m][k].tx = x /\ execTxs[x] = TxRow(m, a[m][k])
      /\ \A m \in DOMAIN a : \A k \in TxsOf(a[m]) :
            a[m][k].tx \in DOMAIN execTxs /\ execTxs[a[m][k].tx] = TxRow(m, a[m][k])
  BY DEF TxsHold
<1>4. \A m, l \in DOMAIN b : \A u \in TxsOf(b[m]), v \in TxsOf(b[l]) :
         b[m][u].tx = b[l][v].tx => m = l /\ u = v
  BY DEF OnceAmong
<1>5. FailedRow(n + 1).success = FALSE
  BY DEF FailedRow
<1> HIDE DEF n, c, a, b
<1>6. ASSUME NEW x \in DOMAIN execTxs', execTxs'[x].success = TRUE
      PROVE  \E m \in DOMAIN b : \E k \in TxsOf(b[m]) :
                b[m][k].tx = x /\ execTxs'[x] = TxRow(m, b[m][k])
  <2>1. CASE WroteTx(n + 1, c, Len(c), x, execTxs'[x])
    <3>1. PICK k \in 1 .. Len(c) : c[k].type = "tx" /\ c[k].tx = x /\ execTxs'[x] = TxRow(n + 1, c[k])
      BY <2>1 DEF WroteTx
    <3>2. k \in TxsOf(b[n + 1]) /\ n + 1 \in DOMAIN b
      BY <1>1, <3>1 DEF TxsOf
    <3> QED BY <1>1, <3>1, <3>2
  <2>2. CASE ~ HasTx(c, Len(c), x) /\ x \in DOMAIN execTxs /\ execTxs'[x] = execTxs[x]
    <3>0. PICK m \in DOMAIN a : \E k \in TxsOf(a[m]) :
                a[m][k].tx = x /\ execTxs[x] = TxRow(m, a[m][k])
      BY <1>3, <1>6, <2>2
    <3>1. PICK k \in TxsOf(a[m]) : a[m][k].tx = x /\ execTxs[x] = TxRow(m, a[m][k])
      BY <3>0
    <3>2. CASE m \in 1 .. n
      <4>1. a[m] = b[m] /\ m \in DOMAIN b
        BY <1>1, <3>2
      <4>2. k \in TxsOf(b[m]) /\ b[m][k].tx = x /\ execTxs'[x] = TxRow(m, b[m][k])
        BY <2>2, <3>1, <4>1
      <4> QED BY <4>1, <4>2
    <3>3. CASE m = n + 1
      <4>1. k \in 1 .. Len(ops) /\ ops[k].type = "tx" /\ ops[k].tx = x
        BY <1>1, <3>1, <3>3 DEF TxsOf
      <4>2. k \in 1 .. Len(c) /\ c[k].type = "tx" /\ c[k].tx = x
        BY <1>1, <4>1
      <4> QED BY <2>2, <4>2 DEF HasTx
    <3> QED BY <1>1, <3>2, <3>3
  <2>3. CASE execTxs'[x] = FailedRow(n + 1)
    BY <1>5, <1>6, <2>3
  <2> QED BY <1>2, <2>1, <2>2, <2>3
<1>7. ASSUME NEW m \in DOMAIN b, NEW k \in TxsOf(b[m])
      PROVE  /\ b[m][k].tx \in DOMAIN execTxs'
             /\ execTxs'[b[m][k].tx] = TxRow(m, b[m][k])
  <2> DEFINE x == b[m][k].tx
  <2>1. CASE m = n + 1
    <3>1. k \in 1 .. Len(c) /\ c[k].type = "tx" /\ c[k].tx = x /\ b[m] = c
      BY <1>1, <1>7, <2>1 DEF TxsOf
    <3> HIDE DEF x
    <3>2. HasTx(c, Len(c), x)
      BY <3>1 DEF HasTx
    <3>3. x \in DOMAIN execTxs' /\ WroteTx(n + 1, c, Len(c), x, execTxs'[x])
      BY <1>2, <3>2
    <3>4. PICK j \in 1 .. Len(c) : c[j].type = "tx" /\ c[j].tx = x /\ execTxs'[x] = TxRow(n + 1, c[j])
      BY <3>3 DEF WroteTx
    <3>5. j \in TxsOf(b[m]) /\ b[m][j].tx = b[m][k].tx
      BY <1>1, <2>1, <3>1, <3>4 DEF TxsOf
    <3>6. ASSUME NEW u \in TxsOf(b[m]), NEW v \in TxsOf(b[m]), b[m][u].tx = b[m][v].tx
          PROVE  u = v
      BY ONLY <1>4, <1>7, <3>6
    <3>7. j = k
      BY <1>7, <3>5, <3>6, Zenon
    <3> QED BY <2>1, <3>1, <3>3, <3>4, <3>7 DEF x
  <2>2. CASE m \in 1 .. n
    <3>1. a[m] = b[m] /\ m \in DOMAIN a
      BY <1>1, <2>2
    <3>2. k \in TxsOf(a[m])
      BY <1>7, <3>1
    <3>3. x \in DOMAIN execTxs /\ execTxs[x] = TxRow(m, b[m][k])
      BY <1>3, <3>1, <3>2
    <3>4. ~ HasTx(c, Len(c), x)
      <4> SUFFICES ASSUME HasTx(c, Len(c), x) PROVE FALSE
        OBVIOUS
      <4>1. PICK j \in 1 .. Len(c) : c[j].type = "tx" /\ c[j].tx = x
        BY DEF HasTx
      <4>2. n + 1 \in DOMAIN b /\ j \in TxsOf(b[n + 1]) /\ b[n + 1][j].tx = b[m][k].tx
        BY <1>1, <4>1 DEF TxsOf
      <4>3. m = n + 1
        BY <1>4, <1>7, <4>2
      <4> QED BY <1>1, <2>2, <4>3
    <3>5. x \in DOMAIN execTxs'
      BY <1>2, <3>3
    <3> HIDE DEF x
    <3>6. execTxs'[x] = execTxs[x]
      BY <1>2, <3>3, <3>4, <3>5
    <3> QED BY <3>3, <3>5, <3>6 DEF x
  <2> QED BY <1>1, <2>1, <2>2
<1>8. TxsHold(execTxs', b)
  BY <1>6, <1>7 DEF TxsHold
<1> QED BY <1>8 DEF b, c

\* Storing the priority operations of the open block.
LEMMA IdsHoldOn ==
  ASSUME TablesOK, NEW req \in Requests, SaveTransactions(req),
         NEW line \in Lines, NEW ops \in Seq(Ops), NEW new \in Seq(Ops),
         req.number = Len(line) + 1, req.success = ops \o new,
         NEW from \in Nat, NEW to \in Nat, IdsBelow(line, from), IdsFrom(ops \o new, from, to),
         IdsHold(execPriorityOps, Append(line, ops))
  PROVE  IdsHold(execPriorityOps', Append(line, ops \o new))
<1> DEFINE n == Len(line)
           c == ops \o new
           a == Append(line, ops)
           b == Append(line, c)
           old == execPriorityOps
           rows == execPriorityOps'
<1>1. /\ n \in Nat /\ DOMAIN a = 1 .. n + 1 /\ DOMAIN b = 1 .. n + 1
      /\ a[n + 1] = ops /\ b[n + 1] = c /\ \A k \in 1 .. n : a[k] = b[k]
      /\ c \in Seq(Ops) /\ Len(ops) <= Len(c)
      /\ DOMAIN ops = 1 .. Len(ops) /\ DOMAIN c = 1 .. Len(c)
      /\ Len(ops) \in Nat /\ Len(c) \in Nat
      /\ \A k \in 1 .. Len(ops) : c[k] = ops[k]
  BY ExtendFacts
<1>2. IdsFilled(n + 1, c, Len(c), old, rows)
  <2>1. /\ execTxs \in TxTables /\ execPriorityOps \in PriorityTables
        /\ mempoolRows \subseteq Seq(AllTxs)
    BY DEF TablesOK
  <2> HIDE DEF n, c
  <2>2. req.number = n + 1 /\ req.success = c
    BY DEF n, c
  <2> QED BY <2>1, <2>2, SaveFills
<1>3. /\ \A x \in DOMAIN old :
            \E m \in DOMAIN a : \E k \in PrioritiesOf(a[m]) :
               a[m][k].id = x /\ old[x] = PriorityRow(m, a[m][k])
      /\ \A m \in DOMAIN a : \A k \in PrioritiesOf(a[m]) :
            a[m][k].id \in DOMAIN old /\ old[a[m][k].id] = PriorityRow(m, a[m][k])
  BY DEF IdsHold
<1>4. /\ \A k \in 1 .. Len(c) : c[k].type # "tx" => c[k].id \in from .. to - 1
      /\ \A i, j \in 1 .. Len(c) : i < j /\ c[i].type # "tx" /\ c[j].type # "tx" =>
            c[i].id < c[j].id
  BY <1>1 DEF IdsFrom
<1>5. \A m \in 1 .. n : \A k \in PrioritiesOf(a[m]) : a[m][k].id < from
  <2>1. line \in Seq(Seq(Ops)) /\ DOMAIN line = 1 .. n /\ \A m \in 1 .. n : a[m] = line[m]
    BY LenProperties, AppendProperties DEF Lines
  <2> HIDE DEF n, a
  <2>2. \A m \in 1 .. n : \A k \in DOMAIN line[m] : line[m][k].type # "tx" => line[m][k].id < from
    BY <2>1 DEF IdsBelow
  <2> QED BY <2>1, <2>2 DEF PrioritiesOf
<1>6. /\ \A x : x \in DOMAIN rows <=> x \in DOMAIN old \/ HasId(c, Len(c), x)
      /\ \A x \in DOMAIN old : rows[x] = old[x]
      /\ \A x \in DOMAIN rows \ DOMAIN old : WroteId(n + 1, c, Len(c), x, rows[x])
  BY <1>2 DEF IdsFilled
<1> HIDE DEF n, c, a, b, old, rows
<1>7. ASSUME NEW x \in DOMAIN rows
      PROVE  \E m \in DOMAIN b : \E k \in PrioritiesOf(b[m]) :
                b[m][k].id = x /\ rows[x] = PriorityRow(m, b[m][k])
  <2>1. CASE x \in DOMAIN old
    <3>0. PICK m \in DOMAIN a : \E k \in PrioritiesOf(a[m]) :
                a[m][k].id = x /\ old[x] = PriorityRow(m, a[m][k])
      BY <1>3, <2>1
    <3>1. PICK k \in PrioritiesOf(a[m]) : a[m][k].id = x /\ old[x] = PriorityRow(m, a[m][k])
      BY <3>0
    <3>2. rows[x] = old[x]
      BY <1>6, <2>1
    <3>3. CASE m \in 1 .. n
      <4>1. a[m] = b[m] /\ m \in DOMAIN b
        BY <1>1, <3>3
      <4>2. k \in PrioritiesOf(b[m]) /\ b[m][k].id = x /\ rows[x] = PriorityRow(m, b[m][k])
        BY <3>1, <3>2, <4>1
      <4> QED BY <4>1, <4>2
    <3>4. CASE m = n + 1
      <4>1. k \in 1 .. Len(ops) /\ ops[k].type # "tx" /\ a[m] = ops
        BY <1>1, <3>1, <3>4 DEF PrioritiesOf
      <4>2. k \in 1 .. Len(c) /\ c[k] = ops[k] /\ b[m] = c /\ m \in DOMAIN b
        BY <1>1, <3>4, <4>1
      <4>3. k \in PrioritiesOf(b[m])
        BY <1>1, <4>1, <4>2 DEF PrioritiesOf
      <4> QED BY <3>1, <3>2, <4>1, <4>2, <4>3
    <3> QED BY <1>1, <3>3, <3>4
  <2>2. CASE x \notin DOMAIN old
    <3>1. PICK k \in 1 .. Len(c) : c[k].type # "tx" /\ c[k].id = x /\ rows[x] = PriorityRow(n + 1, c[k])
      BY <1>6, <2>2 DEF WroteId
    <3>2. k \in PrioritiesOf(b[n + 1]) /\ n + 1 \in DOMAIN b
      BY <1>1, <3>1 DEF PrioritiesOf
    <3> QED BY <1>1, <3>1, <3>2
  <2> QED BY <2>1, <2>2
<1>8. ASSUME NEW m \in DOMAIN b, NEW k \in PrioritiesOf(b[m])
      PROVE  b[m][k].id \in DOMAIN rows /\ rows[b[m][k].id] = PriorityRow(m, b[m][k])
  <2> DEFINE x == b[m][k].id
  <2>1. CASE m = n + 1
    <3>1. k \in 1 .. Len(c) /\ c[k].type # "tx" /\ c[k].id = x /\ b[m] = c
      BY <1>1, <1>8, <2>1 DEF PrioritiesOf
    <3> HIDE DEF x
    <3>2. HasId(c, Len(c), x)
      BY <3>1 DEF HasId
    <3>3. x \in DOMAIN rows
      BY <1>6, <3>2
    <3>4. CASE x \in DOMAIN old
      <4>0. PICK l \in DOMAIN a : \E i \in PrioritiesOf(a[l]) :
                  a[l][i].id = x /\ old[x] = PriorityRow(l, a[l][i])
        BY <1>3, <3>4
      <4>1. PICK i \in PrioritiesOf(a[l]) : a[l][i].id = x /\ old[x] = PriorityRow(l, a[l][i])
        BY <4>0
      <4>2. x \in from .. to - 1
        BY <1>4, <3>1
      <4>3. l = n + 1
        <5>1. l \in 1 .. n => x < from
          BY <1>5, <4>1
        <5>2. ~ (x < from)
          BY <4>2
        <5> QED BY <1>1, <5>1, <5>2
      <4>4. i \in 1 .. Len(ops) /\ a[l] = ops /\ ops[i].type # "tx"
        BY <1>1, <4>1, <4>3 DEF PrioritiesOf
      <4>5. i \in 1 .. Len(c) /\ c[i] = ops[i] /\ c[i].type # "tx" /\ c[i].id = x
        BY <1>1, <4>1, <4>4
      <4>6. i = k
        <5>1. ~ (i < k) /\ ~ (k < i)
          <6>1. i < k => c[i].id < c[k].id
            BY <1>4, <3>1, <4>5
          <6>2. k < i => c[k].id < c[i].id
            BY <1>4, <3>1, <4>5
          <6>3. c[i].id = x /\ c[k].id = x /\ ~ (x < x)
            BY <3>1, <4>2, <4>5
          <6> QED BY <6>1, <6>2, <6>3
        <5> QED BY <1>1, <3>1, <4>5, <5>1
      <4>7. rows[x] = old[x] /\ old[x] = PriorityRow(m, c[k])
        BY <1>6, <2>1, <3>4, <4>1, <4>3, <4>4, <4>5, <4>6
      <4> QED BY <3>1, <3>3, <4>7 DEF x
    <3>5. CASE x \notin DOMAIN old
      <4>1. PICK j \in 1 .. Len(c) : c[j].type # "tx" /\ c[j].id = x /\ rows[x] = PriorityRow(n + 1, c[j])
        BY <1>6, <3>3, <3>5 DEF WroteId
      <4>2. x \in from .. to - 1
        BY <1>4, <3>1
      <4>3. j = k
        <5>1. ~ (j < k) /\ ~ (k < j)
          <6>1. j < k => c[j].id < c[k].id
            BY <1>4, <3>1, <4>1
          <6>2. k < j => c[k].id < c[j].id
            BY <1>4, <3>1, <4>1
          <6>3. c[j].id = x /\ c[k].id = x /\ ~ (x < x)
            BY <3>1, <4>1, <4>2
          <6> QED BY <6>1, <6>2, <6>3
        <5> QED BY <1>1, <3>1, <4>1, <5>1
      <4> QED BY <2>1, <3>1, <3>3, <4>1, <4>3 DEF x
    <3> QED BY <3>4, <3>5
  <2>2. CASE m \in 1 .. n
    <3>1. a[m] = b[m] /\ m \in DOMAIN a
      BY <1>1, <2>2
    <3>2. k \in PrioritiesOf(a[m])
      BY <1>8, <3>1
    <3>3. x \in DOMAIN old /\ old[x] = PriorityRow(m, b[m][k])
      BY <1>3, <3>1, <3>2
    <3> HIDE DEF x
    <3>4. x \in DOMAIN rows /\ rows[x] = old[x]
      BY <1>6, <3>3
    <3> QED BY <3>3, <3>4 DEF x
  <2> QED BY <1>1, <2>1, <2>2
<1>9. IdsHold(rows, b)
  BY <1>7, <1>8 DEF IdsHold
<1> QED BY <1>9 DEF b, c, rows

\* An empty block opens behind the others.
LEMMA HoldsOpen ==
  ASSUME NEW all \in Lines
  PROVE  /\ \A rows : TxsHold(rows, all) => TxsHold(rows, Append(all, <<>>))
         /\ \A rows : IdsHold(rows, all) => IdsHold(rows, Append(all, <<>>))
<1> DEFINE none == <<>>
           b == Append(all, none)
           n == Len(all)
<1>1. none \in Seq(Ops) /\ DOMAIN none = {}
  BY EmptySeq, EmptyIsSeq
<1>2. all \in Seq(Seq(Ops)) /\ n \in Nat /\ DOMAIN all = 1 .. n
  BY LenProperties DEF Lines
<1> HIDE DEF none
<1>3. /\ b \in Seq(Seq(Ops)) /\ Len(b) = n + 1 /\ b[n + 1] = none
      /\ \A k \in 1 .. n : b[k] = all[k]
  BY <1>1, <1>2, AppendProperties
<1>4. DOMAIN b = 1 .. n + 1
  BY <1>3, LenProperties
<1>5. TxsOf(none) = {} /\ PrioritiesOf(none) = {}
  BY <1>1 DEF TxsOf, PrioritiesOf
<1> HIDE DEF b, n
<1>6. \A m \in DOMAIN all : m \in DOMAIN b /\ b[m] = all[m]
  BY <1>2, <1>3, <1>4
<1>7. \A m \in DOMAIN b : m \in DOMAIN all \/ b[m] = none
  BY <1>2, <1>3, <1>4
<1>8. ASSUME NEW rows, TxsHold(rows, all)
      PROVE  TxsHold(rows, b)
  <2>1. ASSUME NEW x \in DOMAIN rows, rows[x].success = TRUE
        PROVE  \E m \in DOMAIN b : \E k \in TxsOf(b[m]) :
                  b[m][k].tx = x /\ rows[x] = TxRow(m, b[m][k])
    <3>1. PICK m \in DOMAIN all : \E k \in TxsOf(all[m]) :
                all[m][k].tx = x /\ rows[x] = TxRow(m, all[m][k])
      BY <1>8, <2>1 DEF TxsHold
    <3>2. m \in DOMAIN b /\ b[m] = all[m]
      BY <1>6
    <3> QED BY <3>1, <3>2
  <2>2. ASSUME NEW m \in DOMAIN b, NEW k \in TxsOf(b[m])
        PROVE  b[m][k].tx \in DOMAIN rows /\ rows[b[m][k].tx] = TxRow(m, b[m][k])
    <3>1. m \in DOMAIN all
      BY <1>5, <1>7, <2>2
    <3>2. b[m] = all[m]
      BY <1>6, <3>1
    <3>3. k \in TxsOf(all[m])
      BY <2>2, <3>2
    <3>4. all[m][k].tx \in DOMAIN rows /\ rows[all[m][k].tx] = TxRow(m, all[m][k])
      BY <1>8, <3>1, <3>3 DEF TxsHold
    <3> QED BY <3>2, <3>4
  <2> QED BY <2>1, <2>2 DEF TxsHold
<1>9. ASSUME NEW rows, IdsHold(rows, all)
      PROVE  IdsHold(rows, b)
  <2>1. ASSUME NEW x \in DOMAIN rows
        PROVE  \E m \in DOMAIN b : \E k \in PrioritiesOf(b[m]) :
                  b[m][k].id = x /\ rows[x] = PriorityRow(m, b[m][k])
    <3>1. PICK m \in DOMAIN all : \E k \in PrioritiesOf(all[m]) :
                all[m][k].id = x /\ rows[x] = PriorityRow(m, all[m][k])
      BY <1>9, <2>1 DEF IdsHold
    <3>2. m \in DOMAIN b /\ b[m] = all[m]
      BY <1>6
    <3> QED BY <3>1, <3>2
  <2>2. ASSUME NEW m \in DOMAIN b, NEW k \in PrioritiesOf(b[m])
        PROVE  b[m][k].id \in DOMAIN rows /\ rows[b[m][k].id] = PriorityRow(m, b[m][k])
    <3>1. m \in DOMAIN all
      BY <1>5, <1>7, <2>2
    <3>2. b[m] = all[m]
      BY <1>6, <3>1
    <3>3. k \in PrioritiesOf(all[m])
      BY <2>2, <3>2
    <3>4. all[m][k].id \in DOMAIN rows /\ rows[all[m][k].id] = PriorityRow(m, all[m][k])
      BY <1>9, <3>1, <3>3 DEF IdsHold
    <3> QED BY <3>2, <3>4
  <2> QED BY <2>1, <2>2 DEF IdsHold
<1> QED BY <1>8, <1>9 DEF b, none

-----------------------------------------------------------------------------
(* The priority operations of a run *)

\* The numbers from a to b.
LEMMA IntervalFacts ==
  ASSUME NEW a \in Nat, NEW b \in Nat, a <= b
  PROVE  /\ Interval(a, b) \in Seq(Nat) /\ Len(Interval(a, b)) = b - a
         /\ Interval(a, a) = <<>>
         /\ Append(Interval(a, b), b) = Interval(a, b + 1)
<1> DEFINE s == Interval(a, b)
           t == Interval(a, b + 1)
           m == b - a
<1>1. m \in Nat /\ s \in [1 .. m -> Nat] /\ t \in [1 .. m + 1 -> Nat]
  BY DEF Interval
<1>2. /\ \A k \in 1 .. m : s[k] = a + k - 1
      /\ \A k \in 1 .. m + 1 : t[k] = a + k - 1
  BY DEF Interval
<1>3. t[m + 1] = b
  BY <1>1, <1>2
<1> HIDE DEF s, t, m
<1>4. s \in Seq(Nat) /\ Len(s) = m /\ t \in Seq(Nat) /\ Len(t) = m + 1
  BY <1>1, ListIsSeq
<1>5. /\ Append(s, b) \in Seq(Nat) /\ Len(Append(s, b)) = m + 1 /\ Append(s, b)[m + 1] = b
      /\ \A k \in 1 .. m : Append(s, b)[k] = s[k]
  BY <1>4, AppendProperties
<1>6. \A k \in 1 .. m + 1 : Append(s, b)[k] = t[k]
  <2> TAKE k \in 1 .. m + 1
  <2>1. CASE k \in 1 .. m
    BY <1>1, <1>2, <1>5, <2>1
  <2>2. CASE k = m + 1
    BY <1>3, <1>5, <2>2
  <2> QED BY <1>1, <2>1, <2>2
<1>7. Append(s, b) = t
  <2> DEFINE v == Append(s, b)
  <2> HIDE DEF v
  <2>1. v \in Seq(Nat) /\ Len(v) = Len(t) /\ \A k \in 1 .. Len(v) : v[k] = t[k]
    BY <1>4, <1>5, <1>6 DEF v
  <2>2. v = t
    BY <1>4, <2>1, SeqEqual
  <2> QED BY <2>2 DEF v
<1>8. Interval(a, a) = <<>>
  BY DEF Interval
<1> QED BY <1>4, <1>7, <1>8 DEF s, t, m

IdsStep ==
  [p \in Seq(Nat) \X Ops |-> IF p[2].type = "priority" THEN Append(p[1], p[2].id) ELSE p[1]]

\* One step of that fold.
LEMMA IdsStepTyped ==
  /\ IdsStep \in [Seq(Nat) \X Ops -> Seq(Nat)]
  /\ \A s \in Seq(Nat) : \A o \in Ops :
        IdsStep[<<s, o>>] = IF o.type = "priority" THEN Append(s, o.id) ELSE s
<1>1. \A s \in Seq(Nat) : \A o \in Ops :
         (IF o.type = "priority" THEN Append(s, o.id) ELSE s) \in Seq(Nat)
  <2> TAKE s \in Seq(Nat)
  <2> TAKE o \in Ops
  <2>1. o.type = "priority" => o.id \in Nat
    BY OpFacts, IdsFinite
  <2> QED BY <2>1, AppendProperties
<1>2. \A s \in Seq(Nat) : \A o \in Ops : <<s, o>> \in Seq(Nat) \X Ops
  OBVIOUS
<1> QED BY <1>1, <1>2 DEF IdsStep

\* The priority operations of a block are a fold over its operations.
LEMMA IdsFolds ==
  ASSUME NEW ops \in Seq(Ops)
  PROVE  Folds(ops, Seq(Nat), IdsStep, <<>>, IdsOf(ops))
<1> DEFINE n == Len(ops)
           P(g) == g = [d \in SUBSET DOMAIN ops |->
                          IF d = {} THEN <<>>
                          ELSE IF ops[Max(d)].type = "priority" THEN Append(g[d \ {Max(d)}], ops[Max(d)].id)
                               ELSE g[d \ {Max(d)}]]
           G == CHOOSE g : P(g)
<1>0. n \in Nat /\ DOMAIN ops = 1 .. n /\ \A i \in 1 .. n : ops[i] \in Ops
  BY LenProperties, ElementOfSeq
<1>1. \A d \in SUBSET (1 .. n) : d # {} => Max(d) \in 1 .. n /\ Max(d) \in d
  BY ONLY n \in Nat, LastIsPicked
<1>2. IdsOf(ops) = G[DOMAIN ops]
  BY Zenon DEF IdsOf, FoldLeft, MapThenFoldSet
<1>3. PICK H : H \in [SUBSET (1 .. n) -> Seq(Nat)] /\ FoldEquation(H, n, ops, <<>>, IdsStep)
  BY IdsStepTyped, EmptySeq, FoldExists
<1> HIDE DEF n
<1>4. P(H)
  <2>1. H = [d \in SUBSET (1 .. n) |->
                IF d = {} THEN <<>> ELSE IdsStep[<<H[d \ {Max(d)}], ops[Max(d)]>>]]
    BY <1>3 DEF FoldEquation
  <2>2. \A d \in SUBSET (1 .. n) : d # {} =>
           IdsStep[<<H[d \ {Max(d)}], ops[Max(d)]>>]
             = IF ops[Max(d)].type = "priority" THEN Append(H[d \ {Max(d)}], ops[Max(d)].id)
               ELSE H[d \ {Max(d)}]
    <3> TAKE d \in SUBSET (1 .. n)
    <3> HAVE d # {}
    <3>1. ops[Max(d)] \in Ops /\ H[d \ {Max(d)}] \in Seq(Nat)
      BY <1>0, <1>1, <1>3
    <3> QED BY <3>1, IdsStepTyped, EmptySeq
  <2> QED BY <1>0, <2>1, <2>2, Zenon
<1>5. P(G)
  BY <1>4, Zenon
<1>6. G[{}] = <<>>
  BY <1>5, Zenon
<1>7. \A d \in SUBSET (1 .. n) : d # {} /\ G[d \ {Max(d)}] \in Seq(Nat) =>
         G[d] = IdsStep[<<G[d \ {Max(d)}], ops[Max(d)]>>]
  <2> TAKE d \in SUBSET (1 .. n)
  <2> HAVE d # {} /\ G[d \ {Max(d)}] \in Seq(Nat)
  <2>1. G[d] = IF ops[Max(d)].type = "priority" THEN Append(G[d \ {Max(d)}], ops[Max(d)].id)
               ELSE G[d \ {Max(d)}]
    BY <1>0, <1>5, Zenon
  <2> DEFINE a == G[d \ {Max(d)}]
             e == ops[Max(d)]
  <2>2. e \in Ops
    BY <1>0, <1>1
  <2>3. a \in Seq(Nat) /\ G[d] = IF e.type = "priority" THEN Append(a, e.id) ELSE a
    BY <2>1
  <2> HIDE DEF G, a, e
  <2>4. G[d] = IdsStep[<<a, e>>]
    BY <2>2, <2>3, IdsStepTyped, EmptySeq
  <2> QED BY <2>4 DEF a, e
<1> HIDE DEF G
<1>8. Folds(ops, Seq(Nat), IdsStep, <<>>, G[1 .. n])
  BY <1>6, <1>7, IdsStepTyped, EmptySeq, FoldFollows DEF n
<1> QED BY <1>0, <1>2, <1>8

\* They are the numbers from the first point to the last.
LEMMA RunIds ==
  ASSUME NEW x, NEW ops, NEW y, Runs(x, ops, y)
  PROVE  IdsOf(ops) = Interval(x.next, y.next)
<1> DEFINE n == Len(ops)
<1>0. n \in Nat /\ ops \in Seq(Ops) /\ \A k \in 1 .. n : ops[k] \in Ops
  BY LenProperties, ElementOfSeq DEF Runs
<1>1. PICK p : IsRun(p, x, ops, y)
  BY DEF Runs
<1>2. /\ p \in [0 .. n -> Points] /\ p[0] = x /\ p[n] = y
      /\ \A k \in 1 .. n : Goes(p[k - 1], ops[k], p[k])
  BY <1>1 DEF IsRun
<1> HIDE DEF n
<1>3. \A k \in 1 .. n :
         /\ k - 1 \in 0 .. n /\ k \in 0 .. n
         /\ p[k - 1].next \in Nat /\ p[k].next \in Nat
         /\ ops[k].type \in {"tx", "priority"}
         /\ ops[k].type = "tx" => p[k].next = p[k - 1].next
         /\ ops[k].type # "tx" => ops[k].id = p[k - 1].next /\ p[k].next = p[k - 1].next + 1
  <2> TAKE k \in 1 .. n
  <2>1. k - 1 \in 0 .. n /\ k \in 0 .. n
    BY <1>0
  <2>2. p[k - 1] \in Points /\ p[k] \in Points /\ ops[k] \in Ops /\ Goes(p[k - 1], ops[k], p[k])
    BY <1>0, <1>2, <2>1
  <2>3. p[k - 1].next \in Nat /\ p[k].next \in Nat
    BY <2>2 DEF Points
  <2> QED BY <2>1, <2>2, <2>3, GoesOn, OpFacts
<1>4. x.next \in Nat
  <2>1. 0 \in 0 .. n
    BY <1>0
  <2> QED BY <1>2, <2>1 DEF Points
<1> DEFINE at(i) == p[i].next
           T == {i \in 0 .. n : at(i) \in Nat /\ x.next <= at(i)}
<1>5. 0 .. n \subseteq T
  <2>1. 0 \in T
    BY <1>0, <1>2, <1>4
  <2>2. \A i \in 1 .. n : i - 1 \in T => i \in T
    <3> TAKE i \in 1 .. n
    <3> HAVE i - 1 \in T
    <3>1. at(i) = at(i - 1) \/ at(i) = at(i - 1) + 1
      BY <1>3
    <3>2. at(i - 1) \in Nat /\ x.next <= at(i - 1) /\ i \in 0 .. n
      BY <1>3
    <3> HIDE DEF at
    <3> QED BY <1>4, <3>1, <3>2
  <2> HIDE DEF T
  <2> QED BY <1>0, <2>1, <2>2, AlongInterval
<1> DEFINE t == [i \in 0 .. n |-> Interval(x.next, at(i))]
<1>6. t \in [0 .. n -> Seq(Nat)]
  <2>1. \A i \in 0 .. n : Interval(x.next, at(i)) \in Seq(Nat)
    <3> TAKE i \in 0 .. n
    <3>1. at(i) \in Nat /\ x.next <= at(i)
      BY <1>5
    <3> HIDE DEF at
    <3> QED BY <1>4, <3>1, IntervalFacts
  <2> QED BY <2>1
<1>7. t[0] = <<>> /\ t[n] = Interval(x.next, y.next)
  <2>1. 0 \in 0 .. n /\ n \in 0 .. n
    BY <1>0
  <2>2. Interval(x.next, x.next) = <<>>
    <3> DEFINE m == x.next
    <3>1. m \in Nat
      BY <1>4
    <3> HIDE DEF m
    <3>2. m <= m
      BY <3>1
    <3>3. Interval(m, m) = <<>>
      BY <3>1, <3>2, IntervalFacts
    <3> QED BY <3>3 DEF m
  <2>3. t[0] = Interval(x.next, p[0].next) /\ t[n] = Interval(x.next, p[n].next)
    BY <2>1
  <2> HIDE DEF t
  <2>4. p[0].next = x.next /\ p[n].next = y.next
    BY <1>2
  <2> QED BY <2>2, <2>3, <2>4, Zenon
<1>8. \A i \in 1 .. n : t[i] = IdsStep[<<t[i - 1], ops[i]>>]
  <2> TAKE i \in 1 .. n
  <2> DEFINE a == at(i - 1)
             b == at(i)
             o == ops[i]
  <2>0. i \in 0 .. n /\ i - 1 \in 0 .. n
    BY <1>3
  <2>1. t[i - 1] = Interval(x.next, a) /\ t[i] = Interval(x.next, b) /\ t[i - 1] \in Seq(Nat)
    <3>1. t[i - 1] = Interval(x.next, a) /\ t[i] = Interval(x.next, b)
      BY <2>0
    <3>2. t[i - 1] \in Seq(Nat)
      <4> HIDE DEF t
      <4> QED BY <1>6, <2>0
    <3> QED BY <3>1, <3>2
  <2>2. a \in Nat /\ x.next <= a
    BY <1>3, <1>5
  <2>3. /\ o \in Ops /\ o.type \in {"tx", "priority"} /\ (o.type = "tx" => b = a)
        /\ o.type # "tx" => o.id = a /\ b = a + 1
    BY <1>0, <1>3
  <2> HIDE DEF a, b, o, t
  <2>4. IdsStep[<<t[i - 1], o>>] = IF o.type = "priority" THEN Append(t[i - 1], o.id) ELSE t[i - 1]
    BY <2>1, <2>3, IdsStepTyped
  <2>5. Append(Interval(x.next, a), a) = Interval(x.next, a + 1)
    BY <1>4, <2>2, IntervalFacts
  <2>6. t[i] = IdsStep[<<t[i - 1], o>>]
    BY <2>1, <2>3, <2>4, <2>5
  <2> QED BY <2>6 DEF o
<1> HIDE DEF t
<1>9. Folds(ops, Seq(Nat), IdsStep, <<>>, Interval(x.next, y.next))
  BY <1>6, <1>7, <1>8 DEF Folds, n
<1>10. Folds(ops, Seq(Nat), IdsStep, <<>>, IdsOf(ops))
  BY <1>0, IdsFolds
<1> QED BY <1>0, <1>9, <1>10, FoldsOnce

-----------------------------------------------------------------------------
(* The updates in flight *)

\* UpdatesAtLast, of a channel and the rows stored.
FlightOf(number, q, s) ==
  FoldLeft(LAMBDA rows, req : IF req.number = number THEN rows \o UpdateRows(req.toStore) ELSE rows,
           s, q)

FlightStep(number) ==
  [p \in Seq(UpdateRowSet) \X Requests |->
     IF p[2].number = number THEN p[1] \o UpdateRows(p[2].toStore) ELSE p[1]]

\* One step of that fold.
LEMMA FlightStepTyped ==
  ASSUME NEW number
  PROVE  /\ FlightStep(number) \in [Seq(UpdateRowSet) \X Requests -> Seq(UpdateRowSet)]
         /\ \A s \in Seq(UpdateRowSet) : \A r \in Requests :
               FlightStep(number)[<<s, r>>]
                 = IF r.number = number THEN s \o UpdateRows(r.toStore) ELSE s
<1>1. \A s \in Seq(UpdateRowSet) : \A r \in Requests :
         (IF r.number = number THEN s \o UpdateRows(r.toStore) ELSE s) \in Seq(UpdateRowSet)
  <2> TAKE s \in Seq(UpdateRowSet)
  <2> TAKE r \in Requests
  <2>1. r.toStore \in ToStore
    BY DEF Requests, BlockRequests, PendingRequests
  <2>2. UpdateRows(r.toStore) \in Seq(UpdateRowSet)
    BY <2>1, UpdateRowsTyped
  <2> QED BY <2>2, ConcatProperties
<1>2. \A s \in Seq(UpdateRowSet) : \A r \in Requests : <<s, r>> \in Seq(UpdateRowSet) \X Requests
  OBVIOUS
<1> QED BY <1>1, <1>2 DEF FlightStep

\* It is a fold over the channel.
LEMMA FlightFolds ==
  ASSUME NEW number \in Nat, NEW q \in Seq(Requests), NEW s \in Seq(UpdateRowSet)
  PROVE  Folds(q, Seq(UpdateRowSet), FlightStep(number), s, FlightOf(number, q, s))
<1> DEFINE n == Len(q)
           P(g) == g = [d \in SUBSET DOMAIN q |->
                          IF d = {} THEN s
                          ELSE IF q[Max(d)].number = number THEN g[d \ {Max(d)}] \o UpdateRows(q[Max(d)].toStore)
                               ELSE g[d \ {Max(d)}]]
           G == CHOOSE g : P(g)
<1>0. n \in Nat /\ DOMAIN q = 1 .. n /\ \A i \in 1 .. n : q[i] \in Requests
  BY LenProperties, ElementOfSeq
<1>1. \A d \in SUBSET (1 .. n) : d # {} => Max(d) \in 1 .. n /\ Max(d) \in d
  BY ONLY n \in Nat, LastIsPicked
<1>2. FlightOf(number, q, s) = G[DOMAIN q]
  BY Zenon DEF FlightOf, FoldLeft, MapThenFoldSet
<1>3. PICK H : H \in [SUBSET (1 .. n) -> Seq(UpdateRowSet)] /\ FoldEquation(H, n, q, s, FlightStep(number))
  BY FlightStepTyped, FoldExists
<1> HIDE DEF n
<1>4. P(H)
  <2>1. H = [d \in SUBSET (1 .. n) |->
                IF d = {} THEN s ELSE FlightStep(number)[<<H[d \ {Max(d)}], q[Max(d)]>>]]
    BY <1>3 DEF FoldEquation
  <2>2. \A d \in SUBSET (1 .. n) : d # {} =>
           FlightStep(number)[<<H[d \ {Max(d)}], q[Max(d)]>>]
             = IF q[Max(d)].number = number THEN H[d \ {Max(d)}] \o UpdateRows(q[Max(d)].toStore)
               ELSE H[d \ {Max(d)}]
    <3> TAKE d \in SUBSET (1 .. n)
    <3> HAVE d # {}
    <3>1. q[Max(d)] \in Requests /\ H[d \ {Max(d)}] \in Seq(UpdateRowSet)
      BY <1>0, <1>1, <1>3
    <3> QED BY <3>1, FlightStepTyped
  <2> QED BY <1>0, <2>1, <2>2, Zenon
<1>5. P(G)
  BY <1>4, Zenon
<1>6. G[{}] = s
  BY <1>5, Zenon
<1>7. \A d \in SUBSET (1 .. n) : d # {} /\ G[d \ {Max(d)}] \in Seq(UpdateRowSet) =>
         G[d] = FlightStep(number)[<<G[d \ {Max(d)}], q[Max(d)]>>]
  <2> TAKE d \in SUBSET (1 .. n)
  <2> HAVE d # {} /\ G[d \ {Max(d)}] \in Seq(UpdateRowSet)
  <2>1. G[d] = IF q[Max(d)].number = number THEN G[d \ {Max(d)}] \o UpdateRows(q[Max(d)].toStore)
               ELSE G[d \ {Max(d)}]
    BY <1>0, <1>5, Zenon
  <2> DEFINE a == G[d \ {Max(d)}]
             e == q[Max(d)]
  <2>2. e \in Requests
    BY <1>0, <1>1
  <2>3. a \in Seq(UpdateRowSet) /\ G[d] = IF e.number = number THEN a \o UpdateRows(e.toStore) ELSE a
    BY <2>1, Zenon
  <2> HIDE DEF G, a, e
  <2>4. G[d] = FlightStep(number)[<<a, e>>]
    BY <2>2, <2>3, FlightStepTyped
  <2> QED BY <2>4 DEF a, e
<1> HIDE DEF G
<1>8. Folds(q, Seq(UpdateRowSet), FlightStep(number), s, G[1 .. n])
  BY <1>6, <1>7, FlightStepTyped, FoldFollows DEF n
<1> QED BY <1>0, <1>2, <1>8

\* A request enters the channel.
LEMMA FlightPush ==
  ASSUME NEW number \in Nat, NEW q \in Seq(Requests), NEW s \in Seq(UpdateRowSet), NEW r \in Requests
  PROVE  FlightOf(number, Append(q, r), s)
           = IF r.number = number THEN FlightOf(number, q, s) \o UpdateRows(r.toStore)
             ELSE FlightOf(number, q, s)
<1>1. Append(q, r) \in Seq(Requests)
  BY AppendProperties
<1> DEFINE V == Seq(UpdateRowSet)
           step == FlightStep(number)
           v == FlightOf(number, q, s)
           w == FlightOf(number, Append(q, r), s)
<1>2. Folds(q, V, step, s, v) /\ v \in V
  BY FlightFolds, FoldsTyped
<1>3. Folds(Append(q, r), V, step, s, w)
  BY <1>1, FlightFolds
<1>4. /\ step \in [V \X Requests -> V]
       /\ step[<<v, r>>] = IF r.number = number THEN v \o UpdateRows(r.toStore)
                                                        ELSE v
  BY <1>2, FlightStepTyped
<1> HIDE DEF V, step, v, w
<1>5. Folds(Append(q, r), V, step, s, step[<<v, r>>])
  BY <1>2, <1>4, FoldsPush
<1>6. w = step[<<v, r>>]
  BY <1>1, <1>3, <1>5, FoldsOnce
<1> QED BY <1>4, <1>6 DEF v, w

\* The first request of the channel is stored.
LEMMA FlightPop ==
  ASSUME NEW number \in Nat, NEW q \in Seq(Requests), q # <<>>, NEW s \in Seq(UpdateRowSet)
  PROVE  FlightOf(number, q, s)
           = FlightOf(number, Tail(q),
                IF Head(q).number = number THEN s \o UpdateRows(Head(q).toStore) ELSE s)
<1> DEFINE V == Seq(UpdateRowSet)
           step == FlightStep(number)
           r == Head(q)
           z == IF r.number = number THEN s \o UpdateRows(r.toStore) ELSE s
           v == FlightOf(number, q, s)
           w == FlightOf(number, Tail(q), z)
<1>1. r \in Requests /\ Tail(q) \in Seq(Requests)
  BY HeadTailProperties
<1>2. step \in [V \X Requests -> V] /\ step[<<s, r>>] = z /\ s \in V
  BY <1>1, FlightStepTyped
<1> HIDE DEF z
<1>3. z \in V
  <2> HIDE DEF V, step
  <2> QED BY <1>1, <1>2
<1>4. Folds(Tail(q), V, step, z, w)
  BY <1>1, <1>3, FlightFolds
<1>5. Folds(q, V, step, s, v)
  BY FlightFolds
<1>6. s \in V
  OBVIOUS
<1> HIDE DEF V, step, v, w
<1>7. Folds(q, V, step, s, w)
  BY <1>2, <1>4, <1>6, FoldsPop DEF r
<1>8. v = w
  BY <1>5, <1>7, FoldsOnce
<1> QED BY <1>8 DEF v, w, z, r

\* No request of the channel is for the block.
LEMMA FlightNone ==
  ASSUME NEW number \in Nat, NEW q \in Seq(Requests), NEW s \in Seq(UpdateRowSet),
         \A k \in 1 .. Len(q) : q[k].number # number
  PROVE  FlightOf(number, q, s) = s
<1> DEFINE V == Seq(UpdateRowSet)
           step == FlightStep(number)
           v == FlightOf(number, q, s)
           n == Len(q)
           t == [i \in 0 .. n |-> s]
<1>1. Folds(q, V, step, s, v)
  BY FlightFolds
<1>2. n \in Nat /\ \A k \in 1 .. n : q[k] \in Requests /\ q[k].number # number
  BY LenProperties, ElementOfSeq
<1>3. \A k \in 1 .. n : step[<<s, q[k]>>] = s
  BY <1>2, FlightStepTyped
<1>4. s \in V
  OBVIOUS
<1> HIDE DEF V, step, v
<1>5. t \in [0 .. n -> V] /\ t[0] = s /\ t[n] = s /\ \A i \in 1 .. n : t[i] = step[<<t[i - 1], q[i]>>]
  <2> HIDE DEF n
  <2>1. 0 \in 0 .. n /\ n \in 0 .. n /\ \A i \in 1 .. n : i \in 0 .. n /\ i - 1 \in 0 .. n
    BY <1>2
  <2> QED BY <1>3, <1>4, <2>1
<1> HIDE DEF t
<1>6. Folds(q, V, step, s, s)
  BY <1>5 DEF Folds
<1>7. v = s
  BY <1>1, <1>6, FoldsOnce
<1> QED BY <1>7 DEF v

-----------------------------------------------------------------------------
(* What is loaded is what was stored *)

\* The updates as rows, numbered from zero.
RowsFrom(us) == UpdateRows([first |-> 0, updates |-> us])

\* The rows of the updates of a block, numbered from zero.
LEMMA RowsFromFacts ==
  ASSUME NEW us \in Seq(Updates)
  PROVE  /\ RowsFrom(us) \in Seq(UpdateRowSet) /\ Len(RowsFrom(us)) = Len(us)
         /\ \A k \in 1 .. Len(us) : RowsFrom(us)[k] = [order |-> k - 1, update |-> us[k]]
<1> DEFINE t == [first |-> 0, updates |-> us]
           n == Len(us)
<1>1. t \in ToStore /\ t.first = 0 /\ t.updates = us
  BY DEF ToStore
<1>2. n \in Nat /\ DOMAIN us = 1 .. n
  BY LenProperties
<1>3. RowsFrom(us) = [k \in 1 .. n |-> [order |-> 0 + k - 1, update |-> us[k]]]
  BY <1>2 DEF RowsFrom, UpdateRows
<1>4. RowsFrom(us) \in Seq(UpdateRowSet) /\ Len(RowsFrom(us)) = n
  <2> HIDE DEF t
  <2> QED BY <1>1, UpdateRowsTyped DEF RowsFrom, t
<1>5. \A k \in 1 .. n : RowsFrom(us)[k] = [order |-> k - 1, update |-> us[k]]
  BY <1>2, <1>3
<1> QED BY <1>4, <1>5

\* The updates of a request continue the numbers.
LEMMA RowsJoin ==
  ASSUME NEW us \in Seq(Updates), NEW t \in ToStore, t.first = Len(us)
  PROVE  RowsFrom(us) \o UpdateRows(t) = RowsFrom(us \o t.updates)
<1> DEFINE vs == t.updates
           n == Len(us)
           m == Len(vs)
           a == RowsFrom(us)
           b == UpdateRows(t)
           ws == us \o vs
           c == RowsFrom(ws)
<1>1. vs \in Seq(Updates) /\ n \in Nat /\ m \in Nat
  BY LenProperties DEF ToStore
<1>2. /\ ws \in Seq(Updates) /\ Len(ws) = n + m /\ \A k \in 1 .. n : ws[k] = us[k]
      /\ \A k \in n + 1 .. n + m : ws[k] = vs[k - n]
  BY <1>1, ConcatProperties
<1>3. a \in Seq(UpdateRowSet) /\ Len(a) = n /\ \A k \in 1 .. n : a[k] = [order |-> k - 1, update |-> us[k]]
  BY RowsFromFacts
<1>4. b \in Seq(UpdateRowSet) /\ Len(b) = m
  BY UpdateRowsTyped
<1>5. \A k \in 1 .. m : b[k] = [order |-> n + k - 1, update |-> vs[k]]
  <2>1. DOMAIN vs = 1 .. m
    BY <1>1, LenProperties
  <2> QED BY <2>1 DEF UpdateRows
<1>6. /\ c \in Seq(UpdateRowSet) /\ Len(c) = n + m
      /\ \A k \in 1 .. n + m : c[k] = [order |-> k - 1, update |-> ws[k]]
  <2> HIDE DEF ws
  <2> QED BY <1>2, RowsFromFacts
<1> HIDE DEF vs, n, m, a, b, ws, c
<1> DEFINE d == a \o b
<1>7. /\ d \in Seq(UpdateRowSet) /\ Len(d) = n + m /\ \A k \in 1 .. n : d[k] = a[k]
      /\ \A k \in n + 1 .. n + m : d[k] = b[k - n]
  <2>1. /\ a \o b \in Seq(UpdateRowSet) /\ Len(a \o b) = Len(a) + Len(b)
        /\ \A k \in 1 .. Len(a) + Len(b) :
              (a \o b)[k] = IF k <= Len(a) THEN a[k] ELSE b[k - Len(a)]
    <3>1. a \in Seq(UpdateRowSet) /\ b \in Seq(UpdateRowSet)
      BY <1>3, <1>4
    <3> QED BY <3>1, ConcatProperties
  <2> HIDE DEF d
  <2>2. /\ d \in Seq(UpdateRowSet) /\ Len(d) = n + m
        /\ \A k \in 1 .. n + m : d[k] = IF k <= n THEN a[k] ELSE b[k - n]
    BY <1>3, <1>4, <2>1 DEF d
  <2> QED BY <1>1, <2>2
<1> HIDE DEF d
<1>8. \A k \in 1 .. n + m : d[k] = c[k]
  <2> TAKE k \in 1 .. n + m
  <2>1. CASE k \in 1 .. n
    BY <1>2, <1>3, <1>6, <1>7, <2>1
  <2>2. CASE k \in n + 1 .. n + m
    <3>1. k - n \in 1 .. m
      BY <1>1, <2>2
    <3>2. d[k] = [order |-> n + (k - n) - 1, update |-> vs[k - n]]
      BY <1>5, <1>7, <2>2, <3>1
    <3>3. n + (k - n) - 1 = k - 1
      BY <1>1, <2>2
    <3>4. c[k] = [order |-> k - 1, update |-> vs[k - n]]
      BY <1>2, <1>6, <2>2
    <3> QED BY <3>2, <3>3, <3>4
  <2> QED BY <1>1, <2>1, <2>2
<1>9. d = c
  BY <1>1, <1>6, <1>7, <1>8, SeqEqual
<1> QED BY <1>9 DEF d, a, b, c, ws, vs

\* The updates come back in their order.
LEMMA LoadedUpdatesAre ==
  ASSUME NEW number, NEW us \in Seq(Updates), StoredFor(number) = RowsFrom(us)
  PROVE  LoadedUpdates(number) = us
<1> DEFINE rows == RowsFrom(us)
           n == Len(us)
           keys == [k \in DOMAIN rows |-> rows[k].order]
<1>1. /\ rows \in Seq(UpdateRowSet) /\ Len(rows) = n
      /\ \A k \in 1 .. n : rows[k] = [order |-> k - 1, update |-> us[k]]
  BY RowsFromFacts
<1>2. n \in Nat /\ DOMAIN us = 1 .. n
  BY LenProperties
<1>3. DOMAIN rows = 1 .. n
  BY <1>1, LenProperties
<1>4. LoadedUpdates(number)
        = [k \in DOMAIN SortedBy(rows, keys) |-> SortedBy(rows, keys)[k].update]
  BY Zenon DEF LoadedUpdates
<1> HIDE DEF rows, n
<1>5. \A k \in 1 .. n : keys[k] = k - 1
  BY <1>1, <1>3
<1>6. keys \in [DOMAIN rows -> Int]
  <2>1. \A k \in DOMAIN rows : rows[k].order \in Int
    BY <1>1, <1>3
  <2> QED BY <2>1
<1> HIDE DEF keys
<1>7. \A i \in 1 .. n : keys[i] \in 0 .. n - 1 /\ rows[i] = rows[keys[i] + 1]
  <2> TAKE i \in 1 .. n
  <2>1. keys[i] = i - 1 /\ (i - 1) + 1 = i
    BY <1>2, <1>5
  <2> QED BY <1>2, <2>1
<1>8. \A i, j \in 1 .. n : keys[i] = keys[j] => i = j
  BY <1>2, <1>5
<1>9. SortedBy(rows, keys) = rows
  BY <1>1, <1>6, <1>7, <1>8, SortPlaces
<1>10. LoadedUpdates(number) = [k \in 1 .. n |-> rows[k].update]
  BY <1>3, <1>4, <1>9
<1>11. \A k \in 1 .. n : rows[k].update = us[k]
  BY <1>1
<1>12. LoadedUpdates(number) = [k \in 1 .. n |-> us[k]]
  BY <1>10, <1>11
<1>13. us = [k \in 1 .. n |-> us[k]]
  BY <1>2, LenProperties
<1> QED BY <1>12, <1>13

\* An operation is what its row says.
LEMMA OpIs ==
  ASSUME NEW o \in Ops
  PROVE  /\ o.type \in {"tx", "priority"}
         /\ o.type = "tx" => o = TxOp(o.tx, o.op, o.index)
         /\ o.type # "tx" => o = PriorityOp(o.id, o.op, o.index)
<1>1. CASE o \in TxOps
  <2>1. PICK tx \in AllTxs, op \in OpNames, i \in Nat : o = TxOp(tx, op, i)
    BY <1>1 DEF TxOps
  <2> QED BY <2>1 DEF TxOp
<1>2. CASE o \in PriorityOpsDone
  <2>1. PICK id \in Ids, i \in Nat : o = PriorityOp(id, PriorityOps[id + 1].kind, i)
    BY <1>2 DEF PriorityOpsDone
  <2> QED BY <2>1 DEF PriorityOp
<1> QED BY <1>1, <1>2 DEF Ops

\* The rows of a block are its operations.
LEMMA StoredAre ==
  ASSUME NEW all \in Lines, NEW n \in DOMAIN all,
         TxsHold(execTxs, all), IdsHold(execPriorityOps, all)
  PROVE  StoredTxs(n) \cup StoredPriorityOps(n) = Range(all[n])
<1> DEFINE ops == all[n]
<1>1. ops \in Seq(Ops)
  BY LenProperties, ElementOfSeq DEF Lines
<1>2. \A k \in DOMAIN ops : ops[k] \in Ops
  BY <1>1, LenProperties, ElementOfSeq
<1> HIDE DEF ops
<1>3. ASSUME NEW o \in StoredTxs(n)
      PROVE  o \in Range(ops)
  <2>1. PICK x \in DOMAIN execTxs : /\ execTxs[x].block = n /\ execTxs[x].success
                                    /\ o = TxOp(x, execTxs[x].op, execTxs[x].index)
    BY <1>3 DEF StoredTxs
  <2>2. execTxs[x].success = TRUE => \E m \in DOMAIN all : \E k \in TxsOf(all[m]) :
           all[m][k].tx = x /\ execTxs[x] = TxRow(m, all[m][k])
    BY DEF TxsHold
  <2>3. PICK m \in DOMAIN all : \E k \in TxsOf(all[m]) :
           all[m][k].tx = x /\ execTxs[x] = TxRow(m, all[m][k])
    <3>1. \/ execTxs[x].success = TRUE
          \/ \E m \in DOMAIN all : \E k \in TxsOf(all[m]) :
                all[m][k].tx = x /\ execTxs[x] = TxRow(m, all[m][k])
      BY <2>1, Zenon
    <3> QED BY <2>2, <3>1
  <2>4. PICK k \in TxsOf(all[m]) : all[m][k].tx = x /\ execTxs[x] = TxRow(m, all[m][k])
    BY <2>3
  <2>5. m = n
    BY <2>1, <2>4 DEF TxRow
  <2>6. k \in DOMAIN ops /\ ops[k].type = "tx" /\ ops[k].tx = x
        /\ execTxs[x] = TxRow(n, ops[k])
    BY <2>4, <2>5 DEF TxsOf, ops
  <2>7. o = TxOp(ops[k].tx, ops[k].op, ops[k].index)
    BY <2>1, <2>6 DEF TxRow
  <2>8. o = ops[k]
    BY <1>2, <2>6, <2>7, OpIs
  <2> QED BY <2>6, <2>8 DEF Range
<1>4. ASSUME NEW o \in StoredPriorityOps(n)
      PROVE  o \in Range(ops)
  <2>1. PICK x \in DOMAIN execPriorityOps :
           /\ execPriorityOps[x].block = n
           /\ o = PriorityOp(x, execPriorityOps[x].op, execPriorityOps[x].index)
    BY <1>4 DEF StoredPriorityOps
  <2>3. PICK m \in DOMAIN all : \E k \in PrioritiesOf(all[m]) :
           all[m][k].id = x /\ execPriorityOps[x] = PriorityRow(m, all[m][k])
    BY DEF IdsHold
  <2>4. PICK k \in PrioritiesOf(all[m]) :
           all[m][k].id = x /\ execPriorityOps[x] = PriorityRow(m, all[m][k])
    BY <2>3
  <2>5. m = n
    BY <2>1, <2>4 DEF PriorityRow
  <2>6. k \in DOMAIN ops /\ ops[k].type # "tx" /\ ops[k].id = x
        /\ execPriorityOps[x] = PriorityRow(n, ops[k])
    BY <2>4, <2>5 DEF PrioritiesOf, ops
  <2>7. o = PriorityOp(ops[k].id, ops[k].op, ops[k].index)
    BY <2>1, <2>6 DEF PriorityRow
  <2>8. o = ops[k]
    BY <1>2, <2>6, <2>7, OpIs
  <2> QED BY <2>6, <2>8 DEF Range
<1>5. ASSUME NEW k \in DOMAIN ops
      PROVE  ops[k] \in StoredTxs(n) \cup StoredPriorityOps(n)
  <2> DEFINE o == ops[k]
  <2>1. o \in Ops
    BY <1>2
  <2>2. CASE o.type = "tx"
    <3>1. k \in TxsOf(all[n])
      BY <2>2 DEF TxsOf, ops
    <3>2. o.tx \in DOMAIN execTxs /\ execTxs[o.tx] = TxRow(n, o)
      BY <3>1 DEF TxsHold, ops
    <3> HIDE DEF o
    <3>3. /\ execTxs[o.tx].block = n /\ execTxs[o.tx].success = TRUE
          /\ execTxs[o.tx].op = o.op /\ execTxs[o.tx].index = o.index
      BY <3>2 DEF TxRow
    <3>4. o = TxOp(o.tx, execTxs[o.tx].op, execTxs[o.tx].index)
      BY <2>1, <2>2, <3>3, OpIs
    <3>5. o \in StoredTxs(n)
      BY <3>2, <3>3, <3>4, Zenon DEF StoredTxs
    <3> QED BY <3>5 DEF o
  <2>3. CASE o.type # "tx"
    <3>1. k \in PrioritiesOf(all[n])
      BY <2>3 DEF PrioritiesOf, ops
    <3>2. o.id \in DOMAIN execPriorityOps /\ execPriorityOps[o.id] = PriorityRow(n, o)
      BY <3>1 DEF IdsHold, ops
    <3> HIDE DEF o
    <3>3. /\ execPriorityOps[o.id].block = n
          /\ execPriorityOps[o.id].op = o.op /\ execPriorityOps[o.id].index = o.index
      BY <3>2 DEF PriorityRow
    <3>4. o = PriorityOp(o.id, execPriorityOps[o.id].op, execPriorityOps[o.id].index)
      BY <2>1, <2>3, <3>3, OpIs
    <3>5. o \in StoredPriorityOps(n)
      BY <3>2, <3>3, <3>4, Zenon DEF StoredPriorityOps
    <3> QED BY <3>5 DEF o
  <2> QED BY <2>2, <2>3
<1>6. Range(ops) \subseteq StoredTxs(n) \cup StoredPriorityOps(n)
  BY <1>5 DEF Range
<1> QED BY <1>3, <1>4, <1>6 DEF ops

\* They come back in their order.
LEMMA LoadedOpsAre ==
  ASSUME NEW all \in Lines, NEW n \in DOMAIN all, Indexed(all[n]),
         TxsHold(execTxs, all), IdsHold(execPriorityOps, all)
  PROVE  LoadedOps(n) = all[n]
<1> DEFINE t == all[n]
           m == Len(t)
           U == Range(t)
           rows == SetToSeq(U)
           keys == [k \in DOMAIN rows |-> rows[k].index]
<1>1. t \in Seq(Ops)
  BY LenProperties, ElementOfSeq DEF Lines
<1>2. /\ m \in Nat /\ DOMAIN t = 1 .. m /\ t \in [1 .. m -> Ops]
      /\ \A k \in 1 .. m : t[k] \in Ops /\ t[k].index = k - 1
  BY <1>1, LenProperties, ElementOfSeq DEF Indexed
<1>3. LoadedOps(n) = SortedBy(rows, keys)
  <2>1. StoredTxs(n) \cup StoredPriorityOps(n) = U
    BY StoredAre
  <2>2. LoadedOps(n) = ByIndex(SetToSeq(StoredTxs(n) \cup StoredPriorityOps(n)))
    BY DEF LoadedOps
  <2> HIDE DEF U
  <2>3. LoadedOps(n) = ByIndex(rows)
    BY <2>1, <2>2
  <2> QED BY <2>3, Zenon DEF ByIndex
<1> HIDE DEF t, m
<1>4. U = {t[k] : k \in 1 .. m}
  BY <1>2 DEF Range
<1> HIDE DEF U
<1>5. IsFiniteSet(1 .. m) /\ Cardinality(1 .. m) = m
  <2>1. 1 \in Int /\ m \in Int
    BY <1>2
  <2>2. IsFiniteSet(1 .. m) /\ Cardinality(1 .. m) = IF 1 > m THEN 0 ELSE m - 1 + 1
    BY <2>1, FS_Interval
  <2> QED BY <1>2, <2>2
<1>6. IsFiniteSet(U) /\ Cardinality(U) = m
  <2>1. t \in Surjection(1 .. m, U)
    <3>1. t \in [1 .. m -> U]
      BY <1>2, <1>4
    <3> QED BY <1>4, <3>1 DEF Surjection
  <2>2. t \in Injection(1 .. m, U)
    <3>1. \A i, j \in 1 .. m : t[i] = t[j] => i = j
      <4> TAKE i, j \in 1 .. m
      <4> HAVE t[i] = t[j]
      <4>1. i - 1 = j - 1
        BY <1>2
      <4> QED BY <1>2, <4>1
    <3>2. t \in [1 .. m -> U] /\ DOMAIN t = 1 .. m
      BY <1>2, <1>4
    <3> QED BY <3>1, <3>2 DEF Injection, IsInjective
  <2> QED BY <1>5, <2>1, <2>2, FS_Surjection
<1>7. /\ rows \in Seq(U) /\ Len(rows) = m
      /\ \A i, j \in 1 .. m : rows[i] = rows[j] => i = j
  BY <1>6, SetListed
<1>8. DOMAIN rows = 1 .. m /\ \A i \in 1 .. m : rows[i] \in U
  BY <1>7, LenProperties, ElementOfSeq
<1> HIDE DEF rows
<1>9. \A i \in 1 .. m : \E k \in 1 .. m : rows[i] = t[k] /\ rows[i].index = k - 1
  BY <1>2, <1>4, <1>8
<1>10. \A i \in 1 .. m : keys[i] = rows[i].index
  BY <1>8
<1>11. keys \in [DOMAIN rows -> Int]
  <2>1. \A k \in 1 .. m : rows[k].index \in Int
    <3> TAKE k \in 1 .. m
    <3>1. PICK j \in 1 .. m : rows[k].index = j - 1
      BY <1>9, Zenon
    <3>2. j - 1 \in Int
      BY <1>2
    <3> QED BY <3>1, <3>2, Zenon
  <2> QED BY <1>8, <2>1
<1> HIDE DEF keys
<1>12. \A i \in 1 .. m : keys[i] \in 0 .. m - 1 /\ rows[i] = t[keys[i] + 1]
  <2> TAKE i \in 1 .. m
  <2>1. PICK k \in 1 .. m : rows[i] = t[k] /\ rows[i].index = k - 1
    BY <1>9, Zenon
  <2>2. keys[i] = k - 1 /\ (k - 1) + 1 = k
    BY <1>2, <1>10, <2>1
  <2> QED BY <1>2, <2>1, <2>2
<1>13. \A i, j \in 1 .. m : keys[i] = keys[j] => i = j
  <2> TAKE i, j \in 1 .. m
  <2> HAVE keys[i] = keys[j]
  <2>1. rows[i] = rows[j]
    BY <1>12
  <2> QED BY <1>7, <2>1
<1>14. rows \in Seq(Ops)
  <2>1. U \subseteq Ops
    BY <1>2, <1>4
  <2> QED BY <1>7, <2>1, SeqMonotonic
<1>15. t \in Seq(Ops) /\ Len(t) = Len(rows)
  BY <1>1, <1>7 DEF t, m
<1>16. SortedBy(rows, keys) = t
  <2>1. /\ \A i \in 1 .. Len(rows) : keys[i] \in 0 .. Len(rows) - 1 /\ rows[i] = t[keys[i] + 1]
        /\ \A i, j \in 1 .. Len(rows) : keys[i] = keys[j] => i = j
    BY <1>7, <1>12, <1>13
  <2> QED BY <1>11, <1>14, <1>15, <2>1, SortPlaces
<1> QED BY <1>3, <1>16 DEF t

-----------------------------------------------------------------------------
(* The invariant: the database, the channel and the keeper follow each other *)

\* The stored updates of a block lead from the root before it to its own, and
\* its priority operations are those of its range.
BlockSound(n) ==
  /\ \E us \in Seq(Updates) : /\ Leads(RootAt(n - 1), us, RootAt(n))
                              /\ StoredFor(n) = RowsFrom(us)
  /\ IdsOf(sealed[n]) = Interval(blocks[n].before, blocks[n].after)

\* Frontier f is what the tables hold.
InDatabase(f) ==
  /\ f.line = sealed /\ f.base = RootAt(Len(blocks))
  /\ f.before = UnprocessedPriorityOp(Len(blocks))
  /\ TxsHold(execTxs, Append(f.line, f.ops)) /\ IdsHold(execPriorityOps, Append(f.line, f.ops))
  /\ StoredFor(Len(blocks) + 1) = RowsFrom(f.at.updates)
  /\ \A n \in Nat : n > Len(blocks) + 1 => StoredFor(n) = <<>>
  /\ pendingRows \subseteq {Len(blocks) + 1} /\ (pendingRows = {} => f.ops = <<>>)
  /\ \A n \in 1 .. Len(blocks) : BlockSound(n)

\* The keeper has gone on from frontier g, the last one it has sent.
Ahead(g) ==
  /\ \E new : Runs(g.at, new, Here) /\ success = g.ops \o new
  /\ Indexed(success) /\ pending.index = Len(success)
  /\ pending.stored = Len(g.at.updates) /\ pending.before = g.before
  /\ blockNumber = Len(g.line) + 1

\* The channel leads from frontier f to the one the keeper has gone on from.
InFlight(f) ==
  \E g : /\ Path(commitQ, f, g) /\ g.line = LineOf(commitQ, sealed) /\ Sound(g) /\ Ahead(g)
         /\ FlightOf(blockNumber, commitQ, StoredFor(blockNumber)) = RowsFrom(g.at.updates)

\* The operations of frontier f are executed again, and lead where they led.
Restoring(f) ==
  /\ success \o restore.ops = f.ops /\ Runs(Here, restore.ops, f.at)
  /\ pending.index = Len(success) /\ pending.before = f.before
  /\ blockNumber = Len(blocks) + 1 /\ failed = <<>>

\* The mini-block continues the priority operations.
MiniOK ==
  /\ mode # "executing" => miniBlock = NoMiniBlock
  /\ \A k \in 1 .. Len(miniBlock.priorityOps) :
        miniBlock.priorityOps[k] = currentPriorityOp + k - 1

ChannelOK == mode \in {"restoring", "down"} => commitQ = <<>>

Follows(f) ==
  Sound(f) /\ InDatabase(f) /\ (Running => InFlight(f)) /\ (mode = "restoring" => Restoring(f))

FInv == MiniOK /\ ChannelOK /\ \E f : Follows(f)

-----------------------------------------------------------------------------
(* The keeper goes on *)

\* The tables of the blocks.
tables == <<blocks, pendingRows, execTxs, execPriorityOps, stateUpdates, sealed>>

\* What the tables hold is a matter of the tables.
LEMMA SameDatabase ==
  ASSUME NEW f, InDatabase(f), UNCHANGED tables
  PROVE  InDatabase(f)'
<1>1. /\ blocks' = blocks /\ pendingRows' = pendingRows /\ execTxs' = execTxs
      /\ execPriorityOps' = execPriorityOps /\ stateUpdates' = stateUpdates /\ sealed' = sealed
  BY DEF tables
<1>2. \A n : StoredFor(n)' = StoredFor(n) /\ RootAt(n)' = RootAt(n)
             /\ UnprocessedPriorityOp(n)' = UnprocessedPriorityOp(n)
  BY <1>1 DEF StoredFor, RootAt, UnprocessedPriorityOp
<1>3. \A n : BlockSound(n)' <=> BlockSound(n)
  BY <1>1, <1>2 DEF BlockSound
<1> QED BY <1>1, <1>2, <1>3 DEF InDatabase

\* The numbers go on.
LEMMA IndexedOn ==
  ASSUME NEW a \in Seq(Ops), NEW b \in Seq(Ops), Indexed(a),
         \A k \in 1 .. Len(b) : b[k].index = Len(a) + k - 1
  PROVE  Indexed(a \o b)
<1> DEFINE n == Len(a)
           m == Len(b)
           c == a \o b
<1>1. /\ n \in Nat /\ m \in Nat /\ Len(c) = n + m /\ \A k \in 1 .. n : c[k] = a[k]
      /\ \A k \in n + 1 .. n + m : c[k] = b[k - n]
  BY LenProperties, ConcatProperties
<1>2. /\ \A k \in 1 .. n : a[k].index = k - 1
      /\ \A k \in 1 .. m : b[k].index = n + k - 1
  BY DEF Indexed
<1> HIDE DEF n, m, c
<1>3. ASSUME NEW k \in 1 .. n + m
      PROVE  c[k].index = k - 1
  <2>1. CASE k \in 1 .. n
    BY <1>1, <1>2, <2>1
  <2>2. CASE k \in n + 1 .. n + m
    <3> DEFINE i == k - n
    <3>1. i \in 1 .. m /\ n + i - 1 = k - 1
      BY <1>1, <2>2
    <3>2. c[k] = b[i]
      BY <1>1, <2>2
    <3> HIDE DEF i
    <3>3. b[i].index = n + i - 1
      BY <1>2, <3>1
    <3> QED BY <3>1, <3>2, <3>3
  <2> QED BY <1>1, <2>1, <2>2
<1> QED BY <1>1, <1>3 DEF Indexed, c

\* Operations joined in two ways.
LEMMA JoinOps ==
  ASSUME NEW a \in Seq(Ops), NEW b \in Seq(Ops), NEW c \in Seq(Ops)
  PROVE  (a \o b) \o c = a \o (b \o c)
BY ConcatAssociative

\* Operations joined, place by place.
LEMMA JoinedOps ==
  ASSUME NEW a \in Seq(Ops), NEW b \in Seq(Ops)
  PROVE  /\ Len(a \o b) = Len(a) + Len(b)
         /\ \A k \in 1 .. Len(a) + Len(b) :
               (a \o b)[k] = IF k <= Len(a) THEN a[k] ELSE b[k - Len(a)]
BY ConcatProperties

\* Executing operations leads on from the same frontier.
LEMMA AheadOn ==
  ASSUME IInv, DataOK, NEW g, Sound(g), Ahead(g), NEW ops, Runs(Here, ops, Here'),
         success' = success \o ops, \A k \in 1 .. Len(ops) : ops[k].index = pending.index + k - 1,
         pending'.index = pending.index + Len(ops), pending'.stored = pending.stored,
         pending'.before = pending.before, blockNumber' = blockNumber
  PROVE  Ahead(g)'
<1>1. PICK new : Runs(g.at, new, Here) /\ success = g.ops \o new
  BY DEF Ahead
<1>2. /\ new \in Seq(Ops) /\ ops \in Seq(Ops) /\ g.ops \in Seq(Ops) /\ success \in Seq(Ops)
  BY <1>1, RunFacts DEF Sound, DataOK, KeeperOK
<1>3. Runs(g.at, new \o ops, Here')
  BY <1>1, RunsJoin
<1>4. success' = g.ops \o (new \o ops)
  <2>1. (g.ops \o new) \o ops = g.ops \o (new \o ops)
    <3> DEFINE old == g.ops
    <3>1. old \in Seq(Ops)
      BY <1>2
    <3> HIDE DEF old
    <3>2. (old \o new) \o ops = old \o (new \o ops)
      BY <1>2, <3>1, JoinOps
    <3> QED BY <3>2 DEF old
  <2>2. success' = (g.ops \o new) \o ops
    BY <1>1, Zenon
  <2> QED BY <2>1, <2>2, Zenon
<1>5. Indexed(success')
  <2>1. Indexed(success) /\ pending.index = Len(success)
    BY DEF Ahead
  <2>2. Indexed(success \o ops)
    BY <1>2, <2>1, IndexedOn
  <2> QED BY <2>2
<1>6. pending'.index = Len(success')
  <2>1. Len(success \o ops) = Len(success) + Len(ops)
    BY <1>2, ConcatProperties
  <2> QED BY <2>1 DEF Ahead
<1>7. \E n : Runs(g.at, n, Here') /\ success' = g.ops \o n
  BY <1>3, <1>4
<1>8. /\ pending'.stored = Len(g.at.updates) /\ pending'.before = g.before
      /\ blockNumber' = Len(g.line) + 1
  BY DEF Ahead
<1> QED BY <1>5, <1>6, <1>7, <1>8 DEF Ahead

\* The channel and the database as they were, the keeper has gone on.
LEMMA InFlightOn ==
  ASSUME NEW f, InFlight(f), UNCHANGED <<commitQ, tables, blockNumber>>,
         \A g : Sound(g) /\ Ahead(g) => Ahead(g)'
  PROVE  InFlight(f)'
<1>1. PICK g : /\ Path(commitQ, f, g) /\ g.line = LineOf(commitQ, sealed) /\ Sound(g) /\ Ahead(g)
               /\ FlightOf(blockNumber, commitQ, StoredFor(blockNumber)) = RowsFrom(g.at.updates)
  BY DEF InFlight
<1>2. commitQ' = commitQ /\ sealed' = sealed /\ stateUpdates' = stateUpdates
      /\ blockNumber' = blockNumber
  BY DEF tables
<1>3. StoredFor(blockNumber)' = StoredFor(blockNumber)
  BY <1>2 DEF StoredFor
<1>4. Ahead(g)'
  BY <1>1
<1> QED BY <1>1, <1>2, <1>3, <1>4 DEF InFlight

\* The numbers of the operations a batch leaves.
LEMMA OpsOfIndexed ==
  ASSUME NEW txs, NEW results, NEW from \in Nat, OpsOf(txs, results, from) \in Seq(Ops)
  PROVE  \A k \in 1 .. Len(OpsOf(txs, results, from)) :
            OpsOf(txs, results, from)[k].index = from + k - 1
<1> DEFINE ops == OpsOf(txs, results, from)
<1>1. DOMAIN ops = 1 .. Len(ops) /\ Len(ops) \in Nat
  BY LenProperties
<1>2. DOMAIN ops = DOMAIN results
  BY DEF OpsOf
<1>3. \A k \in DOMAIN results : ops[k].index = from + k - 1
  BY DEF OpsOf, TxOp
<1> HIDE DEF ops
<1> QED BY <1>1, <1>2, <1>3 DEF ops

\* Executing a transaction or a batch.
LEMMA TxsAhead ==
  ASSUME IInv, DataOK, NEW txs \in Seq(AllTxs), ApplyTxs(txs)
  PROVE  \A g : Sound(g) /\ Ahead(g) => Ahead(g)'
<1> SUFFICES ASSUME NEW g, Sound(g), Ahead(g)
             PROVE  Ahead(g)'
  OBVIOUS
<1>1. KeeperOK /\ pending.index \in Nat
  BY DEF DataOK, KeeperOK
<1>2. /\ pending'.stored = pending.stored /\ blockNumber' = blockNumber
      /\ \E ops : /\ Runs(Here, ops, Here') /\ success' = success \o ops
                  /\ ops = OpsOf(txs, ExecuteBatch(accounts, txs).results, pending.index)
                  /\ \/ ops = <<>> /\ pending'.index = pending.index
                     \/ pending'.index = pending.index + Len(ops)
  <2> DEFINE rs == ExecuteBatch(accounts, txs).results
  <2>1. /\ pending'.stored = pending.stored /\ UNCHANGED <<blockNumber, currentPriorityOp>>
        /\ \E ops : /\ Runs(Here, ops, Here') /\ success' = success \o ops /\ Grows(ops)
                    /\ ops = OpsOf(txs, rs, pending.index)
                    /\ \/ rs = <<>> /\ ops = <<>> /\ failed' = failed \o txs
                          /\ pending'.index = pending.index
                       \/ /\ Len(ops) = Len(txs) /\ pending'.index = pending.index + Len(ops)
                          /\ failed' = failed \/ txs = <<>>
    BY <1>1, TxsRun
  <2> HIDE DEF rs
  <2>2. PICK ops : /\ Runs(Here, ops, Here') /\ success' = success \o ops /\ Grows(ops)
                    /\ ops = OpsOf(txs, rs, pending.index)
                    /\ \/ rs = <<>> /\ ops = <<>> /\ failed' = failed \o txs
                          /\ pending'.index = pending.index
                       \/ /\ Len(ops) = Len(txs) /\ pending'.index = pending.index + Len(ops)
                          /\ failed' = failed \/ txs = <<>>
    BY <2>1
  <2> QED BY <2>1, <2>2 DEF rs
<1>3. PICK ops : /\ Runs(Here, ops, Here') /\ success' = success \o ops
                 /\ ops = OpsOf(txs, ExecuteBatch(accounts, txs).results, pending.index)
                 /\ \/ ops = <<>> /\ pending'.index = pending.index
                    \/ pending'.index = pending.index + Len(ops)
  BY <1>2
<1>4. \A k \in 1 .. Len(ops) : ops[k].index = pending.index + k - 1
  <2>1. ops \in Seq(Ops)
    BY <1>3, RunFacts
  <2> QED BY <1>1, <1>3, <2>1, OpsOfIndexed
<1>5. pending'.index = pending.index + Len(ops)
  <2>1. ops = <<>> => Len(ops) = 0
    BY EmptySeq
  <2> QED BY <1>1, <1>3, <2>1
<1>6. pending'.before = pending.before
  BY ApplyKeepsOpen
<1> QED BY <1>2, <1>3, <1>4, <1>5, <1>6, AheadOn

\* Executing the next priority operation.
LEMMA PriorityAhead ==
  ASSUME IInv, DataOK, currentPriorityOp \in Ids, ApplyPriorityOp(currentPriorityOp)
  PROVE  \A g : Sound(g) /\ Ahead(g) => Ahead(g)'
<1> SUFFICES ASSUME NEW g, Sound(g), Ahead(g)
             PROVE  Ahead(g)'
  OBVIOUS
<1> DEFINE id == currentPriorityOp
           op == PriorityOp(id, PriorityOps[id + 1].kind, pending.index)
           ops == <<op>>
<1>1. KeeperOK /\ pending.index \in Nat
  BY DEF DataOK, KeeperOK
<1>2. /\ pending'.stored = pending.stored /\ blockNumber' = blockNumber
      /\ pending'.index = pending.index + 1
      /\ op \in Ops /\ Grows(ops) /\ Runs(Here, ops, Here')
  <2>1. /\ pending'.stored = pending.stored /\ UNCHANGED <<blockNumber, failed>>
        /\ pending'.index = pending.index + 1 /\ op \in Ops /\ Grows(<<op>>)
        /\ id = currentPriorityOp => Runs(Here, <<op>>, Here')
    BY <1>1, PriorityRun
  <2> QED BY <2>1
<1>3. op.index = pending.index /\ Len(ops) = 1 /\ ops[1] = op
  BY DEF PriorityOp
<1>4. success' = success \o ops
  BY <1>2 DEF Grows
<1>5. pending'.before = pending.before
  BY ApplyKeepsOpen
<1> HIDE DEF op, ops
<1>6. \A k \in 1 .. Len(ops) : ops[k].index = pending.index + k - 1
  BY <1>1, <1>3
<1>7. pending'.index = pending.index + Len(ops)
  BY <1>2, <1>3
<1> QED BY <1>2, <1>4, <1>5, <1>6, <1>7, AheadOn

\* The rest of a sequence.
LEMMA RestOfUpdates ==
  ASSUME NEW a \in Seq(Updates), NEW b \in Seq(Updates)
  PROVE  SubSeq(a \o b, Len(a) + 1, Len(a \o b)) = b /\ SubSeq(a \o b, 1, Len(a)) = a
<1> DEFINE n == Len(a)
           m == Len(b)
           c == a \o b
           t == SubSeq(c, n + 1, Len(c))
           h == SubSeq(c, 1, n)
<1>1. /\ n \in Nat /\ m \in Nat /\ c \in Seq(Updates) /\ Len(c) = n + m
      /\ \A k \in 1 .. n : c[k] = a[k]
      /\ \A k \in n + 1 .. n + m : c[k] = b[k - n]
  BY LenProperties, ConcatProperties
<1> HIDE DEF n, m, c
<1>2. t \in Seq(Updates) /\ Len(t) = m /\ \A k \in 1 .. m : t[k] = c[n + k]
  <2>1. n + 1 \in 1 .. Len(c) + 1 /\ Len(c) \in n .. Len(c)
    BY <1>1
  <2>2. t \in Seq(Updates)
    BY <1>1, SubSeqProperties
  <2>3. Len(t) = m /\ \A k \in 1 .. m : t[k] = c[n + k]
    BY <1>1
  <2> QED BY <2>2, <2>3
<1>3. h \in Seq(Updates) /\ Len(h) = n /\ \A k \in 1 .. n : h[k] = c[k]
  <2>1. h \in Seq(Updates)
    BY <1>1, SubSeqProperties
  <2>2. Len(h) = n /\ \A k \in 1 .. n : h[k] = c[k]
    BY <1>1
  <2> QED BY <2>1, <2>2
<1> HIDE DEF t, h
<1>4. t = b
  <2>1. \A k \in 1 .. m : t[k] = b[k]
    <3> TAKE k \in 1 .. m
    <3>1. n + k \in n + 1 .. n + m /\ (n + k) - n = k
      BY <1>1
    <3>2. c[n + k] = b[(n + k) - n]
      BY <1>1, <3>1
    <3> QED BY <1>2, <3>1, <3>2
  <2>2. b \in Seq(Updates) /\ Len(b) = m
    BY DEF m
  <2> QED BY <1>2, <2>1, <2>2, SeqEqual
<1>5. h = a
  <2>1. a \in Seq(Updates) /\ Len(a) = n
    BY DEF n
  <2>2. \A k \in 1 .. n : h[k] = a[k]
    BY <1>1, <1>3
  <2> QED BY <1>3, <2>1, <2>2, SeqEqual
<1> QED BY <1>4, <1>5 DEF t, h, c, n

\* Nothing is counted as stored twice: what a request stores is what came since.
LEMMA RequestStores ==
  ASSUME IInv, DataOK, NEW g, Sound(g), Ahead(g), NEW us \in Seq(Updates)
  PROVE  \E vs \in Seq(Updates) :
            /\ updates = g.at.updates \o vs
            /\ UpdatesToStore(updates \o us) = [first |-> Len(g.at.updates), updates |-> vs \o us]
<1> DEFINE old == g.at.updates
<1>1. PICK new : Runs(g.at, new, Here) /\ success = g.ops \o new
  BY DEF Ahead
<1>2. Past(g.at, Here) /\ g.at \in Points /\ Here.updates = updates
  BY <1>1, RunFacts, HereFacts DEF DataOK
<1>3. PICK vs : updates = old \o vs /\ Leads(g.at.ledger, vs, Here.ledger)
  BY <1>2 DEF Past
<1>4. vs \in Seq(Updates) /\ old \in Seq(Updates)
  BY <1>2, <1>3 DEF Leads, Points
<1>5. pending.stored = Len(old)
  BY DEF Ahead
<1> HIDE DEF old
<1> DEFINE ws == vs \o us
           all == updates \o us
<1>6. ws \in Seq(Updates)
  BY <1>4, ConcatProperties
<1>7. all = old \o ws
  <2>1. all = (old \o vs) \o us
    BY <1>3
  <2>2. (old \o vs) \o us = old \o (vs \o us)
    BY <1>4, JoinUpdates
  <2> QED BY <2>1, <2>2
<1> HIDE DEF ws, all
<1>8. SubSeq(all, Len(old) + 1, Len(all)) = ws
  <2>1. SubSeq(old \o ws, Len(old) + 1, Len(old \o ws)) = ws
    BY <1>4, <1>6, RestOfUpdates
  <2> QED BY <1>7, <2>1
<1>9. UpdatesToStore(all) = [first |-> Len(old), updates |-> ws]
  BY <1>5, <1>8 DEF UpdatesToStore
<1> QED BY <1>3, <1>4, <1>9 DEF all, ws, old

\* No request is for a block behind the open one, and nothing is stored for it.
LEMMA NothingFlies ==
  ASSUME IInv, DataOK, NEW f, InDatabase(f), blockNumber = Len(LineOf(commitQ, sealed)) + 1
  PROVE  FlightOf(blockNumber + 1, commitQ, StoredFor(blockNumber + 1)) = <<>>
<1> DEFINE n == blockNumber + 1
<1>1. commitQ \in Seq(Requests) /\ sealed \in Lines /\ Len(sealed) = Len(blocks) /\ TablesOK
  BY DEF DataOK, WorkOK, TablesOK
<1>2. Len(sealed) <= Len(LineOf(commitQ, sealed)) /\ Len(sealed) \in Nat
      /\ Len(LineOf(commitQ, sealed)) \in Nat
  BY <1>1, LineFacts, LenProperties DEF Lines
<1>3. n \in Nat /\ n > Len(blocks) + 1
  BY <1>1, <1>2
<1>4. StoredFor(n) = <<>>
  BY <1>3 DEF InDatabase
<1>5. \A k \in 1 .. Len(commitQ) : commitQ[k].number # n
  <2> TAKE k \in 1 .. Len(commitQ)
  <2>1. commitQ[k].number \in 1 .. blockNumber
    BY DEF IInv, Channel, Numbered
  <2> QED BY <1>2, <2>1
<1>6. StoredFor(n) \in Seq(UpdateRowSet)
  BY <1>1, StoredForTyped
<1> HIDE DEF n
<1>7. FlightOf(n, commitQ, StoredFor(n)) = StoredFor(n)
  BY <1>1, <1>3, <1>5, <1>6, FlightNone
<1> QED BY <1>4, <1>7 DEF n

\* No updates, no rows.
LEMMA NoRows == RowsFrom(<<>>) = <<>>
<1> DEFINE none == <<>>
<1>1. none \in Seq(Updates) /\ Len(none) = 0
  BY EmptySeq
<1> HIDE DEF none
<1>2. RowsFrom(none) \in Seq(UpdateRowSet) /\ Len(RowsFrom(none)) = 0
  BY <1>1, RowsFromFacts
<1> QED BY <1>2, EmptySeq DEF none

\* The keeper seals the block: the request advances the frontier behind it.
LEMMA SealForward ==
  ASSUME IInv, DataOK, NEW f, InDatabase(f), InFlight(f), Seal, UNCHANGED database
  PROVE  InFlight(f)'
<1>1. PICK g : /\ Path(commitQ, f, g) /\ g.line = LineOf(commitQ, sealed) /\ Sound(g) /\ Ahead(g)
               /\ FlightOf(blockNumber, commitQ, StoredFor(blockNumber)) = RowsFrom(g.at.updates)
  BY DEF InFlight
<1>2. /\ success' = <<>> /\ updates' = <<>>
      /\ pending'.index = 0 /\ pending'.stored = 0 /\ pending'.before = currentPriorityOp
      /\ \E us : /\ Leads(accounts, us, accounts')
                 /\ commitQ' = Append(commitQ, SealedRequest(updates \o us))
                 /\ SealedRequest(updates \o us) \in BlockRequests
      /\ commitQ' \in Seq(Requests)
      /\ currentPriorityOp' = currentPriorityOp /\ blockNumber' = blockNumber + 1
  BY SealGives
<1>3. PICK us : /\ Leads(accounts, us, accounts')
                /\ commitQ' = Append(commitQ, SealedRequest(updates \o us))
                /\ SealedRequest(updates \o us) \in BlockRequests
  BY <1>2
<1>4. PICK r : r = SealedRequest(updates \o us)
  OBVIOUS
<1>5. /\ r \in Requests /\ r.type = "Block" /\ r.number = blockNumber /\ r.success = success
      /\ r.before = pending.before /\ r.after = currentPriorityOp /\ r.root = accounts'
      /\ r.toStore = UpdatesToStore(updates \o us)
  BY <1>3, <1>4 DEF SealedRequest, Requests
<1>6. PICK new : Runs(g.at, new, Here) /\ success = g.ops \o new
  BY <1>1 DEF Ahead
<1>7. PICK p : p = Here
  OBVIOUS
<1>8. p.ledger = accounts /\ p.updates = updates /\ p.next = currentPriorityOp
  BY <1>7, HereFacts DEF DataOK
<1>9. us \in Seq(Updates)
  BY <1>3 DEF Leads
<1>10. PICK vs \in Seq(Updates) :
          /\ updates = g.at.updates \o vs
          /\ UpdatesToStore(updates \o us) = [first |-> Len(g.at.updates), updates |-> vs \o us]
  BY <1>1, <1>9, RequestStores
<1>11. Stores(g, r, new, p, us)
  <2>1. Indexed(r.success) /\ r.number = Len(g.line) + 1
    BY <1>1, <1>5 DEF Ahead
  <2>2. r.toStore.first = Len(g.at.updates) /\ r.toStore.updates = vs \o us
    BY <1>5, <1>10
  <2>3. Runs(g.at, new, p) /\ r.success = g.ops \o new
    BY <1>5, <1>6, <1>7
  <2>4. p.updates = g.at.updates \o vs
    BY <1>8, <1>10
  <2> QED BY <2>1, <2>2, <2>3, <2>4 DEF Stores
<1>12. PICK k : k = [line |-> Append(g.line, r.success), base |-> r.root, before |-> r.after,
                     ops |-> <<>>, at |-> Point(r.root, <<>>, r.after)]
  OBVIOUS
<1>13. Advances(g, r, k)
  <2>1. Leads(p.ledger, us, r.root) /\ r.before = g.before /\ r.after = p.next
    BY <1>1, <1>3, <1>5, <1>8 DEF Ahead
  <2> QED BY <1>5, <1>11, <1>12, <2>1 DEF Advances
<1>14. Sound(k) /\ k.line = Append(g.line, r.success)
  BY <1>1, <1>5, <1>13, AdvanceSound
<1>15. k.ops = <<>> /\ k.at = Point(r.root, <<>>, r.after) /\ k.before = r.after
  BY <1>12
<1>16. commitQ \in Seq(Requests) /\ sealed \in Lines
  BY DEF DataOK, WorkOK, TablesOK
<1>17. Path(commitQ', f, k)
  <2>1. Path(Append(commitQ, r), f, k)
    BY <1>1, <1>5, <1>13, <1>16, PathPush
  <2> QED BY <1>3, <1>4, <2>1
<1>18. k.line = LineOf(commitQ', sealed')
  <2>1. LineOf(Append(commitQ, r), sealed) = Append(LineOf(commitQ, sealed), r.success)
    BY <1>5, <1>16, LinePush
  <2>2. sealed' = sealed
    BY DEF database
  <2> QED BY <1>1, <1>3, <1>4, <1>14, <2>1, <2>2
<1>19. Len(<<>>) = 0 /\ k.at.updates = <<>>
  <2>1. k \in Frontiers
    BY <1>14 DEF Sound
  <2>2. k.at = Start(k)
    BY <1>12 DEF Start
  <2>3. Start(k).updates = <<>>
    BY <2>1, StartFacts
  <2> QED BY <2>2, <2>3, EmptySeq
<1>20. Ahead(k)'
  <2>1. Here' = k.at
    BY <1>2, <1>5, <1>15 DEF Here
  <2>2. k.at \in Points
    BY <1>14 DEF Sound, Frontiers
  <2>3. Runs(k.at, <<>>, Here')
    BY <2>1, <2>2, RunsNot
  <2>4. success' = k.ops \o <<>>
    <3>1. <<>> \o <<>> = <<>>
      <4> DEFINE none == <<>>
      <4>1. none \in Seq(Ops)
        BY EmptySeq
      <4> HIDE DEF none
      <4>2. none \o <<>> = none
        BY <4>1, ConcatSimplifications
      <4> QED BY <4>2 DEF none
    <3> QED BY <1>2, <1>15, <3>1
  <2>5. \E n : Runs(k.at, n, Here') /\ success' = k.ops \o n
    BY <2>3, <2>4
  <2>6. Indexed(success') /\ pending'.index = Len(success')
    BY <1>2, <1>19 DEF Indexed
  <2>7. pending'.stored = Len(k.at.updates) /\ pending'.before = k.before
    BY <1>2, <1>5, <1>15, <1>19
  <2>8. blockNumber' = Len(k.line) + 1
    <3>1. g.line \in Seq(Seq(Ops)) /\ r.success \in Seq(Ops)
      BY <1>1, <1>5, RequestFacts DEF Sound, Frontiers, Lines
    <3>2. Len(k.line) = Len(g.line) + 1
      BY <1>14, <3>1, AppendProperties
    <3>3. blockNumber = Len(g.line) + 1
      BY <1>1 DEF Ahead
    <3> QED BY <1>2, <3>2, <3>3
  <2> QED BY <2>5, <2>6, <2>7, <2>8 DEF Ahead
<1>21. FlightOf(blockNumber, commitQ, StoredFor(blockNumber))' = RowsFrom(k.at.updates)
  <2> DEFINE n == blockNumber + 1
             s == StoredFor(n)
  <2>1. blockNumber = Len(LineOf(commitQ, sealed)) + 1
    BY <1>1 DEF Ahead
  <2>2. FlightOf(n, commitQ, s) = <<>>
    BY <2>1, NothingFlies
  <2>3. n \in Nat /\ blockNumber \in Nat /\ s \in Seq(UpdateRowSet)
    BY StoredForTyped DEF IInv, ControlTypeOK, DataOK
  <2>4. r.number # n
    BY <1>5, <2>3
  <2> HIDE DEF s
  <2>5. FlightOf(n, Append(commitQ, r), s) = <<>>
    <3> HIDE DEF n
    <3> QED BY <1>5, <1>16, <2>2, <2>3, <2>4, FlightPush
  <2>6. StoredFor(blockNumber)' = s
    BY <1>2 DEF StoredFor, database, s
  <2>7. FlightOf(blockNumber', commitQ', StoredFor(blockNumber)') = <<>>
    BY <1>2, <1>3, <1>4, <2>5, <2>6
  <2> QED BY <1>19, <2>7, NoRows
<1> QED BY <1>14, <1>17, <1>18, <1>20, <1>21 DEF InFlight

\* The keeper stores the open block.
LEMMA StoreForward ==
  ASSUME IInv, DataOK, NEW f, InDatabase(f), InFlight(f), NEW iteration, StorePending(iteration),
         UNCHANGED database
  PROVE  InFlight(f)'
<1> DEFINE none == <<>>
<1>1. PICK g : /\ Path(commitQ, f, g) /\ g.line = LineOf(commitQ, sealed) /\ Sound(g) /\ Ahead(g)
               /\ FlightOf(blockNumber, commitQ, StoredFor(blockNumber)) = RowsFrom(g.at.updates)
  BY DEF InFlight
<1>2. /\ OpenRequest \in PendingRequests
      /\ commitQ' = Append(commitQ, OpenRequest) /\ commitQ' \in Seq(Requests)
      /\ pending'.index = pending.index /\ pending'.stored = Len(updates)
  BY StoreGives
<1>3. /\ pending'.before = pending.before
      /\ UNCHANGED <<accounts, blockNumber, currentPriorityOp, success, failed, updates, fees>>
  <2>1. "before" \in DOMAIN pending
    BY DEF IInv, SequencesOK
  <2> QED BY <2>1 DEF StorePending
<1>4. PICK r : r = OpenRequest
  OBVIOUS
<1>5. /\ r \in Requests /\ r.type = "PendingBlock" /\ r.number = blockNumber /\ r.success = success
      /\ r.toStore = UpdatesToStore(updates)
  BY <1>2, <1>4 DEF OpenRequest, Requests
<1>6. PICK new : Runs(g.at, new, Here) /\ success = g.ops \o new
  BY <1>1 DEF Ahead
<1>7. PICK p : p = Here
  OBVIOUS
<1>8. p.ledger = accounts /\ p.updates = updates /\ p.next = currentPriorityOp
  BY <1>7, HereFacts DEF DataOK
<1>9. none \in Seq(Updates)
  BY EmptySeq
<1>10. updates \o none = updates /\ \A vs \in Seq(Updates) : vs \o none = vs
  BY ConcatSimplifications DEF DataOK, KeeperOK
<1> HIDE DEF none
<1>11. PICK vs \in Seq(Updates) :
          /\ updates = g.at.updates \o vs
          /\ UpdatesToStore(updates \o none) = [first |-> Len(g.at.updates), updates |-> vs \o none]
  BY <1>1, <1>9, RequestStores
<1>12. UpdatesToStore(updates) = [first |-> Len(g.at.updates), updates |-> vs \o none]
  BY <1>10, <1>11
<1>13. Stores(g, r, new, p, none)
  <2>1. Indexed(r.success) /\ r.number = Len(g.line) + 1
    BY <1>1, <1>5 DEF Ahead
  <2>2. r.toStore.first = Len(g.at.updates) /\ r.toStore.updates = vs \o none
    BY <1>5, <1>12
  <2>3. Runs(g.at, new, p) /\ r.success = g.ops \o new
    BY <1>5, <1>6, <1>7
  <2>4. p.updates = g.at.updates \o vs
    BY <1>8, <1>11
  <2> QED BY <2>1, <2>2, <2>3, <2>4 DEF Stores
<1>14. PICK k : k = [g EXCEPT !.ops = r.success, !.at = p]
  OBVIOUS
<1>15. Advances(g, r, k)
  BY <1>5, <1>13, <1>14, Zenon DEF Advances, none
<1>16. /\ Sound(k) /\ k.line = g.line
  BY <1>1, <1>5, <1>15, AdvanceSound
<1>17. k.ops = success /\ k.at = p /\ k.before = g.before
  BY <1>1, <1>5, <1>14 DEF Sound, Frontiers
<1>18. commitQ \in Seq(Requests) /\ sealed \in Lines
  BY DEF DataOK, WorkOK, TablesOK
<1>19. Path(commitQ', f, k)
  <2>1. Path(Append(commitQ, r), f, k)
    BY <1>1, <1>5, <1>15, <1>18, PathPush
  <2> QED BY <1>2, <1>4, <2>1
<1>20. k.line = LineOf(commitQ', sealed')
  <2>1. LineOf(Append(commitQ, r), sealed) = LineOf(commitQ, sealed)
    BY <1>5, <1>18, LinePush
  <2>2. sealed' = sealed
    BY DEF database
  <2> QED BY <1>1, <1>2, <1>4, <1>16, <2>1, <2>2
<1>21. Ahead(k)'
  <2>1. Here' = k.at
    BY <1>3, <1>7, <1>17 DEF Here
  <2>2. k.at \in Points
    BY <1>16 DEF Sound, Frontiers
  <2>3. Runs(k.at, <<>>, Here')
    BY <2>1, <2>2, RunsNot
  <2>4. success' = k.ops \o <<>>
    <3>1. success \o <<>> = success
      BY ConcatSimplifications DEF DataOK, KeeperOK
    <3> QED BY <1>3, <1>17, <3>1
  <2>5. \E n : Runs(k.at, n, Here') /\ success' = k.ops \o n
    BY <2>3, <2>4
  <2>6. Indexed(success') /\ pending'.index = Len(success')
    BY <1>1, <1>2, <1>3 DEF Ahead
  <2>7. pending'.stored = Len(k.at.updates) /\ pending'.before = k.before
    BY <1>1, <1>2, <1>3, <1>8, <1>17 DEF Ahead
  <2>8. blockNumber' = Len(k.line) + 1
    BY <1>1, <1>3, <1>16 DEF Ahead
  <2> QED BY <2>5, <2>6, <2>7, <2>8 DEF Ahead
<1>22. FlightOf(blockNumber, commitQ, StoredFor(blockNumber))' = RowsFrom(k.at.updates)
  <2> DEFINE n == blockNumber
             s == StoredFor(n)
             old == g.at.updates
  <2>1. n \in Nat /\ s \in Seq(UpdateRowSet)
    BY StoredForTyped DEF IInv, ControlTypeOK, DataOK
  <2>2. FlightOf(n, Append(commitQ, r), s) = RowsFrom(old) \o UpdateRows(r.toStore)
    <3>1. FlightOf(n, commitQ, s) = RowsFrom(old) /\ r.number = n
      BY <1>1, <1>5
    <3> HIDE DEF s, n, old
    <3>2. FlightOf(n, Append(commitQ, r), s) = FlightOf(n, commitQ, s) \o UpdateRows(r.toStore)
      BY <1>5, <1>18, <2>1, <3>1, FlightPush
    <3> QED BY <3>1, <3>2
  <2>3. old \in Seq(Updates)
    BY <1>1 DEF Sound, Frontiers, Points
  <2>4. r.toStore \in ToStore /\ r.toStore.first = Len(old) /\ r.toStore.updates = vs
    BY <1>5, <1>10, <1>12 DEF Requests, BlockRequests, PendingRequests
  <2>5. RowsFrom(old) \o UpdateRows(r.toStore) = RowsFrom(updates)
    <3> DEFINE t == r.toStore
    <3> HIDE DEF t, old
    <3>1. RowsFrom(old) \o UpdateRows(t) = RowsFrom(old \o t.updates)
      BY <2>3, <2>4, RowsJoin DEF t
    <3>2. old \o t.updates = updates
      BY <1>11, <2>4 DEF t, old
    <3> QED BY <3>1, <3>2 DEF t
  <2>6. StoredFor(blockNumber)' = s
    BY <1>3 DEF StoredFor, database
  <2> HIDE DEF s
  <2>7. FlightOf(blockNumber', commitQ', StoredFor(blockNumber)') = RowsFrom(updates)
    BY <1>2, <1>3, <1>4, <2>2, <2>5, <2>6
  <2> QED BY <1>8, <1>17, <2>7
<1> QED BY <1>16, <1>19, <1>20, <1>21, <1>22 DEF InFlight

-----------------------------------------------------------------------------
(* The steps of the keeper and of the environment *)

\* The memory is lost, the tables stay.
LEMMA StopForward ==
  ASSUME FInv, Stop, UNCHANGED tables
  PROVE  FInv'
<1>1. mode' = "down" /\ miniBlock' = NoMiniBlock /\ commitQ' = <<>>
  BY DEF Stop
<1>2. MiniOK'
  <2>1. Len(<<>>) = 0
    BY EmptySeq
  <2> QED BY <1>1, <2>1 DEF MiniOK, NoMiniBlock
<1>3. PICK f : Follows(f)
  BY DEF FInv
<1>4. Follows(f)'
  BY <1>1, <1>3, SameDatabase DEF Follows, Running
<1> QED BY <1>1, <1>2, <1>4 DEF FInv, ChannelOK

\* A panic keeps what the tables hold.
LEMMA PanicForward ==
  ASSUME FInv, Panic
  PROVE  FInv'
BY StopForward DEF Panic, database, tables

\* A step of the running process that leaves the tables.
LEMMA RunningForward ==
  ASSUME FInv, Running, mode' \in {"idle", "executing"}, UNCHANGED tables, MiniOK',
         \A f : InDatabase(f) /\ InFlight(f) => InFlight(f)'
  PROVE  FInv'
<1>1. PICK f : Follows(f)
  BY DEF FInv
<1>2. Follows(f)'
  BY <1>1, SameDatabase DEF Follows
<1> QED BY <1>2 DEF FInv, ChannelOK

\* Sealing before the retry goes on behind the sealed block.
LEMMA SealAndRetryForward ==
  ASSUME IInv, DataOK, FInv, Executing, SealAndRetry
  PROVE  FInv'
<1>1. CASE Panic
  BY <1>1, PanicForward
<1>2. CASE Seal /\ UNCHANGED <<mode, miniBlock, restore, ready,
                              database, known, submitted, crashes, wentBack>>
  <2>1. currentPriorityOp' = currentPriorityOp
    BY <1>2 DEF Seal
  <2>2. MiniOK'
    BY <1>2, <2>1 DEF FInv, MiniOK
  <2>3. \A f : InDatabase(f) /\ InFlight(f) => InFlight(f)'
    BY <1>2, SealForward
  <2>4. UNCHANGED tables
    BY <1>2 DEF database, tables
  <2>5. Running /\ mode' \in {"idle", "executing"}
    BY <1>2 DEF Running, Executing
  <2> QED BY <2>2, <2>3, <2>4, <2>5, RunningForward
<1> QED BY <1>1, <1>2 DEF SealAndRetry

\* A priority operation executed is the next one.
LEMMA ExecutePriorityForward ==
  ASSUME IInv, DataOK, FInv, ExecutePriority
  PROVE  FInv'
<1> DEFINE ids == miniBlock.priorityOps
           id == Head(ids)
<1>1. Executing /\ ids # <<>>
  BY DEF ExecutePriority
<1>2. CASE SealAndRetry
  BY <1>1, <1>2, SealAndRetryForward
<1>3. CASE /\ ApplyPriorityOp(id)
           /\ miniBlock' = [miniBlock EXCEPT !.priorityOps = Tail(@)]
           /\ UNCHANGED <<mode, restore, commitQ, ready, database, known, submitted, crashes, wentBack>>
  <2>1. /\ ids \in Seq(Ids) /\ miniBlock'.priorityOps = Tail(ids)
    BY <1>3 DEF DataOK, WorkOK
  <2>2. \A k \in 1 .. Len(ids) : ids[k] = currentPriorityOp + k - 1
    BY DEF FInv, MiniOK
  <2> HIDE DEF ids
  <2>3. /\ Len(ids) \in Nat \ {0} /\ id = ids[1] /\ Len(Tail(ids)) = Len(ids) - 1
        /\ \A k \in 1 .. Len(ids) - 1 : Tail(ids)[k] = ids[k + 1]
    BY <1>1, <2>1, LenProperties, HeadTailProperties, EmptySeq
  <2>4. 1 \in 1 .. Len(ids) /\ currentPriorityOp \in Nat
    BY <2>3 DEF IInv, ControlTypeOK
  <2>5. id = currentPriorityOp /\ id \in Ids
    <3>1. ids[1] = currentPriorityOp + 1 - 1
      BY <2>2, <2>4
    <3>2. ids[1] \in Ids
      BY <2>1, <2>4, ElementOfSeq
    <3> QED BY <2>3, <2>4, <3>1, <3>2
  <2> HIDE DEF id
  <2>6. \A g : Sound(g) /\ Ahead(g) => Ahead(g)'
    BY <1>3, <2>5, PriorityAhead
  <2>7. currentPriorityOp' = currentPriorityOp + 1 /\ blockNumber' = blockNumber
    BY <1>3 DEF ApplyPriorityOp
  <2>8. \A k \in 1 .. Len(Tail(ids)) : Tail(ids)[k] = currentPriorityOp' + k - 1
    <3> TAKE k \in 1 .. Len(Tail(ids))
    <3>1. k \in 1 .. Len(ids) - 1 /\ k + 1 \in 1 .. Len(ids)
      BY <2>3
    <3>2. Tail(ids)[k] = currentPriorityOp + (k + 1) - 1
      BY <2>2, <2>3, <3>1
    <3> QED BY <2>4, <2>7, <3>1, <3>2
  <2>9. MiniOK'
    BY <1>1, <1>3, <2>1, <2>8 DEF MiniOK, Executing
  <2>10. UNCHANGED tables
    BY <1>3 DEF database, tables
  <2>11. \A f : InDatabase(f) /\ InFlight(f) => InFlight(f)'
    BY <1>3, <2>6, <2>7, <2>10, InFlightOn
  <2>12. Running /\ mode' \in {"idle", "executing"}
    BY <1>1, <1>3 DEF Running, Executing
  <2> QED BY <2>9, <2>10, <2>11, <2>12, RunningForward
<1> QED BY <1>2, <1>3 DEF ExecutePriority

\* Transactions executed go on in the open block.
LEMMA ExecuteTxsForward ==
  ASSUME IInv, DataOK, FInv, ExecuteTxs
  PROVE  FInv'
<1> DEFINE txs == Head(miniBlock.txs)
<1>1. Executing /\ miniBlock.priorityOps = <<>> /\ miniBlock.txs # <<>>
  BY DEF ExecuteTxs
<1>2. CASE SealAndRetry
  BY <1>1, <1>2, SealAndRetryForward
<1>3. CASE /\ ApplyTxs(txs)
           /\ miniBlock' = [miniBlock EXCEPT !.txs = Tail(@)]
           /\ UNCHANGED <<mode, restore, commitQ, ready, database, known, submitted, crashes, wentBack>>
  <2>1. txs \in Seq(AllTxs)
    BY <1>1, HeadTailProperties DEF DataOK, WorkOK
  <2>2. miniBlock'.priorityOps = <<>>
    BY <1>1, <1>3 DEF DataOK, WorkOK
  <2> HIDE DEF txs
  <2>3. \A g : Sound(g) /\ Ahead(g) => Ahead(g)'
    BY <1>3, <2>1, TxsAhead
  <2>4. blockNumber' = blockNumber
    BY <1>3 DEF ApplyTxs
  <2>5. MiniOK'
    <3>1. Len(<<>>) = 0
      BY EmptySeq
    <3> QED BY <1>1, <1>3, <2>2, <3>1 DEF MiniOK, Executing
  <2>6. UNCHANGED tables
    BY <1>3 DEF database, tables
  <2>7. \A f : InDatabase(f) /\ InFlight(f) => InFlight(f)'
    BY <1>3, <2>3, <2>4, <2>6, InFlightOn
  <2>8. Running /\ mode' \in {"idle", "executing"}
    BY <1>1, <1>3 DEF Running, Executing
  <2> QED BY <2>5, <2>6, <2>7, <2>8, RunningForward
<1> QED BY <1>2, <1>3 DEF ExecuteTxs

\* The end of a mini-block stores the pending block or seals it.
LEMMA FinishForward ==
  ASSUME IInv, DataOK, FInv, FinishMiniBlock
  PROVE  FInv'
<1>1. Executing /\ miniBlock = NoMiniBlock
  BY DEF FinishMiniBlock
<1>2. CASE Panic
  BY <1>2, PanicForward
<1>3. CASE /\ mode' = "idle" /\ (Seal \/ StorePending(NextIteration))
           /\ UNCHANGED <<miniBlock, restore, ready, database, known, submitted, crashes, wentBack>>
  <2>1. MiniOK'
    <3>1. Len(<<>>) = 0
      BY EmptySeq
    <3> QED BY <1>1, <1>3, <3>1 DEF MiniOK, NoMiniBlock
  <2>2. UNCHANGED tables
    BY <1>3 DEF database, tables
  <2>3. \A f : InDatabase(f) /\ InFlight(f) => InFlight(f)'
    BY <1>3, SealForward, StoreForward
  <2>4. Running
    BY <1>1 DEF Running, Executing
  <2> QED BY <1>3, <2>1, <2>2, <2>3, <2>4, RunningForward
<1> QED BY <1>2, <1>3 DEF FinishMiniBlock

\* The keeper stays where it is.
LEMMA AheadStays ==
  ASSUME UNCHANGED <<accounts, updates, currentPriorityOp, success, pending, blockNumber>>
  PROVE  Here' = Here /\ \A g : Ahead(g) => Ahead(g)'
<1>1. Here' = Here
  BY DEF Here
<1> QED BY <1>1 DEF Ahead

\* A proposal takes the priority operations that are next.
LEMMA ProposeForward ==
  ASSUME IInv, DataOK, FInv, Propose
  PROVE  FInv'
<1>1. PICK txs \in Proposals : ProposeMiniBlock(txs)
  BY DEF Propose
<1>2. /\ mode = "idle" /\ mode' = "executing" /\ miniBlock'.priorityOps = NextPriorityOps
      /\ UNCHANGED <<accounts, blockNumber, currentPriorityOp, success, updates, pending, commitQ>>
      /\ UNCHANGED tables
  BY <1>1 DEF ProposeMiniBlock, database, tables
<1>3. MiniOK'
  BY <1>2, NextPriorityOpsAre DEF MiniOK
<1>4. \A f : InDatabase(f) /\ InFlight(f) => InFlight(f)'
  BY <1>2, AheadStays, InFlightOn
<1>5. Running
  BY <1>2 DEF Running
<1> QED BY <1>2, <1>3, <1>4, <1>5, RunningForward

\* The block is verified, a transaction or a priority operation arrives.
LEMMA AsideForward ==
  ASSUME FInv, UNCHANGED <<Memory, commitQ, tables>>
  PROVE  FInv'
<1>1. /\ UNCHANGED <<mode, accounts, blockNumber, currentPriorityOp, success, failed>>
      /\ UNCHANGED <<updates, fees, pending, miniBlock, restore, commitQ, tables>>
      /\ blocks' = blocks
  BY DEF Memory, tables
<1>2. MiniOK' /\ ChannelOK'
  BY <1>1 DEF FInv, MiniOK, ChannelOK
<1>3. PICK f : Follows(f)
  BY DEF FInv
<1>4. InDatabase(f)'
  BY <1>1, <1>3, SameDatabase DEF Follows
<1>5. Here' = Here /\ \A g : Ahead(g) => Ahead(g)'
  BY <1>1, AheadStays
<1>6. Running' => InFlight(f)'
  BY <1>1, <1>3, <1>5, InFlightOn DEF Follows, Running
<1>7. mode' = "restoring" => Restoring(f)'
  BY <1>1, <1>3, <1>5 DEF Follows, Restoring
<1> QED BY <1>2, <1>3, <1>4, <1>6, <1>7 DEF FInv, Follows

-----------------------------------------------------------------------------
(* The steps of the committer *)

\* The rows of a request: the operations, the priority operations, the updates.
LEMMA RequestHeld ==
  ASSUME IInv, DataOK, NEW f, Sound(f), InDatabase(f), NEW r \in Requests,
         SaveTransactions(r), CommitStateUpdate(r),
         NEW new, NEW p, NEW us \in Seq(Updates), Stores(f, r, new, p, us)
  PROVE  /\ r.number = Len(blocks) + 1 /\ Len(blocks) \in Nat
         /\ r.success \in Seq(Ops) /\ p \in Points /\ f.line \in Lines
         /\ TxsHold(execTxs', Append(f.line, r.success))
         /\ IdsHold(execPriorityOps', Append(f.line, r.success))
         /\ p.updates \o us \in Seq(Updates)
         /\ StoredFor(r.number)' = RowsFrom(p.updates \o us)
         /\ \A n : n # r.number => StoredFor(n)' = StoredFor(n)
         /\ Leads(f.base, p.updates, p.ledger)
         /\ IdsOf(r.success) = Interval(f.before, p.next)
<1> DEFINE n == Len(blocks) + 1
           x == Start(f)
           old == f.at.updates
<1>1. /\ Len(blocks) \in Nat /\ f.line = sealed /\ Len(f.line) = Len(blocks) /\ f \in Frontiers
      /\ f.line \in Lines /\ f.ops \in Seq(Ops) /\ f.before \in Nat /\ TablesOK
      /\ f.at \in Points /\ old \in Seq(Updates)
  BY LenProperties DEF DataOK, TablesOK, InDatabase, Sound, Frontiers, Points
<1>2. /\ Runs(x, f.ops, f.at) /\ Runs(f.at, new, p) /\ r.success = f.ops \o new
      /\ r.number = n /\ r.toStore.first = Len(old)
  BY <1>1 DEF Stores, Sound
<1>3. Runs(x, r.success, p)
  BY <1>2, RunsJoin
<1>4. /\ x \in Points /\ x.ledger = f.base /\ x.updates = <<>> /\ x.next = f.before
  BY <1>1, StartFacts
<1>5. /\ r.success \in Seq(Ops) /\ p \in Points /\ new \in Seq(Ops)
      /\ Past(x, p) /\ IdsFrom(r.success, x.next, p.next)
  BY <1>2, <1>3, RunFacts
<1>6. OnceAmong(Append(f.line, r.success)) /\ IdsBelow(f.line, f.before)
  BY <1>3, OpenFacts DEF Sound
<1>7. TxsHold(execTxs, Append(f.line, f.ops)) /\ IdsHold(execPriorityOps, Append(f.line, f.ops))
  BY DEF InDatabase
<1> DEFINE line == f.line
           ops == f.ops
           before == f.before
<1>8. /\ line \in Lines /\ ops \in Seq(Ops) /\ before \in Nat /\ p.next \in Nat
      /\ r.number = Len(line) + 1
      /\ r.success = ops \o new /\ OnceAmong(Append(line, ops \o new))
      /\ TxsHold(execTxs, Append(line, ops)) /\ IdsHold(execPriorityOps, Append(line, ops))
      /\ IdsBelow(line, before) /\ IdsFrom(ops \o new, before, p.next)
  BY <1>1, <1>2, <1>4, <1>5, <1>6, <1>7 DEF Points
<1> HIDE DEF x, old, line, ops, before
<1>9. TxsHold(execTxs', Append(line, ops \o new))
  BY <1>1, <1>5, <1>8, TxsHoldOn
<1>10. IdsHold(execPriorityOps', Append(line, ops \o new))
  <2> DEFINE to == p.next
  <2>1. to \in Nat /\ IdsFrom(ops \o new, before, to)
    BY <1>8
  <2> HIDE DEF to
  <2> QED BY <1>1, <1>5, <1>8, <2>1, IdsHoldOn
<1>11. PICK vs \in Seq(Updates) : p.updates = old \o vs /\ r.toStore.updates = vs \o us
  BY DEF Stores, old
<1>12. p.updates \in Seq(Updates) /\ p.updates \o us \in Seq(Updates)
  <2>1. p.updates \in Seq(Updates)
    BY <1>5 DEF Points
  <2> QED BY <2>1, ConcatProperties
<1>13. StoredFor(r.number)' = RowsFrom(p.updates \o us)
  <2> DEFINE t == r.toStore
  <2>1. \A m : StoredFor(m)' = IF m = r.number THEN StoredFor(m) \o UpdateRows(r.toStore)
                               ELSE StoredFor(m)
    BY <1>1, UpdatesFill
  <2>2. StoredFor(r.number)' = StoredFor(r.number) \o UpdateRows(t)
    BY <2>1
  <2>3. StoredFor(r.number) = RowsFrom(old)
    BY <1>2 DEF InDatabase, old
  <2>4. t \in ToStore /\ t.first = Len(old) /\ t.updates = vs \o us
    BY <1>2, <1>11 DEF Requests, BlockRequests, PendingRequests
  <2> HIDE DEF t
  <2>5. RowsFrom(old) \o UpdateRows(t) = RowsFrom(old \o t.updates)
    BY <1>1, <2>4, RowsJoin
  <2>6. old \o (vs \o us) = (old \o vs) \o us
    BY <1>1, JoinUpdates
  <2>7. old \o t.updates = p.updates \o us
    BY <1>11, <2>4, <2>6
  <2> QED BY <2>2, <2>3, <2>5, <2>7
<1>14. \A m : m # r.number => StoredFor(m)' = StoredFor(m)
  <2>1. \A m : StoredFor(m)' = IF m = r.number THEN StoredFor(m) \o UpdateRows(r.toStore)
                               ELSE StoredFor(m)
    BY <1>1, UpdatesFill
  <2> QED BY <1>2, <2>1
<1>15. Leads(f.base, p.updates, p.ledger)
  <2>1. PICK ws : p.updates = x.updates \o ws /\ Leads(x.ledger, ws, p.ledger)
    BY <1>5 DEF Past
  <2>2. ws \in Seq(Updates)
    BY <2>1 DEF Leads
  <2>3. <<>> \o ws = ws
    BY <2>2, ConcatSimplifications
  <2> QED BY <1>4, <2>1, <2>3
<1>16. IdsOf(r.success) = Interval(f.before, p.next)
  <2>1. IdsOf(r.success) = Interval(x.next, p.next)
    BY <1>3, RunIds
  <2> QED BY <1>4, <2>1
<1> QED BY <1>1, <1>2, <1>5, <1>8, <1>9, <1>10, <1>12, <1>13, <1>14, <1>15, <1>16 DEF n, line, ops

\* The open block is stored: the tables hold the frontier behind the request.
LEMMA SavedForward ==
  ASSUME IInv, DataOK, NEW f, Sound(f), InDatabase(f), NEW r \in Requests,
         SaveTransactions(r), CommitStateUpdate(r), r.type = "PendingBlock",
         pendingRows' = pendingRows \cup {r.number}, UNCHANGED <<blocks, sealed>>,
         NEW e, Advances(f, r, e)
  PROVE  InDatabase(e)'
<1> DEFINE none == <<>>
<1>1. PICK new, p : Stores(f, r, new, p, none) /\ e = [f EXCEPT !.ops = r.success, !.at = p]
  BY Zenon DEF Advances
<1>2. none \in Seq(Updates)
  BY EmptySeq
<1> HIDE DEF none
<1>3. /\ r.number = Len(blocks) + 1 /\ Len(blocks) \in Nat
      /\ r.success \in Seq(Ops) /\ p \in Points /\ f.line \in Lines
      /\ TxsHold(execTxs', Append(f.line, r.success))
      /\ IdsHold(execPriorityOps', Append(f.line, r.success))
      /\ StoredFor(r.number)' = RowsFrom(p.updates \o none)
      /\ \A n : n # r.number => StoredFor(n)' = StoredFor(n)
  BY <1>1, <1>2, RequestHeld
<1>4. p.updates \o none = p.updates
  <2>1. p.updates \in Seq(Updates)
    BY <1>3 DEF Points
  <2> QED BY <2>1, ConcatSimplifications DEF none
<1>5. e.line = f.line /\ e.base = f.base /\ e.before = f.before /\ e.ops = r.success /\ e.at = p
  BY <1>1 DEF Sound, Frontiers
<1>6. \A n : RootAt(n)' = RootAt(n) /\ UnprocessedPriorityOp(n)' = UnprocessedPriorityOp(n)
  BY DEF RootAt, UnprocessedPriorityOp
<1>7. \A n \in 1 .. Len(blocks) : BlockSound(n)'
  <2> TAKE n \in 1 .. Len(blocks)
  <2>1. BlockSound(n) /\ StoredFor(n)' = StoredFor(n)
    BY <1>3 DEF InDatabase
  <2> QED BY <1>6, <2>1 DEF BlockSound
<1>8. /\ pendingRows' \subseteq {Len(blocks) + 1} /\ pendingRows' # {}
  BY <1>3 DEF InDatabase
<1>9. \A n \in Nat : n > Len(blocks) + 1 => StoredFor(n)' = <<>>
  BY <1>3 DEF InDatabase
<1>10. /\ f.line = sealed /\ f.base = RootAt(Len(blocks))
       /\ f.before = UnprocessedPriorityOp(Len(blocks)) /\ blocks' = blocks /\ sealed' = sealed
  BY DEF InDatabase
<1>11. /\ e.line = sealed' /\ e.base = RootAt(Len(blocks))'
       /\ e.before = UnprocessedPriorityOp(Len(blocks))'
  BY <1>5, <1>6, <1>10
<1>12. /\ TxsHold(execTxs', Append(e.line, e.ops)) /\ IdsHold(execPriorityOps', Append(e.line, e.ops))
       /\ StoredFor(Len(blocks) + 1)' = RowsFrom(e.at.updates)
  BY <1>3, <1>4, <1>5
<1> QED BY <1>7, <1>8, <1>9, <1>10, <1>11, <1>12 DEF InDatabase

\* A sealed block is stored.
LEMMA CommittedForward ==
  ASSUME IInv, DataOK, NEW f, Sound(f), InDatabase(f), NEW r \in Requests,
         SaveTransactions(r), CommitStateUpdate(r), r.type = "Block",
         pendingRows' = pendingRows \ {r.number},
         blocks' = Append(blocks, [before |-> r.before, after |-> r.after, root |-> r.root]),
         sealed' = Append(sealed, r.success),
         NEW e, Advances(f, r, e)
  PROVE  InDatabase(e)'
<1>0. PICK n : n = Len(blocks)
  OBVIOUS
<1>1. PICK new, p, us : /\ Stores(f, r, new, p, us) /\ Leads(p.ledger, us, r.root)
                        /\ r.before = f.before /\ r.after = p.next
                        /\ e = [line |-> Append(f.line, r.success), base |-> r.root,
                                before |-> r.after, ops |-> <<>>, at |-> Point(r.root, <<>>, r.after)]
  BY DEF Advances
<1>2. us \in Seq(Updates)
  BY <1>1 DEF Leads
<1>3. /\ r.number = n + 1 /\ n \in Nat
      /\ r.success \in Seq(Ops) /\ p \in Points /\ f.line \in Lines
      /\ TxsHold(execTxs', Append(f.line, r.success))
      /\ IdsHold(execPriorityOps', Append(f.line, r.success))
      /\ p.updates \o us \in Seq(Updates)
      /\ StoredFor(n + 1)' = RowsFrom(p.updates \o us)
      /\ \A m : m # n + 1 => StoredFor(m)' = StoredFor(m)
      /\ Leads(f.base, p.updates, p.ledger)
      /\ IdsOf(r.success) = Interval(f.before, p.next)
  <2>1. /\ r.number = Len(blocks) + 1 /\ Len(blocks) \in Nat
        /\ r.success \in Seq(Ops) /\ p \in Points /\ f.line \in Lines
        /\ TxsHold(execTxs', Append(f.line, r.success))
        /\ IdsHold(execPriorityOps', Append(f.line, r.success))
        /\ p.updates \o us \in Seq(Updates)
        /\ StoredFor(r.number)' = RowsFrom(p.updates \o us)
        /\ \A m : m # r.number => StoredFor(m)' = StoredFor(m)
        /\ Leads(f.base, p.updates, p.ledger)
        /\ IdsOf(r.success) = Interval(f.before, p.next)
    BY <1>1, <1>2, RequestHeld
  <2>2. r.number = n + 1
    BY <1>0, <2>1
  <2> QED BY <1>0, <2>1, <2>2
<1>4. /\ e.line = Append(f.line, r.success) /\ e.base = r.root /\ e.before = r.after
      /\ e.ops = <<>>
  BY <1>1
<1>5. e.at.updates = <<>>
  <2>1. e \in Frontiers
    BY AdvanceSound DEF Sound
  <2>2. e.at = Start(e)
    BY <1>1 DEF Start
  <2> QED BY <2>1, <2>2, StartFacts
<1>6. blocks \in Seq(BlockRows) /\ sealed \in Lines /\ Len(sealed) = n
  BY <1>0 DEF DataOK, TablesOK
<1> DEFINE row == [before |-> r.before, after |-> r.after, root |-> r.root]
<1>7. row \in BlockRows
  BY RequestFacts DEF BlockRows
<1>8. row.before = r.before /\ row.after = r.after /\ row.root = r.root
  OBVIOUS
<1>9. blocks' = Append(blocks, row)
  OBVIOUS
<1> HIDE DEF row
<1>10. /\ Len(blocks') = n + 1 /\ blocks'[n + 1] = row /\ \A k \in 1 .. n : blocks'[k] = blocks[k]
  BY <1>0, <1>6, <1>7, <1>9, AppendProperties
<1>11. /\ sealed'[n + 1] = r.success /\ \A k \in 1 .. n : sealed'[k] = sealed[k]
  <2>1. sealed \in Seq(Seq(Ops))
    BY <1>6 DEF Lines
  <2> QED BY <1>3, <1>6, <2>1, AppendProperties
<1>12. RootAt(n + 1)' = r.root /\ \A k \in 0 .. n : RootAt(k)' = RootAt(k)
  BY <1>3, <1>8, <1>10 DEF RootAt
<1>13. UnprocessedPriorityOp(n + 1)' = r.after
  BY <1>3, <1>8, <1>10 DEF UnprocessedPriorityOp
<1>14. f.line = sealed /\ f.base = RootAt(n)
  BY <1>0 DEF InDatabase
<1>15. \A k \in 1 .. n + 1 : BlockSound(k)'
  <2> TAKE k \in 1 .. n + 1
  <2>1. CASE k \in 1 .. n
    <3>1. BlockSound(k) /\ StoredFor(k)' = StoredFor(k)
      <4>1. k # n + 1
        BY <1>3, <2>1
      <4> QED BY <1>0, <1>3, <2>1, <4>1 DEF InDatabase
    <3>2. /\ RootAt(k)' = RootAt(k) /\ RootAt(k - 1)' = RootAt(k - 1)
          /\ blocks'[k] = blocks[k] /\ sealed'[k] = sealed[k]
      <4>1. k \in 0 .. n /\ k - 1 \in 0 .. n
        BY <1>3, <2>1
      <4> QED BY <1>10, <1>11, <1>12, <2>1, <4>1
    <3> QED BY <3>1, <3>2 DEF BlockSound
  <2>2. CASE k = n + 1
    <3>1. Leads(f.base, p.updates \o us, r.root)
      BY <1>1, <1>3, LeadsOn
    <3>2. k - 1 = n /\ n \in 0 .. n
      BY <1>3, <2>2
    <3>3. RootAt(k)' = r.root /\ RootAt(k - 1)' = f.base
      BY <1>12, <1>14, <2>2, <3>2
    <3>4. StoredFor(k)' = RowsFrom(p.updates \o us)
      BY <1>3, <2>2
    <3>5. IdsOf(sealed'[k]) = Interval(blocks'[k].before, blocks'[k].after)
      BY <1>1, <1>3, <1>8, <1>10, <1>11, <2>2
    <3>6. \E vs \in Seq(Updates) : /\ Leads(RootAt(k - 1)', vs, RootAt(k)')
                                   /\ StoredFor(k)' = RowsFrom(vs)
      BY <1>3, <3>1, <3>3, <3>4
    <3> QED BY <3>5, <3>6 DEF BlockSound
  <2> QED BY <1>3, <2>1, <2>2
<1>16. pendingRows' = {}
  BY <1>0, <1>3 DEF InDatabase
<1>17. \A m \in Nat : m > n /\ m # n + 1 => StoredFor(m)' = <<>>
  <2> TAKE m \in Nat
  <2> HAVE m > n /\ m # n + 1
  <2>1. m > n + 1
    BY <1>3
  <2>2. StoredFor(m) = <<>>
    BY <1>0, <2>1 DEF InDatabase
  <2> QED BY <1>3, <2>2
<1>18. StoredFor((n + 1) + 1)' = RowsFrom(e.at.updates)
  <2>1. (n + 1) + 1 \in Nat /\ (n + 1) + 1 > n /\ (n + 1) + 1 # n + 1
    BY <1>3
  <2>2. StoredFor((n + 1) + 1)' = <<>>
    BY <1>17, <2>1
  <2> QED BY <1>5, <2>2, NoRows
<1>19. \A m \in Nat : m > (n + 1) + 1 => StoredFor(m)' = <<>>
  <2> TAKE m \in Nat
  <2> HAVE m > (n + 1) + 1
  <2>1. m > n /\ m # n + 1
    BY <1>3
  <2> QED BY <1>17, <2>1
<1>20. TxsHold(execTxs', Append(e.line, e.ops)) /\ IdsHold(execPriorityOps', Append(e.line, e.ops))
  <2> DEFINE all == Append(f.line, r.success)
  <2>1. all \in Lines
    BY <1>3, AppendProperties DEF Lines
  <2>2. TxsHold(execTxs', all) /\ IdsHold(execPriorityOps', all) /\ e.line = all
    BY <1>3, <1>4
  <2> HIDE DEF all
  <2>3. TxsHold(execTxs', Append(all, <<>>)) /\ IdsHold(execPriorityOps', Append(all, <<>>))
    BY <2>1, <2>2, HoldsOpen
  <2> QED BY <1>4, <2>2, <2>3
<1>21. e.line = sealed' /\ e.base = RootAt(n + 1)' /\ e.before = UnprocessedPriorityOp(n + 1)'
  BY <1>4, <1>12, <1>13, <1>14
<1>22. /\ e.line = sealed' /\ e.base = RootAt(Len(blocks))'
       /\ e.before = UnprocessedPriorityOp(Len(blocks))'
  BY <1>10, <1>21
<1>23. /\ StoredFor(Len(blocks) + 1)' = RowsFrom(e.at.updates)
       /\ \A m \in Nat : m > Len(blocks') + 1 => StoredFor(m)' = <<>>
       /\ \A k \in 1 .. Len(blocks') : BlockSound(k)'
  BY <1>10, <1>15, <1>18, <1>19
<1>24. /\ pendingRows' \subseteq {Len(blocks') + 1} /\ (pendingRows' = {} => e.ops = <<>>)
  BY <1>4, <1>16
<1> QED BY <1>20, <1>22, <1>23, <1>24 DEF InDatabase

\* A request leaves the channel for the tables.
LEMMA RequestForward ==
  ASSUME IInv, DataOK, FInv, commitQ # <<>>, commitQ' = Tail(commitQ), UNCHANGED Memory,
         NEW r, r = Head(commitQ), SaveTransactions(r), CommitStateUpdate(r),
         \/ /\ r.type = "PendingBlock" /\ pendingRows' = pendingRows \cup {r.number}
            /\ UNCHANGED <<blocks, sealed>>
         \/ /\ r.type = "Block" /\ pendingRows' = pendingRows \ {r.number}
            /\ blocks' = Append(blocks, [before |-> r.before, after |-> r.after, root |-> r.root])
            /\ sealed' = Append(sealed, r.success)
  PROVE  /\ FInv'
         /\ \E e : /\ Sound(e)' /\ InDatabase(e)'
                  /\ e.ops = IF r.type = "Block" THEN <<>> ELSE r.success
<1>1. /\ UNCHANGED <<mode, accounts, blockNumber, currentPriorityOp, success, failed>>
      /\ UNCHANGED <<updates, fees, pending, miniBlock, restore>>
  BY DEF Memory
<1>2. Running /\ Running' /\ mode' # "restoring" /\ MiniOK' /\ ChannelOK'
  BY <1>1 DEF FInv, MiniOK, ChannelOK, IInv, ControlTypeOK, Running
<1>3. PICK f : Follows(f)
  BY DEF FInv
<1>4. PICK g : /\ Path(commitQ, f, g) /\ g.line = LineOf(commitQ, sealed) /\ Sound(g) /\ Ahead(g)
               /\ FlightOf(blockNumber, commitQ, StoredFor(blockNumber)) = RowsFrom(g.at.updates)
  BY <1>2, <1>3 DEF Follows, InFlight
<1>5. /\ commitQ \in Seq(Requests) /\ sealed \in Lines /\ TablesOK
      /\ r \in Requests /\ Tail(commitQ) \in Seq(Requests)
  BY HeadRequest DEF DataOK, WorkOK, TablesOK
<1>6. PICK e : Advances(f, r, e) /\ Path(Tail(commitQ), e, g)
  BY <1>4, <1>5, PathPop
<1>7. Sound(e)
  BY <1>3, <1>5, <1>6, AdvanceSound DEF Follows
<1>8. InDatabase(e)'
  <2>1. Sound(f) /\ InDatabase(f)
    BY <1>3 DEF Follows
  <2>2. CASE r.type = "PendingBlock"
    BY <1>5, <1>6, <2>1, <2>2, SavedForward
  <2>3. CASE r.type = "Block"
    BY <1>5, <1>6, <2>1, <2>3, CommittedForward
  <2> QED BY <2>2, <2>3
<1>9. g.line = LineOf(commitQ', sealed')
  <2>1. LineOf(commitQ, sealed)
          = LineOf(Tail(commitQ), IF r.type = "Block" THEN Append(sealed, r.success) ELSE sealed)
    BY <1>5, LinePop
  <2>2. sealed' = IF r.type = "Block" THEN Append(sealed, r.success) ELSE sealed
    OBVIOUS
  <2> QED BY <1>4, <2>1, <2>2
<1>10. Ahead(g)'
  BY <1>1, <1>4, AheadStays
<1>11. FlightOf(blockNumber, commitQ, StoredFor(blockNumber))' = RowsFrom(g.at.updates)
  <2>1. PICK n : n = blockNumber
    OBVIOUS
  <2>2. n \in Nat /\ StoredFor(n) \in Seq(UpdateRowSet)
    BY <1>5, <2>1, StoredForTyped DEF IInv, ControlTypeOK
  <2>3. FlightOf(n, commitQ, StoredFor(n))
          = FlightOf(n, Tail(commitQ),
               IF r.number = n THEN StoredFor(n) \o UpdateRows(r.toStore) ELSE StoredFor(n))
    <3> DEFINE s == StoredFor(n)
    <3>1. s \in Seq(UpdateRowSet)
      BY <2>2
    <3> HIDE DEF s
    <3>2. FlightOf(n, commitQ, s)
            = FlightOf(n, Tail(commitQ), IF r.number = n THEN s \o UpdateRows(r.toStore) ELSE s)
      BY <1>5, <2>2, <3>1, FlightPop
    <3> QED BY <3>2 DEF s
  <2>4. StoredFor(n)' = IF r.number = n THEN StoredFor(n) \o UpdateRows(r.toStore) ELSE StoredFor(n)
    BY <1>5, UpdatesFill
  <2>5. FlightOf(n, commitQ', StoredFor(n)') = RowsFrom(g.at.updates)
    BY <1>4, <2>1, <2>3, <2>4
  <2>6. StoredFor(n)' = StoredFor(blockNumber)'
    BY <1>1, <2>1 DEF StoredFor
  <2> QED BY <1>1, <2>1, <2>5, <2>6
<1>12. InFlight(e)'
  BY <1>6, <1>7, <1>9, <1>10, <1>11, <1>4 DEF InFlight
<1>13. Follows(e)'
  BY <1>2, <1>7, <1>8, <1>12 DEF Follows
<1>14. e.ops = IF r.type = "Block" THEN <<>> ELSE r.success
  <2>1. f \in Frontiers
    BY <1>3 DEF Follows, Sound
  <2>2. CASE r.type = "PendingBlock"
    <3>1. PICK p : e = [f EXCEPT !.ops = r.success, !.at = p]
      BY <1>6, <2>2, Zenon DEF Advances
    <3>2. e.ops = r.success
      BY <2>1, <3>1 DEF Frontiers
    <3> QED BY <2>2, <3>2
  <2>3. CASE r.type = "Block"
    <3>1. "Block" # "PendingBlock"
      OBVIOUS
    <3>2. \E line, p : e = [line |-> line, base |-> r.root, before |-> r.after, ops |-> <<>>, at |-> p]
      BY <1>6, <2>3, <3>1, Zenon DEF Advances
    <3> QED BY <2>3, <3>2
  <2> QED BY <1>5, <2>2, <2>3, RequestFacts
<1> QED BY <1>2, <1>7, <1>8, <1>13, <1>14 DEF FInv

\* What the committer does follows the channel.
LEMMA CommitterForward ==
  ASSUME IInv, DataOK, FInv, Committer
  PROVE  FInv'
<1>1. CASE SavePendingBlock
  <2>1. PICK r : r = Head(commitQ)
    OBVIOUS
  <2>2. /\ commitQ # <<>> /\ r.type = "PendingBlock" /\ SaveTransactions(r) /\ CommitStateUpdate(r)
        /\ pendingRows' = pendingRows \cup {r.number} /\ commitQ' = Tail(commitQ)
        /\ UNCHANGED Memory /\ UNCHANGED <<blocks, sealed>>
    BY <1>1, <2>1 DEF SavePendingBlock
  <2> QED BY <2>1, <2>2, RequestForward
<1>2. CASE CommitBlock
  <2>1. PICK r : r = Head(commitQ)
    OBVIOUS
  <2>2. CASE Panic
    BY <2>2, PanicForward
  <2>3. CASE /\ commitQ # <<>> /\ r.type = "Block" /\ SaveTransactions(r) /\ CommitStateUpdate(r)
             /\ pendingRows' = pendingRows \ {r.number} /\ commitQ' = Tail(commitQ)
             /\ blocks' = Append(blocks, [before |-> r.before, after |-> r.after, root |-> r.root])
             /\ sealed' = Append(sealed, r.success) /\ UNCHANGED Memory
    BY <2>1, <2>3, RequestForward
  <2> QED BY <1>2, <2>1, <2>2, <2>3 DEF CommitBlock
<1> QED BY <1>1, <1>2 DEF Committer

-----------------------------------------------------------------------------
(* The restart *)

\* The stored pending block is the open one of the frontier.
LEMMA PendingLoaded ==
  ASSUME DataOK, NEW f, Sound(f), InDatabase(f)
  PROVE  LoadPending(Len(blocks)).ops = f.ops
<1> DEFINE n == Len(blocks)
           all == Append(f.line, f.ops)
<1>1. /\ n \in Nat /\ f.line = sealed /\ f.line \in Lines /\ f.ops \in Seq(Ops)
      /\ Len(f.line) = n /\ Indexed(f.ops)
  BY LenProperties DEF DataOK, TablesOK, InDatabase, Sound, Frontiers
<1>2. all \in Lines /\ all[n + 1] = f.ops /\ n + 1 \in DOMAIN all
  <2>1. f.line \in Seq(Seq(Ops))
    BY <1>1 DEF Lines
  <2>2. all \in Seq(Seq(Ops)) /\ Len(all) = n + 1 /\ all[n + 1] = f.ops
    BY <1>1, <2>1, AppendProperties
  <2> HIDE DEF all
  <2>3. DOMAIN all = 1 .. n + 1
    BY <2>2, LenProperties
  <2> QED BY <1>1, <2>2, <2>3 DEF Lines
<1>3. TxsHold(execTxs, all) /\ IdsHold(execPriorityOps, all)
  BY DEF InDatabase
<1>4. pendingRows \subseteq {n + 1} /\ (pendingRows = {} => f.ops = <<>>)
  BY DEF InDatabase
<1> HIDE DEF n, all
<1>5. LoadedOps(n + 1) = f.ops
  <2>1. Indexed(all[n + 1])
    BY <1>1, <1>2
  <2>2. LoadedOps(n + 1) = all[n + 1]
    BY <1>2, <1>3, <2>1, LoadedOpsAre
  <2> QED BY <1>2, <2>2
<1>6. CASE pendingRows = {}
  <2>1. LoadPending(n) = NothingToRestore
    BY <1>6 DEF LoadPending
  <2> QED BY <1>4, <1>6, <2>1 DEF NothingToRestore, n
<1>7. CASE pendingRows = {n + 1}
  <2>1. Max({n + 1}) = n + 1
    BY <1>1 DEF Max
  <2>2. ~ (pendingRows = {} \/ Max(pendingRows) <= n)
    BY <1>1, <1>7, <2>1
  <2>3. LoadPending(n) = [ops |-> LoadedOps(n + 1), failed |-> LoadedFailures(n + 1)]
    BY <2>2 DEF LoadPending
  <2> QED BY <1>5, <2>3 DEF n
<1> QED BY <1>4, <1>6, <1>7

\* A restart goes back to the stored frontier.
LEMMA RestartForward ==
  ASSUME IInv, DataOK, FInv, LastIsFound, Restart
  PROVE  FInv'
<1>1. /\ mode = "down" /\ mode' = "restoring" /\ UNCHANGED <<miniBlock, commitQ>> /\ UNCHANGED tables
      /\ restore' = LoadPending(LastUpdated) /\ FreshPending(UnprocessedPriorityOp(LastUpdated))
  BY DEF Restart, tables
<1>2. LastUpdated = Len(blocks)
  BY DEF LastIsFound
<1>3. /\ accounts' = RootAt(LastUpdated) /\ currentPriorityOp' = UnprocessedPriorityOp(LastUpdated)
      /\ blockNumber' = LastUpdated + 1
      /\ success' = <<>> /\ updates' = <<>> /\ failed' = <<>> /\ pending'.index = 0
  BY RestartGives
<1>4. pending'.before = UnprocessedPriorityOp(LastUpdated)
  BY <1>1 DEF FreshPending, NewPending
<1>5. MiniOK' /\ ChannelOK'
  <2>1. miniBlock' = NoMiniBlock /\ commitQ' = <<>>
    BY <1>1 DEF FInv, MiniOK, ChannelOK
  <2>2. Len(<<>>) = 0
    BY EmptySeq
  <2> QED BY <1>1, <2>1, <2>2 DEF MiniOK, ChannelOK, NoMiniBlock
<1>6. PICK f : Follows(f)
  BY DEF FInv
<1>7. Sound(f) /\ InDatabase(f) /\ InDatabase(f)'
  BY <1>1, <1>6, SameDatabase DEF Follows
<1>8. /\ f.base = RootAt(Len(blocks)) /\ f.before = UnprocessedPriorityOp(Len(blocks))
      /\ f.ops \in Seq(Ops) /\ blocks' = blocks
  BY <1>1, <1>7 DEF InDatabase, Sound, Frontiers, tables
<1>9. Here' = Start(f)
  BY <1>2, <1>3, <1>8 DEF Here, Start
<1>10. restore'.ops = f.ops
  BY <1>1, <1>2, <1>7, PendingLoaded
<1>11. success' \o restore'.ops = f.ops
  <2>1. <<>> \o f.ops = f.ops
    BY <1>8, ConcatSimplifications
  <2> QED BY <1>3, <1>10, <2>1
<1>12. Runs(Here', restore'.ops, f.at)
  BY <1>7, <1>9, <1>10 DEF Sound
<1>13. pending'.index = Len(success')
  BY <1>3, EmptySeq
<1>14. /\ pending'.before = f.before /\ blockNumber' = Len(blocks') + 1 /\ failed' = <<>>
  BY <1>2, <1>3, <1>4, <1>8
<1>15. Restoring(f)'
  BY <1>11, <1>12, <1>13, <1>14 DEF Restoring
<1>16. Follows(f)'
  BY <1>1, <1>7, <1>15 DEF Follows, Running
<1> QED BY <1>5, <1>16 DEF FInv

\* The re-execution is over: the keeper is where the stored block was.
LEMMA FinishRestoreForward ==
  ASSUME IInv, DataOK, FInv, FinishRestore
  PROVE  FInv'
<1>1. /\ mode = "restoring" /\ restore.ops = <<>> /\ mode' = "idle"
      /\ pending' = [pending EXCEPT !.stored = Len(updates)]
      /\ UNCHANGED <<accounts, blockNumber, currentPriorityOp, success, updates, miniBlock, commitQ>>
      /\ UNCHANGED tables
  BY DEF FinishRestore, database, tables
<1>2. /\ {"before", "index", "stored"} \subseteq DOMAIN pending
  BY DEF DataOK, KeeperOK, IInv, SequencesOK
<1>3. /\ pending'.stored = Len(updates) /\ pending'.before = pending.before
      /\ pending'.index = pending.index
  BY <1>1, <1>2
<1>4. MiniOK' /\ ChannelOK' /\ commitQ' = <<>>
  <2>1. miniBlock' = NoMiniBlock /\ commitQ' = <<>>
    BY <1>1 DEF FInv, MiniOK, ChannelOK
  <2>2. Len(<<>>) = 0
    BY EmptySeq
  <2> QED BY <1>1, <2>1, <2>2 DEF MiniOK, ChannelOK, NoMiniBlock
<1>5. PICK f : Follows(f)
  BY DEF FInv
<1>6. Sound(f) /\ InDatabase(f) /\ InDatabase(f)' /\ Restoring(f)
  BY <1>1, <1>5, SameDatabase DEF Follows
<1>7. success = f.ops
  <2>1. success \o <<>> = success
    BY ConcatSimplifications DEF DataOK, KeeperOK
  <2> QED BY <1>1, <1>6, <2>1 DEF Restoring
<1>8. Here = f.at /\ Here' = Here
  <2>1. Runs(Here, <<>>, f.at)
    BY <1>1, <1>6 DEF Restoring
  <2> QED BY <1>1, <2>1, RunsNothing DEF Here
<1>9. updates = f.at.updates
  BY <1>8, HereFacts DEF DataOK
<1>10. Ahead(f)'
  <2>1. f.at \in Points /\ Indexed(f.ops) /\ f.ops \in Seq(Ops)
    BY <1>6 DEF Sound, Frontiers
  <2>2. Runs(f.at, <<>>, Here')
    BY <1>8, <2>1, RunsNot
  <2>3. success' = f.ops \o <<>>
    BY <1>1, <1>7, <2>1, ConcatSimplifications
  <2>4. \E n : Runs(f.at, n, Here') /\ success' = f.ops \o n
    BY <2>2, <2>3
  <2>5. Indexed(success') /\ pending'.index = Len(success')
    BY <1>1, <1>3, <1>6, <1>7, <2>1 DEF Restoring
  <2>6. pending'.stored = Len(f.at.updates) /\ pending'.before = f.before
    BY <1>3, <1>6, <1>9 DEF Restoring
  <2>7. blockNumber' = Len(f.line) + 1
    BY <1>1, <1>6 DEF Restoring, InDatabase, DataOK, TablesOK
  <2> QED BY <2>4, <2>5, <2>6, <2>7 DEF Ahead
<1>11. f.line = LineOf(commitQ', sealed')
  <2>1. sealed' = sealed /\ sealed \in Lines
    BY <1>1 DEF tables, DataOK, TablesOK
  <2>2. <<>> \in Seq(Requests)
    BY EmptySeq
  <2>3. LineOf(<<>>, sealed) = sealed
    BY <2>1, <2>2, LineFacts
  <2> QED BY <1>4, <1>6, <2>1, <2>3 DEF InDatabase
<1>12. FlightOf(blockNumber, commitQ, StoredFor(blockNumber))' = RowsFrom(f.at.updates)
  <2>1. PICK n : n = blockNumber
    OBVIOUS
  <2>2. StoredFor(n) = RowsFrom(f.at.updates) /\ n \in Nat /\ StoredFor(n) \in Seq(UpdateRowSet)
    BY <1>6, <2>1, StoredForTyped DEF Restoring, InDatabase, IInv, ControlTypeOK, DataOK
  <2>3. FlightOf(n, <<>>, StoredFor(n)) = StoredFor(n)
    <3> DEFINE s == StoredFor(n)
               q == <<>>
    <3>1. s \in Seq(UpdateRowSet) /\ q \in Seq(Requests) /\ Len(q) = 0
      BY <2>2, EmptySeq
    <3> HIDE DEF s, q
    <3>3. n \in Nat /\ \A k \in 1 .. Len(q) : q[k].number # n
      BY <2>2, <3>1
    <3>2. FlightOf(n, q, s) = s
      BY <3>1, <3>3, FlightNone
    <3> QED BY <3>2 DEF s, q
  <2>4. blockNumber' = n /\ StoredFor(blockNumber)' = StoredFor(n)
    BY <1>1, <2>1 DEF StoredFor, tables
  <2> QED BY <1>4, <2>2, <2>3, <2>4
<1>13. InFlight(f)'
  <2>1. Path(commitQ', f, f)
    BY <1>4, PathNot
  <2> QED BY <1>6, <1>10, <1>11, <1>12, <2>1 DEF InFlight
<1>14. Follows(f)'
  BY <1>1, <1>6, <1>13 DEF Follows
<1> QED BY <1>4, <1>14 DEF FInv

\* Two steps from one point over one operation lead to one point.
LEMMA GoesOneWay ==
  ASSUME NEW x, NEW o, NEW y, NEW z, Goes(x, o, y), Goes(x, o, z)
  PROVE  y = z
<1>1. CASE o.type = "tx"
  <2>1. TxGoes(x, o, y) /\ TxGoes(x, o, z)
    BY <1>1 DEF Goes
  <2> QED BY <2>1, Zenon DEF TxGoes
<1>2. CASE o.type # "tx"
  <2>1. PriorityGoes(x, o, y) /\ PriorityGoes(x, o, z)
    BY <1>2 DEF Goes
  <2> QED BY <2>1, Zenon DEF PriorityGoes
<1> QED BY <1>1, <1>2

\* A stored operation is executed again with the outcome it had.
LEMMA AgainGoes ==
  ASSUME IInv, DataOK, NEW op \in Ops, NEW y, Goes(Here, op, y), op.index = pending.index,
         \/ op.type = "tx" /\ ApplyTxs(<<op.tx>>) /\ <<op.tx>> \in Seq(AllTxs)
         \/ op.type # "tx" /\ op.id \in Ids /\ ApplyPriorityOp(op.id)
  PROVE  /\ success' = success \o <<op>> /\ Here' = y
         /\ pending'.index = pending.index + 1 /\ pending'.before = pending.before
         /\ UNCHANGED <<blockNumber, failed>>
<1>1. pending'.before = pending.before
  BY ApplyKeepsOpen
<1>2. KeeperOK /\ Here.ledger = accounts /\ Here.next = currentPriorityOp
  BY HereFacts DEF DataOK
<1>3. CASE op.type = "tx" /\ ApplyTxs(<<op.tx>>) /\ <<op.tx>> \in Seq(AllTxs)
  <2> DEFINE txs == <<op.tx>>
             run == ExecuteBatch(accounts, txs)
             rs == run.results
             r == ExecuteTx(accounts, op.tx)
  <2>1. r.ok /\ op.op = r.op
    <3>1. TxGoes(Here, op, y)
      BY <1>3 DEF Goes
    <3>2. ExecuteTx(Here.ledger, op.tx) = r
      BY <1>2
    <3> HIDE DEF r
    <3> QED BY <3>1, <3>2 DEF TxGoes
  <2>2. Len(txs) = 1 /\ txs[1] = op.tx /\ txs # <<>> /\ txs \in Seq(AllTxs)
    BY <1>3
  <2>3. \/ \E p : IsExecution(p, accounts, txs, run)
        \/ /\ txs # <<>> /\ rs = <<>> /\ run.ledger = accounts
           /\ Len(txs) = 1 => ~ ExecuteTx(accounts, txs[1]).ok
    <3>1. accounts \in Ledgers
      BY <1>2 DEF KeeperOK
    <3> HIDE DEF txs
    <3> QED BY <2>2, <3>1, BatchLeads
  <2>4. PICK p : IsExecution(p, accounts, txs, run)
    <3> HIDE DEF txs, rs, run
    <3> QED BY <2>1, <2>2, <2>3
  <2>5. Len(rs) = 1 /\ DOMAIN rs = 1 .. 1 /\ rs[1] = r
    <3> HIDE DEF txs, rs, run, r
    <3>1. /\ p[0] = accounts /\ Len(rs) = 1 /\ DOMAIN rs = 1 .. 1
          /\ rs[1] = ExecuteTx(p[1 - 1], txs[1])
      BY <2>2, <2>4 DEF IsExecution, rs
    <3>2. 1 - 1 = 0
      OBVIOUS
    <3> QED BY <2>2, <3>1, <3>2 DEF r
  <2>6. PICK ops : /\ Runs(Here, ops, Here') /\ success' = success \o ops
                   /\ ops = OpsOf(txs, rs, pending.index)
                   /\ \/ rs = <<>>
                      \/ /\ pending'.index = pending.index + Len(ops)
                         /\ failed' = failed \/ txs = <<>>
    <3>1. ApplyTxs(txs)
      BY <1>3
    <3> HIDE DEF txs
    <3>2. \E ops : /\ Runs(Here, ops, Here') /\ success' = success \o ops /\ Grows(ops)
                   /\ ops = OpsOf(txs, ExecuteBatch(accounts, txs).results, pending.index)
                   /\ \/ ExecuteBatch(accounts, txs).results = <<>>
                         /\ ops = <<>> /\ failed' = failed \o txs
                         /\ pending'.index = pending.index
                      \/ /\ Len(ops) = Len(txs) /\ pending'.index = pending.index + Len(ops)
                         /\ failed' = failed \/ txs = <<>>
      BY <1>2, <2>2, <3>1, TxsRun
    <3> QED BY <3>2
  <2>7. UNCHANGED blockNumber
    BY <1>3 DEF ApplyTxs
  <2>8. ops = <<op>>
    <3>1. op = TxOp(op.tx, op.op, op.index)
      BY <1>3, OpIs
    <3>2. ops = [k \in DOMAIN rs |-> TxOp(txs[k], rs[k].op, pending.index + k - 1)]
      BY <2>6 DEF OpsOf
    <3>3. pending.index + 1 - 1 = pending.index
      BY <1>2 DEF KeeperOK
    <3>4. TxOp(txs[1], rs[1].op, pending.index + 1 - 1) = op
      BY <2>1, <2>2, <2>5, <3>1, <3>3
    <3> HIDE DEF txs, rs, run, r
    <3>5. DOMAIN ops = 1 .. 1 /\ ops[1] = op
      BY <2>5, <3>2, <3>4
    <3>6. ops \in Seq(Ops) /\ <<op>> \in Seq(Ops)
      BY <2>6, RunFacts
    <3>7. Len(ops) = 1
      BY <3>5, <3>6, LenProperties
    <3>8. Len(<<op>>) = 1 /\ <<op>>[1] = op
      OBVIOUS
    <3> DEFINE one == <<op>>
    <3>9. one \in Seq(Ops) /\ Len(one) = Len(ops) /\ \A k \in 1 .. Len(ops) : ops[k] = one[k]
      BY <3>5, <3>6, <3>7, <3>8
    <3> HIDE DEF one
    <3>10. ops = one
      BY <3>6, <3>9, SeqEqual
    <3> QED BY <3>10 DEF one
  <2>9. rs # <<>>
    <3>1. Len(rs) = 1
      BY <2>5
    <3> HIDE DEF rs
    <3> SUFFICES ASSUME rs = <<>> PROVE FALSE
      BY Zenon
    <3>2. Len(rs) = Len(<<>>)
      BY Zenon
    <3>3. Len(<<>>) = 0
      BY EmptySeq
    <3> QED BY <3>1, <3>2, <3>3
  <2>10. pending'.index = pending.index + 1 /\ failed' = failed
    <3>1. Len(ops) = 1
      BY <2>8
    <3> HIDE DEF txs, rs, run, r
    <3> QED BY <2>2, <2>6, <2>9, <3>1
  <2>11. Here' = y
    <3>1. Runs(Here, <<op>>, Here')
      BY <2>6, <2>8
    <3>2. <<op>> # <<>> /\ Head(<<op>>) = op /\ Tail(<<op>>) = <<>>
      OBVIOUS
    <3>3. PICK z : Goes(Here, op, z) /\ Runs(z, <<>>, Here')
      BY <3>1, <3>2, RunsHead
    <3>4. z = Here'
      BY <3>3, RunsNothing
    <3> QED BY <3>3, <3>4, GoesOneWay
  <2> QED BY <1>1, <2>6, <2>7, <2>8, <2>10, <2>11
<1>4. CASE op.type # "tx" /\ op.id \in Ids /\ ApplyPriorityOp(op.id)
  <2> DEFINE id == op.id
             o == PriorityOp(id, PriorityOps[id + 1].kind, pending.index)
  <2>1. id = currentPriorityOp
    BY <1>2, <1>4 DEF Goes, PriorityGoes
  <2>2. o = op
    <3>1. op.op = PriorityOps[id + 1].kind /\ op = PriorityOp(op.id, op.op, op.index)
      BY <1>4, OpFacts, OpIs
    <3> QED BY <3>1, Zenon
  <2>3. /\ pending'.index = pending.index + 1
        /\ UNCHANGED <<blockNumber, failed>>
        /\ Grows(<<o>>) /\ (id = currentPriorityOp => Runs(Here, <<o>>, Here'))
    <3>1. id \in Ids /\ ApplyPriorityOp(id)
      BY <1>4
    <3> HIDE DEF id
    <3> QED BY <1>2, <3>1, PriorityRun
  <2>4. success' = success \o <<op>>
    BY <2>2, <2>3 DEF Grows
  <2>5. Here' = y
    <3>1. Runs(Here, <<op>>, Here')
      BY <2>1, <2>2, <2>3
    <3>2. <<op>> # <<>> /\ Head(<<op>>) = op /\ Tail(<<op>>) = <<>>
      OBVIOUS
    <3>3. PICK z : Goes(Here, op, z) /\ Runs(z, <<>>, Here')
      BY <3>1, <3>2, RunsHead
    <3>4. z = Here'
      BY <3>3, RunsNothing
    <3> QED BY <3>3, <3>4, GoesOneWay
  <2> QED BY <1>1, <2>3, <2>4, <2>5
<1> QED BY <1>3, <1>4

\* One step of the re-execution.
LEMMA RestoreOpForward ==
  ASSUME IInv, DataOK, FInv, RestoreOp
  PROVE  FInv'
<1> DEFINE todo == restore.ops
           op == Head(todo)
           rest == Tail(todo)
<1>1. /\ mode = "restoring" /\ todo # <<>> /\ todo \in Seq(Ops) /\ op \in Ops /\ rest \in Seq(Ops)
      /\ \/ Panic
         \/ /\ \/ op.type = "tx" /\ ApplyTxs(<<op.tx>>) /\ <<op.tx>> \in Seq(AllTxs)
               \/ op.type # "tx" /\ op.id \in Ids /\ ApplyPriorityOp(op.id)
            /\ restore' = [restore EXCEPT !.ops = Tail(@)]
            /\ UNCHANGED <<mode, miniBlock, commitQ, ready, database, known, submitted, crashes, wentBack>>
  BY RestoreOpCases
<1>2. restore \in [ops : Seq(Ops), failed : Seq(AllTxs)]
  BY DEF DataOK, WorkOK
<1>3. CASE Panic
  BY <1>3, PanicForward
<1>4. CASE /\ \/ op.type = "tx" /\ ApplyTxs(<<op.tx>>) /\ <<op.tx>> \in Seq(AllTxs)
              \/ op.type # "tx" /\ op.id \in Ids /\ ApplyPriorityOp(op.id)
           /\ restore' = [restore EXCEPT !.ops = Tail(@)]
           /\ UNCHANGED <<mode, miniBlock, commitQ, ready, database, known, submitted, crashes, wentBack>>
  <2>1. restore'.ops = rest
    BY <1>2, <1>4
  <2>2. PICK f : Follows(f)
    BY DEF FInv
  <2>3. UNCHANGED tables /\ blocks' = blocks
    BY <1>4 DEF database, tables
  <2>4. Sound(f) /\ InDatabase(f) /\ InDatabase(f)' /\ Restoring(f)
    BY <1>1, <2>2, <2>3, SameDatabase DEF Follows
  <2>5. /\ success \o todo = f.ops /\ Runs(Here, todo, f.at) /\ pending.index = Len(success)
        /\ success \in Seq(Ops)
    BY <2>4 DEF Restoring, DataOK, KeeperOK
  <2> HIDE DEF todo
  <2>6. PICK y : Goes(Here, op, y) /\ Runs(y, rest, f.at)
    BY <1>1, <2>5, RunsHead
  <2>7. op.index = pending.index
    <3> DEFINE n == Len(success)
               all == success \o todo
    <3>1. /\ n \in Nat /\ Len(todo) \in Nat \ {0} /\ op = todo[1]
      BY <1>1, <2>5, LenProperties, HeadTailProperties, EmptySeq
    <3>2. Len(all) = n + Len(todo) /\ \A k \in n + 1 .. n + Len(todo) : all[k] = todo[k - n]
      <4>1. /\ Len(success \o todo) = Len(success) + Len(todo)
            /\ \A k \in 1 .. Len(success) + Len(todo) :
                  (success \o todo)[k] = IF k <= Len(success) THEN success[k]
                                        ELSE todo[k - Len(success)]
        <5>1. success \in Seq(Ops) /\ todo \in Seq(Ops)
          BY <1>1, <2>5
        <5> QED BY <5>1, JoinedOps, Zenon
      <4>2. /\ Len(all) = n + Len(todo)
            /\ \A k \in 1 .. n + Len(todo) : all[k] = IF k <= n THEN success[k] ELSE todo[k - n]
        BY <4>1
      <4> HIDE DEF n, all
      <4> QED BY <3>1, <4>2
    <3>3. \A k \in 1 .. Len(all) : all[k].index = k - 1
      BY <2>4, <2>5 DEF Sound, Indexed
    <3> HIDE DEF n, all
    <3>4. n + 1 \in n + 1 .. n + Len(todo) /\ n + 1 \in 1 .. Len(all) /\ (n + 1) - n = 1
          /\ (n + 1) - 1 = n
      BY <3>1, <3>2
    <3>5. all[n + 1] = todo[1]
      BY <3>2, <3>4
    <3>6. all[n + 1].index = n
      BY <3>3, <3>4
    <3> QED BY <2>5, <3>1, <3>5, <3>6 DEF n
  <2> HIDE DEF op
  <2>8. /\ success' = success \o <<op>> /\ Here' = y
        /\ pending'.index = pending.index + 1 /\ pending'.before = pending.before
        /\ UNCHANGED <<blockNumber, failed>>
    BY <1>1, <1>4, <2>6, <2>7, AgainGoes
  <2> DEFINE one == <<op>>
  <2>9. one \in Seq(Ops) /\ Len(one) = 1
    BY <1>1
  <2>10. one \o rest = todo
    BY <1>1, HeadTailProperties DEF op
  <2> HIDE DEF one, rest
  <2>11. success' \o restore'.ops = f.ops
    <3>1. (success \o one) \o rest = success \o (one \o rest)
      BY <1>1, <2>5, <2>9, JoinOps
    <3>2. success' = success \o one
      BY <2>8 DEF one
    <3> QED BY <2>1, <2>5, <2>10, <3>1, <3>2
  <2>12. pending'.index = Len(success')
    <3>1. Len(success \o one) = Len(success) + 1
      BY <2>5, <2>9, ConcatProperties
    <3> QED BY <2>5, <2>8, <3>1 DEF one
  <2>13. Runs(Here', restore'.ops, f.at)
    BY <2>1, <2>6, <2>8
  <2>14. pending'.before = f.before /\ blockNumber' = Len(blocks') + 1 /\ failed' = <<>>
    BY <2>3, <2>4, <2>8 DEF Restoring
  <2>15. Restoring(f)'
    BY <2>11, <2>12, <2>13, <2>14 DEF Restoring
  <2>16. MiniOK' /\ ChannelOK'
    <3>1. miniBlock' = NoMiniBlock /\ commitQ' = <<>> /\ mode' = "restoring"
      BY <1>1, <1>4 DEF FInv, MiniOK, ChannelOK
    <3>2. Len(<<>>) = 0
      BY EmptySeq
    <3> QED BY <3>1, <3>2 DEF MiniOK, ChannelOK, NoMiniBlock
  <2>17. Follows(f)'
    BY <1>1, <1>4, <2>4, <2>15 DEF Follows, Running
  <2> QED BY <2>16, <2>17 DEF FInv
<1> QED BY <1>1, <1>3, <1>4

-----------------------------------------------------------------------------
(* The invariant *)

\* A place to start at.
LEMMA StartPoint ==
  ASSUME NEW l \in Ledgers, NEW n \in Nat, NEW x, x = Point(l, <<>>, n)
  PROVE  x \in Points /\ x.ledger = l /\ x.updates = <<>> /\ x.next = n
<1> DEFINE none == <<>>
<1>1. none \in Seq(Updates) /\ x = Point(l, none, n)
  BY EmptySeq
<1> HIDE DEF none
<1>2. x \in Points /\ x.ledger = l /\ x.updates = none /\ x.next = n
  BY <1>1, PointFacts
<1> QED BY <1>2 DEF none

\* The program starts with tables, a channel and a keeper that are empty.
LEMMA InitFInv == Init => FInv
<1> SUFFICES ASSUME Init PROVE FInv
  OBVIOUS
<1> DEFINE none == <<>>
<1>0. PICK x : x = Point(Genesis, <<>>, 0)
  OBVIOUS
<1>1. /\ none \in Seq(Updates) /\ none \in Seq(Ops) /\ none \in Lines /\ none \in Seq(Requests)
      /\ none \in Seq(BlockRows) /\ Len(none) = 0 /\ DOMAIN none = {}
  BY EmptySeq, EmptyIsSeq DEF Lines
<1>2. Genesis \in Ledgers /\ 0 \in Nat
  BY GenesisFits
<1>3. IInv /\ DataOK
  BY InitIInv, InitDataOK
<1>4. /\ accounts = Genesis /\ blockNumber = 1 /\ currentPriorityOp = 0 /\ mode = "idle"
      /\ success = none /\ updates = none /\ commitQ = none /\ blocks = none /\ sealed = none
      /\ pendingRows = {} /\ execTxs = none /\ execPriorityOps = none /\ stateUpdates = none
      /\ pending.index = 0 /\ pending.stored = 0 /\ pending.before = 0
      /\ miniBlock = NoMiniBlock
  BY DEF Init, NewPending
<1>5. \A n : StoredFor(n) = none
  BY <1>1, <1>4 DEF StoredFor
<1> HIDE DEF none
<1>6. x \in Points /\ x.ledger = Genesis /\ x.updates = none /\ x.next = 0
  <2>1. x \in Points /\ x.ledger = Genesis /\ x.updates = <<>> /\ x.next = 0
    BY <1>0, <1>2, StartPoint
  <2> QED BY <2>1 DEF none
<1>7. PICK f : f = [line |-> none, base |-> Genesis, before |-> 0, ops |-> none, at |-> x]
  OBVIOUS
<1>8. /\ f \in Frontiers /\ f.line = none /\ f.base = Genesis /\ f.before = 0 /\ f.ops = none
      /\ f.at = x
  BY <1>1, <1>2, <1>6, <1>7 DEF Frontiers
<1>9. Sound(f)
  <2>1. Start(f) = x
    BY <1>0, <1>8 DEF Start, none
  <2>2. Runs(x, none, x)
    BY <1>6, RunsNot DEF none
  <2>3. OnceAmong(none) /\ UsedAll(f.base, none) /\ IdsBelow(none, 0) /\ Indexed(none)
    BY <1>1 DEF OnceAmong, UsedAll, IdsBelow, Indexed
  <2> QED BY <1>1, <1>8, <2>1, <2>2, <2>3 DEF Sound
<1>10. RowsFrom(f.at.updates) = none
  BY <1>6, <1>8, NoRows DEF none
<1>11. InDatabase(f)
  <2>1. TxsHold(none, Append(none, none)) /\ IdsHold(none, Append(none, none))
    <3>1. TxsHold(none, none) /\ IdsHold(none, none)
      BY <1>1 DEF TxsHold, IdsHold
    <3>2. TxsHold(none, Append(none, <<>>)) /\ IdsHold(none, Append(none, <<>>))
      BY <1>1, <3>1, HoldsOpen
    <3> QED BY <3>2 DEF none
  <2>2. Len(blocks) = 0
    BY <1>1, <1>4
  <2>3. RootAt(0) = Genesis /\ UnprocessedPriorityOp(0) = 0
    BY DEF RootAt, UnprocessedPriorityOp
  <2>4. StoredFor(Len(blocks) + 1) = RowsFrom(f.at.updates)
    BY <1>5, <1>10
  <2>5. \A n \in 1 .. Len(blocks) : BlockSound(n)
    BY <2>2
  <2>6. \A n \in Nat : n > Len(blocks) + 1 => StoredFor(n) = <<>>
    BY <1>5 DEF none
  <2>7. TxsHold(execTxs, Append(f.line, f.ops)) /\ IdsHold(execPriorityOps, Append(f.line, f.ops))
    BY <1>4, <1>8, <2>1
  <2>8. /\ f.line = sealed /\ f.base = RootAt(Len(blocks))
        /\ f.before = UnprocessedPriorityOp(Len(blocks))
    BY <1>4, <1>8, <2>2, <2>3
  <2>9. pendingRows \subseteq {Len(blocks) + 1} /\ (pendingRows = {} => f.ops = <<>>)
    BY <1>4, <1>8 DEF none
  <2> QED BY <2>4, <2>5, <2>6, <2>7, <2>8, <2>9 DEF InDatabase
<1>12. Here = x
  BY <1>0, <1>4 DEF Here, none
<1>13. Ahead(f)
  <2>1. Runs(x, none, x)
    BY <1>6, RunsNot DEF none
  <2>2. none \o none = none
    BY <1>1, ConcatSimplifications DEF none
  <2>3. \E n : Runs(f.at, n, Here) /\ success = f.ops \o n
    BY <1>4, <1>8, <1>12, <2>1, <2>2
  <2>4. Indexed(success) /\ pending.index = Len(success)
    BY <1>1, <1>4 DEF Indexed
  <2>5. pending.stored = Len(f.at.updates) /\ pending.before = f.before
    BY <1>1, <1>4, <1>6, <1>8
  <2>6. blockNumber = Len(f.line) + 1
    BY <1>1, <1>4, <1>8
  <2> QED BY <2>3, <2>4, <2>5, <2>6 DEF Ahead
<1>14. InFlight(f)
  <2>1. Path(commitQ, f, f)
    BY <1>4, PathNot DEF none
  <2>2. LineOf(none, none) = none
    BY <1>1, LineFacts DEF none
  <2>3. FlightOf(1, none, none) = none
    <3>1. none \in Seq(UpdateRowSet) /\ 1 \in Nat /\ \A k \in 1 .. Len(none) : none[k].number # 1
      BY <1>1, EmptySeq DEF none
    <3> QED BY <1>1, <3>1, FlightNone
  <2>4. f.line = LineOf(commitQ, sealed)
    BY <1>4, <1>8, <2>2
  <2>5. FlightOf(blockNumber, commitQ, StoredFor(blockNumber)) = RowsFrom(f.at.updates)
    BY <1>4, <1>5, <1>10, <2>3
  <2> QED BY <1>9, <1>13, <2>1, <2>4, <2>5 DEF InFlight
<1>15. Follows(f)
  BY <1>4, <1>9, <1>11, <1>14 DEF Follows
<1>16. MiniOK
  BY <1>1, <1>4 DEF MiniOK, NoMiniBlock, none
<1> QED BY <1>4, <1>15, <1>16 DEF FInv, ChannelOK

\* No step makes a restart that went back unhappen, and a restart notes it.
LEMMA NeverWentBack ==
  ASSUME [Next]_vars, ~ wentBack'
  PROVE  ~ wentBack /\ (Restart => LastIsFound)
<1>1. CASE Restart
  BY <1>1 DEF Restart
<1>2. CASE Propose \/ Environment \/ VerifyBlock \/ Crash \/ Committer
  BY <1>2
  DEF Propose, ProposeMiniBlock, Environment, ReportPriorityOp, Submit, VerifyBlock, Crash,
      Committer, SavePendingBlock, CommitBlock, Panic, Restart
<1>3. CASE Keeper
  BY <1>3
  DEF Keeper, ExecutePriority, ExecuteTxs, FinishMiniBlock, SealAndRetry, Panic, Restart,
      Executing
<1>4. CASE RestoreOp \/ FinishRestore \/ UNCHANGED vars
  BY <1>4 DEF RestoreOp, FinishRestore, Panic, Restart, vars, process
<1> QED BY <1>1, <1>2, <1>3, <1>4 DEF Next, Recovery

\* Every step keeps the tables, the channel and the keeper together, but for the
\* restart that goes back.
LEMMA NextForward ==
  ASSUME IInv, DataOK, FInv, [Next]_vars, ~ wentBack'
  PROVE  FInv'
<1>1. CASE Propose
  BY <1>1, ProposeForward
<1>2. CASE Keeper
  BY <1>2, ExecutePriorityForward, ExecuteTxsForward, FinishForward DEF Keeper
<1>3. CASE Committer
  BY <1>3, CommitterForward
<1>4. CASE VerifyBlock
  BY <1>4, AsideForward DEF VerifyBlock, process, Memory, tables
<1>5. CASE Crash
  BY <1>5, StopForward DEF Crash, database, tables
<1>6. CASE Recovery
  <2>1. Restart => LastIsFound
    BY NeverWentBack
  <2> QED BY <1>6, <2>1, RestartForward, RestoreOpForward, FinishRestoreForward DEF Recovery
<1>7. CASE Environment
  <2>1. CASE ReportPriorityOp
    BY <2>1, AsideForward DEF ReportPriorityOp, process, database, Memory, tables
  <2>2. CASE \E v \in Variants : Submit(v)
    BY <2>2, AsideForward DEF Submit, tables
  <2> QED BY <1>7, <2>1, <2>2 DEF Environment
<1>8. CASE UNCHANGED vars
  BY <1>8, AsideForward DEF vars, process, database, Memory, tables
<1> QED BY <1>1, <1>2, <1>3, <1>4, <1>5, <1>6, <1>7, <1>8 DEF Next

-----------------------------------------------------------------------------
(* What the invariant says of the properties *)

\* A transaction is in one block, once: those sealed, those in the channel and
\* the open one (state_keeper/mod.rs:600).
LEMMA OnceNow ==
  ASSUME DataOK, FInv
  PROVE  SuccessOnce
<1>1. PICK f : Follows(f)
  BY DEF FInv
<1>2. CASE Running
  <2>1. PICK g : Path(commitQ, f, g) /\ g.line = LineOf(commitQ, sealed) /\ Sound(g) /\ Ahead(g)
    BY <1>1, <1>2 DEF Follows, InFlight
  <2>2. PICK new : Runs(g.at, new, Here) /\ success = g.ops \o new
    BY <2>1 DEF Ahead
  <2>3. Runs(Start(g), success, Here)
    BY <2>1, <2>2, RunsJoin DEF Sound
  <2>4. OnceAmong(Append(g.line, success))
    BY <2>1, <2>3, OpenFacts
  <2>5. SealedAtLast = g.line
    BY <2>1, Zenon DEF SealedAtLast, LineOf
  <2> QED BY <1>2, <2>4, <2>5 DEF SuccessOnce, OnceAmong
<1>3. CASE ~ Running
  <2>1. OnceAmong(sealed)
    BY <1>1 DEF Follows, Sound, InDatabase
  <2> QED BY <1>3, <2>1 DEF SuccessOnce, OnceAmong
<1> QED BY <1>2, <1>3

\* The keeper builds the next number.
LEMMA NumbersNow ==
  ASSUME IInv, DataOK, FInv
  PROVE  NumbersFollowCommits
<1> SUFFICES ASSUME mode # "down" PROVE blockNumber = Len(SealedAtLast) + 1
  BY DEF NumbersFollowCommits
<1>1. PICK f : Follows(f)
  BY DEF FInv
<1>2. SealedAtLast = LineOf(commitQ, sealed)
  BY Zenon DEF SealedAtLast, LineOf
<1>3. CASE Running
  <2>1. PICK g : g.line = LineOf(commitQ, sealed) /\ Ahead(g)
    BY <1>1, <1>3 DEF Follows, InFlight
  <2> QED BY <1>2, <2>1 DEF Ahead
<1>4. CASE ~ Running
  <2>1. mode = "restoring"
    BY <1>4 DEF Running, IInv, ControlTypeOK
  <2>2. commitQ = <<>> /\ blockNumber = Len(blocks) + 1 /\ Len(sealed) = Len(blocks) /\ sealed \in Lines
    BY <1>1, <2>1 DEF FInv, ChannelOK, Follows, Restoring, DataOK, TablesOK
  <2>3. LineOf(<<>>, sealed) = sealed
    <3>1. commitQ \in Seq(Requests)
      BY DEF DataOK, WorkOK
    <3> QED BY <2>2, <3>1, LineFacts
  <2> QED BY <1>2, <2>2, <2>3
<1> QED BY <1>3, <1>4

\* The stored updates of the blocks lead to the root of each.
LEMMA RootsNow ==
  ASSUME DataOK, NEW f, InDatabase(f)
  PROVE  UpdatesGiveRoot
<1> SUFFICES ASSUME NEW n \in DOMAIN blocks PROVE StateAfter(n) = blocks[n].root
  BY DEF UpdatesGiveRoot
<1> DEFINE us == [k \in 1 .. n |-> LoadedUpdates(k)]
<1>1. n \in 1 .. Len(blocks) /\ Len(blocks) \in Nat /\ n \in Nat /\ n # 0
  BY LenProperties DEF DataOK, TablesOK
<1>2. \A k \in 1 .. n : Leads(RootAt(k - 1), LoadedUpdates(k), RootAt(k))
  <2> TAKE k \in 1 .. n
  <2>1. BlockSound(k)
    BY <1>1 DEF InDatabase
  <2>2. PICK vs \in Seq(Updates) : Leads(RootAt(k - 1), vs, RootAt(k)) /\ StoredFor(k) = RowsFrom(vs)
    BY <2>1 DEF BlockSound
  <2>3. LoadedUpdates(k) = vs
    BY <2>2, LoadedUpdatesAre
  <2> QED BY <2>2, <2>3
<1>3. us \in [1 .. n -> Seq(Updates)] /\ \A k \in 1 .. n : us[k] = LoadedUpdates(k)
  BY <1>2 DEF Leads
<1>4. StateAfter(n) = ApplyUpdates(Genesis, FlattenSeq(us))
  BY DEF StateAfter
<1> HIDE DEF us
<1>5. us \in Seq(Seq(Updates)) /\ Len(us) = n
  BY <1>1, <1>3, ListIsSeq
<1>6. PICK g : /\ g \in [0 .. n -> Seq(Updates)] /\ g[0] = <<>> /\ g[n] = FlattenSeq(us)
               /\ \A k \in 1 .. n : g[k] = g[k - 1] \o us[k]
  BY <1>1, <1>5, FlattenAlong
<1> DEFINE T == {k \in 0 .. n : Leads(Genesis, g[k], RootAt(k))}
<1>7. 0 \in T
  <2>1. Leads(Genesis, <<>>, Genesis) /\ RootAt(0) = Genesis
    BY GenesisFits, LeadsNot DEF RootAt
  <2> QED BY <1>1, <1>6, <2>1
<1>8. \A k \in 1 .. n : k - 1 \in T => k \in T
  <2> TAKE k \in 1 .. n
  <2> HAVE k - 1 \in T
  <2>1. Leads(Genesis, g[k - 1], RootAt(k - 1)) /\ Leads(RootAt(k - 1), us[k], RootAt(k))
    BY <1>2, <1>3
  <2>2. Leads(Genesis, g[k - 1] \o us[k], RootAt(k))
    BY <2>1, LeadsOn
  <2>3. g[k] = g[k - 1] \o us[k]
    BY <1>6, Zenon
  <2>4. Leads(Genesis, g[k], RootAt(k))
    BY <2>2, <2>3
  <2>5. k \in 0 .. n
    BY <1>1
  <2> QED BY <2>4, <2>5
<1>9. 0 .. n \subseteq T
  <2> HIDE DEF T
  <2> QED BY <1>1, <1>7, <1>8, AlongInterval
<1>10. Leads(Genesis, FlattenSeq(us), RootAt(n)) /\ RootAt(n) = blocks[n].root
  <2>1. n \in 0 .. n
    BY <1>1
  <2> QED BY <1>1, <1>6, <1>9, <2>1 DEF RootAt
<1> QED BY <1>4, <1>10, LeadsApply

\* What the tables hold of the committed blocks is what was sealed.
LEMMA BlocksNow ==
  ASSUME DataOK, NEW f, Sound(f), InDatabase(f)
  PROVE  StoredBlockIsSealed /\ RangeIsContent
<1>1. /\ f.line = sealed /\ f.line \in Lines /\ f.ops \in Seq(Ops) /\ Len(f.line) = Len(blocks)
      /\ Len(blocks) \in Nat /\ DOMAIN blocks = 1 .. Len(blocks) /\ DOMAIN f.line = 1 .. Len(f.line)
      /\ \A n \in DOMAIN f.line : Indexed(f.line[n])
  BY LenProperties DEF DataOK, TablesOK, InDatabase, Sound, Frontiers, Lines
<1>2. StoredBlockIsSealed
  <2> SUFFICES ASSUME NEW n \in DOMAIN blocks PROVE LoadedOps(n) = sealed[n]
    BY DEF StoredBlockIsSealed
  <2> DEFINE all == Append(f.line, f.ops)
  <2>1. all \in Lines /\ n \in DOMAIN all /\ all[n] = f.line[n]
    <3>1. /\ all \in Seq(Seq(Ops)) /\ Len(all) = Len(f.line) + 1
          /\ \A k \in 1 .. Len(f.line) : all[k] = f.line[k]
      <4> DEFINE line == f.line
                 ops == f.ops
      <4>1. line \in Seq(Seq(Ops)) /\ ops \in Seq(Ops) /\ all = Append(line, ops)
        BY <1>1 DEF Lines
      <4> HIDE DEF line, ops, all
      <4>2. /\ all \in Seq(Seq(Ops)) /\ Len(all) = Len(line) + 1
            /\ \A k \in 1 .. Len(line) : all[k] = line[k]
        BY <4>1, AppendProperties
      <4> QED BY <4>2 DEF line
    <3> HIDE DEF all
    <3>2. DOMAIN all = 1 .. Len(f.line) + 1
      BY <3>1, LenProperties
    <3> QED BY <1>1, <3>1, <3>2 DEF Lines
  <2>2. Indexed(all[n])
    BY <1>1, <2>1
  <2>3. TxsHold(execTxs, all) /\ IdsHold(execPriorityOps, all)
    BY DEF InDatabase
  <2> HIDE DEF all
  <2> QED BY <1>1, <2>1, <2>2, <2>3, LoadedOpsAre
<1>3. RangeIsContent
  <2> SUFFICES ASSUME NEW n \in DOMAIN blocks
               PROVE  IdsOf(sealed[n]) = Interval(blocks[n].before, blocks[n].after)
    BY DEF RangeIsContent
  <2> QED BY <1>1 DEF InDatabase, BlockSound
<1> QED BY <1>2, <1>3

\* The updates of the open block, stored and in flight, are the first ones.
LEMMA OrderNow ==
  ASSUME IInv, DataOK, FInv
  PROVE  UpdateOrder
<1> SUFFICES ASSUME Running
             PROVE  UpdatesAtLast(blockNumber)
                    = UpdateRows([first |-> 0, updates |-> SubSeq(updates, 1, pending.stored)])
  BY DEF UpdateOrder
<1>1. PICK f : Follows(f)
  BY DEF FInv
<1>2. PICK g : /\ Sound(g) /\ Ahead(g)
               /\ FlightOf(blockNumber, commitQ, StoredFor(blockNumber)) = RowsFrom(g.at.updates)
  BY <1>1 DEF Follows, InFlight
<1>3. UpdatesAtLast(blockNumber) = FlightOf(blockNumber, commitQ, StoredFor(blockNumber))
  BY Zenon DEF UpdatesAtLast, FlightOf
<1>4. <<>> \in Seq(Updates)
  BY EmptySeq
<1>5. PICK vs \in Seq(Updates) : updates = g.at.updates \o vs
  BY <1>2, <1>4, RequestStores
<1>6. g.at.updates \in Seq(Updates)
  BY <1>2, RunFacts DEF Sound, Points
<1> DEFINE old == g.at.updates
<1>7. SubSeq(updates, 1, pending.stored) = old
  <2>1. pending.stored = Len(old)
    BY <1>2 DEF Ahead
  <2>2. updates = old \o vs /\ old \in Seq(Updates)
    BY <1>5, <1>6
  <2> HIDE DEF old
  <2>3. SubSeq(old \o vs, 1, Len(old)) = old
    BY <2>2, RestOfUpdates
  <2> QED BY <2>1, <2>2, <2>3
<1> QED BY <1>2, <1>3, <1>7, Zenon DEF RowsFrom

\* The re-execution has the stored outcome.
LEMMA FaithfulNow ==
  ASSUME DataOK, FInv
  PROVE  RestoreFaithful
<1> SUFFICES ASSUME mode = "restoring"
             PROVE  /\ failed = <<>>
                    /\ success \o restore.ops = LoadPending(blockNumber - 1).ops
                    /\ restore.ops = <<>> => updates = LoadedUpdates(blockNumber)
  BY DEF RestoreFaithful
<1>1. PICK f : Follows(f)
  BY DEF FInv
<1>2. Sound(f) /\ InDatabase(f) /\ Restoring(f)
  BY <1>1 DEF Follows
<1>3. blockNumber = Len(blocks) + 1 /\ blockNumber - 1 = Len(blocks)
  <2>1. Len(blocks) \in Nat
    BY LenProperties DEF DataOK, TablesOK
  <2> QED BY <1>2, <2>1 DEF Restoring
<1>4. LoadPending(Len(blocks)).ops = f.ops
  BY <1>2, PendingLoaded
<1>5. ASSUME restore.ops = <<>>
      PROVE  updates = LoadedUpdates(blockNumber)
  <2>1. Here = f.at
    BY <1>2, <1>5, RunsNothing DEF Restoring
  <2>2. updates = f.at.updates /\ f.at.updates \in Seq(Updates)
    BY <2>1, HereFacts DEF DataOK, KeeperOK, Here, Point
  <2>3. StoredFor(blockNumber) = RowsFrom(f.at.updates)
    BY <1>2, <1>3 DEF InDatabase
  <2> QED BY <2>2, <2>3, LoadedUpdatesAre
<1> QED BY <1>2, <1>3, <1>4, <1>5 DEF Restoring

\* initialize finds the last block, its root and the pending block behind it.
LEMMA PossibleNow ==
  ASSUME DataOK, FInv
  PROVE  RestartPossible
<1> SUFFICES ASSUME mode = "down", LastIsFound PROVE RestartSucceeds
  BY DEF RestartPossible
<1>1. PICK f : Follows(f)
  BY DEF FInv
<1>2. InDatabase(f) /\ LastUpdated = Len(blocks) /\ Len(blocks) \in Nat
      /\ DOMAIN blocks = 1 .. Len(blocks)
  BY <1>1, LenProperties DEF Follows, LastIsFound, DataOK, TablesOK
<1>3. LastUpdated # 0 => blocks[LastUpdated].root = StateAfter(LastUpdated)
  BY <1>2, RootsNow DEF UpdatesGiveRoot
<1>4. pendingRows # {} => Max(pendingRows) <= LastUpdated + 1
  <2>1. pendingRows # {} => pendingRows = {Len(blocks) + 1}
    BY <1>2 DEF InDatabase
  <2>2. Max({Len(blocks) + 1}) = Len(blocks) + 1
    BY <1>2 DEF Max
  <2> QED BY <1>2, <2>1, <2>2
<1> QED BY <1>3, <1>4 DEF RestartSucceeds

-----------------------------------------------------------------------------
(* The theorems *)

\* Until a restart goes back behind the last block, the tables, the channel and the
\* keeper follow each other.
THEOREM Followed == Spec => [](~ wentBack => FInv)
<1>1. Init => FInv
  BY InitFInv
<1>2. IInv /\ DataOK /\ (~ wentBack => FInv) /\ [Next]_vars => (~ wentBack => FInv)'
  <2> SUFFICES ASSUME IInv, DataOK, ~ wentBack => FInv, [Next]_vars, ~ wentBack'
               PROVE  FInv'
    OBVIOUS
  <2>1. FInv
    BY NeverWentBack
  <2> QED BY <2>1, NextForward
<1> QED BY <1>1, <1>2, Inductive, DataFits, PTL DEF Spec

\* A transaction succeeds once, in one block, through crashes, re-execution and
\* resubmission (apply_tx, state_keeper/mod.rs:600).
THEOREM TransactionsSucceedOnce == Spec => [](~ wentBack => SuccessOnce)
<1>1. DataOK /\ FInv => SuccessOnce
  BY OnceNow
<1> QED BY <1>1, DataFits, Followed, PTL

\* The committer writes what the keeper seals, operations, ranges and updates,
\* and the updates give the root of every block.
THEOREM DatabaseIsWhatWasSealed == Spec => []DatabaseFollowsKeeper
<1>1. IInv /\ DataOK /\ (~ wentBack => FInv) => DatabaseFollowsKeeper
  <2> SUFFICES ASSUME IInv, DataOK, FInv
               PROVE  StoredBlockIsSealed /\ RangeIsContent /\ UpdatesGiveRoot /\ UpdateOrder
    BY DEF DatabaseFollowsKeeper
  <2>1. PICK f : Follows(f)
    BY DEF FInv
  <2>2. StoredBlockIsSealed /\ RangeIsContent /\ UpdatesGiveRoot
    BY <2>1, BlocksNow, RootsNow DEF Follows
  <2> QED BY <2>2, OrderNow
<1> QED BY <1>1, Inductive, DataFits, Followed, PTL

\* A restart that finds the last block succeeds, and the re-execution has the
\* stored outcome (initialize, state_keeper/mod.rs:335).
THEOREM RestartResumesTheBlock == Spec => []RestartResumes
<1>1. DataOK /\ (~ wentBack => FInv) => RestartResumes
  BY FaithfulNow, PossibleNow DEF RestartResumes
<1> QED BY <1>1, DataFits, Followed, PTL

-----------------------------------------------------------------------------
(* Batches *)

\* A transaction of a batch is submitted with that batch alone.
BatchesApart ==
  \A v, w \in Variants : Len(v) > 1 /\ v # w => \A i \in DOMAIN v, j \in DOMAIN w : v[i] # w[j]

\* BatchAtomic, of the operations of one block.
SideBySide(ops) ==
  \A v \in Variants : \A i \in TxsOf(ops) :
     Len(v) > 1 /\ ops[i].tx \in Range(v) =>
        \E first \in DOMAIN ops :
           /\ first + Len(v) - 1 <= Len(ops)
           /\ \A k \in DOMAIN v :
                 LET o == ops[first + k - 1]
                 IN  o.type = "tx" /\ o.tx = v[k]

\* A set that holds all of a batch or nothing of it.
Whole(S) == \A v \in Variants : \A i, j \in DOMAIN v : v[i] \in S => v[j] \in S

\* The rows of a batch have one outcome in one block.
RowsWhole(rows) ==
  \A v \in Variants : \A i, j \in DOMAIN v :
     v[i] \in DOMAIN rows =>
        /\ v[j] \in DOMAIN rows
        /\ rows[v[j]].block = rows[v[i]].block /\ rows[v[j]].success = rows[v[i]].success

\* What waits and what is taken are batches as they were submitted.
BatchesWait ==
  /\ mempoolRows \subseteq Variants /\ ready \subseteq Variants
  /\ \A k \in 1 .. Len(miniBlock.txs) : miniBlock.txs[k] \in Variants

KeeperWhole ==
  /\ Running => SideBySide(success) /\ Whole(Range(failed))
  /\ mode = "restoring" => Whole(Range(restore.failed))

ChannelWhole ==
  \A k \in 1 .. Len(commitQ) :
     SideBySide(commitQ[k].success) /\ Whole(Range(commitQ[k].failed))

TablesWhole ==
  /\ RowsWhole(execTxs)
  /\ \A n \in 1 .. Len(sealed) : SideBySide(sealed[n])
  /\ SideBySide(LoadPending(Len(blocks)).ops)

BInv == BatchesWait /\ KeeperWhole /\ ChannelWhole /\ TablesWhole

\* A sequence of operations side by side, in another way.
LEMMA SideMeans ==
  ASSUME NEW ops
  PROVE  SideBySide(ops) <=>
           \A v \in Variants : \A i \in TxsOf(ops) :
              Len(v) > 1 /\ ops[i].tx \in Range(v) =>
                 \E first \in DOMAIN ops :
                    /\ first + Len(v) - 1 <= Len(ops)
                    /\ \A k \in DOMAIN v : /\ ops[first + k - 1].type = "tx"
                                           /\ ops[first + k - 1].tx = v[k]
BY Zenon DEF SideBySide

\* Nothing is side by side.
LEMMA SideOfNothing == SideBySide(<<>>)
<1>1. TxsOf(<<>>) = {}
  BY EmptyIsSeq DEF TxsOf
<1> QED BY <1>1, SideMeans

\* What is joined from such sequences is one.
LEMMA SideJoin ==
  ASSUME NEW a \in Seq(Ops), NEW b \in Seq(Ops), SideBySide(a), SideBySide(b)
  PROVE  SideBySide(a \o b)
<1> DEFINE c == a \o b
           m == Len(a)
           n == Len(b)
<1>1. /\ m \in Nat /\ n \in Nat /\ DOMAIN a = 1 .. m /\ DOMAIN b = 1 .. n
  BY LenProperties
<1>2. /\ c \in Seq(Ops) /\ Len(c) = m + n
      /\ \A i \in 1 .. m + n : c[i] = IF i <= m THEN a[i] ELSE b[i - m]
  BY ConcatProperties
<1> HIDE DEF c, m, n
<1>3. DOMAIN c = 1 .. m + n
  BY <1>1, <1>2, LenProperties
<1> SUFFICES ASSUME NEW v \in Variants, NEW i \in TxsOf(c), Len(v) > 1, c[i].tx \in Range(v)
             PROVE  \E first \in DOMAIN c :
                       /\ first + Len(v) - 1 <= Len(c)
                       /\ \A k \in DOMAIN v : /\ c[first + k - 1].type = "tx"
                                              /\ c[first + k - 1].tx = v[k]
  BY SideMeans DEF c
<1>4. Len(v) \in Nat /\ DOMAIN v = 1 .. Len(v)
  BY VariantFits, LenProperties
<1>5. i \in 1 .. m + n /\ c[i].type = "tx"
  BY <1>3 DEF TxsOf
<1>6. CASE i <= m
  <2>1. i \in TxsOf(a) /\ a[i].tx \in Range(v)
    BY <1>1, <1>2, <1>5, <1>6 DEF TxsOf
  <2>2. PICK first \in DOMAIN a :
           /\ first + Len(v) - 1 <= Len(a)
           /\ \A k \in DOMAIN v : a[first + k - 1].type = "tx" /\ a[first + k - 1].tx = v[k]
    BY <2>1, SideMeans
  <2>3. first \in 1 .. m /\ first + Len(v) - 1 <= m
    BY <1>1, <2>2 DEF m
  <2>4. \A k \in DOMAIN v : c[first + k - 1] = a[first + k - 1]
    <3> TAKE k \in DOMAIN v
    <3>1. first + k - 1 \in 1 .. m + n /\ first + k - 1 <= m
      BY <1>1, <1>4, <2>3
    <3> QED BY <1>2, <3>1
  <2>5. first \in DOMAIN c /\ first + Len(v) - 1 <= Len(c)
    BY <1>1, <1>2, <1>3, <1>4, <2>3
  <2> QED BY <2>2, <2>4, <2>5
<1>7. CASE ~ (i <= m)
  <2>1. i - m \in TxsOf(b) /\ b[i - m].tx \in Range(v)
    <3>1. i - m \in 1 .. n /\ c[i] = b[i - m]
      BY <1>1, <1>2, <1>5, <1>7
    <3> QED BY <1>1, <1>5, <3>1 DEF TxsOf
  <2>2. PICK first \in DOMAIN b :
           /\ first + Len(v) - 1 <= Len(b)
           /\ \A k \in DOMAIN v : b[first + k - 1].type = "tx" /\ b[first + k - 1].tx = v[k]
    BY <2>1, SideMeans
  <2>3. first \in 1 .. n /\ first + Len(v) - 1 <= n
    BY <1>1, <2>2 DEF n
  <2>4. PICK start : start = m + first
    OBVIOUS
  <2>5. \A k \in DOMAIN v : c[start + k - 1] = b[first + k - 1]
    <3> TAKE k \in DOMAIN v
    <3>1. /\ start + k - 1 \in 1 .. m + n /\ ~ (start + k - 1 <= m)
          /\ (start + k - 1) - m = first + k - 1
      BY <1>1, <1>4, <2>3, <2>4
    <3> QED BY <1>2, <3>1
  <2>6. start \in DOMAIN c /\ start + Len(v) - 1 <= Len(c)
    <3>1. Len(c) = m + n /\ DOMAIN c = 1 .. m + n
      BY <1>2, <1>3
    <3>2. start \in 1 .. m + n /\ start + Len(v) - 1 <= m + n
      BY <1>1, <1>4, <2>3, <2>4
    <3> QED BY <3>1, <3>2
  <2> QED BY <2>2, <2>5, <2>6
<1> QED BY <1>6, <1>7

\* A batch that is executed as a whole is side by side.
LEMMA SideOfBatch ==
  ASSUME BatchesApart, NEW v \in Variants, NEW ops \in Seq(Ops), Len(ops) = Len(v),
         \A k \in 1 .. Len(ops) : ops[k].type = "tx" /\ ops[k].tx = v[k]
  PROVE  SideBySide(ops)
<1> SUFFICES ASSUME NEW w \in Variants, NEW i \in TxsOf(ops), Len(w) > 1, ops[i].tx \in Range(w)
             PROVE  \E first \in DOMAIN ops :
                       /\ first + Len(w) - 1 <= Len(ops)
                       /\ \A k \in DOMAIN w : /\ ops[first + k - 1].type = "tx"
                                              /\ ops[first + k - 1].tx = w[k]
  BY SideMeans
<1>1. /\ Len(v) \in Nat /\ DOMAIN v = 1 .. Len(v) /\ DOMAIN ops = 1 .. Len(v)
  BY VariantFits, LenProperties
<1>2. i \in DOMAIN v /\ ops[i].tx = v[i]
  BY <1>1 DEF TxsOf
<1>3. w = v
  <2>1. PICK j \in DOMAIN w : w[j] = v[i]
    BY <1>2 DEF Range
  <2> QED BY <1>2, <2>1 DEF BatchesApart
<1>4. 1 \in DOMAIN ops /\ 1 + Len(w) - 1 <= Len(ops)
  BY <1>1, <1>3
<1>5. \A k \in DOMAIN w : 1 + k - 1 = k /\ k \in 1 .. Len(ops)
  BY <1>1, <1>3
<1> QED BY <1>3, <1>4, <1>5

\* A priority operation is no part of a batch.
LEMMA SideOfPriority ==
  ASSUME NEW op, op.type # "tx"
  PROVE  SideBySide(<<op>>)
<1>1. TxsOf(<<op>>) = {}
  BY DEF TxsOf
<1> QED BY <1>1, SideMeans

\* The transactions of such a sequence hold batches as a whole.
LEMMA WholeSide ==
  ASSUME NEW ops \in Seq(Ops), SideBySide(ops)
  PROVE  Whole({ops[k].tx : k \in TxsOf(ops)})
<1> DEFINE S == {ops[k].tx : k \in TxsOf(ops)}
<1> SUFFICES ASSUME NEW v \in Variants, NEW i \in DOMAIN v, NEW j \in DOMAIN v, v[i] \in S
             PROVE  v[j] \in S
  BY DEF Whole
<1>1. /\ Len(v) \in Nat /\ DOMAIN v = 1 .. Len(v) /\ DOMAIN ops = 1 .. Len(ops) /\ Len(ops) \in Nat
  BY VariantFits, LenProperties
<1>2. CASE Len(v) > 1
  <2>1. PICK m \in TxsOf(ops) : ops[m].tx = v[i]
    OBVIOUS
  <2>2. v[i] \in Range(v)
    BY DEF Range
  <2>3. PICK first \in DOMAIN ops :
           /\ first + Len(v) - 1 <= Len(ops)
           /\ \A k \in DOMAIN v : ops[first + k - 1].type = "tx" /\ ops[first + k - 1].tx = v[k]
    BY <1>2, <2>1, <2>2, SideMeans
  <2>4. first + j - 1 \in DOMAIN ops
    BY <1>1, <2>3
  <2> QED BY <2>3, <2>4 DEF TxsOf
<1>3. CASE ~ (Len(v) > 1)
  <2>1. i = j
    BY <1>1, <1>3
  <2> QED BY <2>1
<1> QED BY <1>2, <1>3

\* So does a batch.
LEMMA WholeBatch ==
  ASSUME BatchesApart, NEW v \in Variants
  PROVE  Whole(Range(v))
<1> SUFFICES ASSUME NEW w \in Variants, NEW i \in DOMAIN w, NEW j \in DOMAIN w, w[i] \in Range(v)
             PROVE  w[j] \in Range(v)
  BY DEF Whole
<1>1. Len(w) \in Nat /\ DOMAIN w = 1 .. Len(w)
  BY VariantFits, LenProperties
<1>2. CASE Len(w) > 1
  <2>1. PICK m \in DOMAIN v : v[m] = w[i]
    BY DEF Range
  <2>2. v = w
    BY <1>2, <2>1 DEF BatchesApart
  <2> QED BY <2>2 DEF Range
<1>3. CASE ~ (Len(w) > 1)
  <2>1. i = j
    BY <1>1, <1>3
  <2> QED BY <2>1
<1> QED BY <1>2, <1>3

\* And two such sets together.
LEMMA WholeUnion ==
  ASSUME NEW S, NEW T, Whole(S), Whole(T)
  PROVE  Whole(S \cup T)
BY DEF Whole

\* No failures are whole.
LEMMA WholeNothing == Whole(Range(<<>>))
<1>1. Range(<<>>) = {}
  BY EmptyIsSeq DEF Range
<1> QED BY <1>1 DEF Whole

\* Two such sequences joined.
LEMMA WholeJoin ==
  ASSUME NEW s \in Seq(AllTxs), NEW t \in Seq(AllTxs), Whole(Range(s)), Whole(Range(t))
  PROVE  Whole(Range(s \o t))
<1> DEFINE u == s \o t
           m == Len(s)
           n == Len(t)
<1>1. m \in Nat /\ n \in Nat /\ DOMAIN s = 1 .. m /\ DOMAIN t = 1 .. n
  BY LenProperties
<1>2. /\ u \in Seq(AllTxs) /\ Len(u) = m + n
      /\ \A i \in 1 .. m + n : u[i] = IF i <= m THEN s[i] ELSE t[i - m]
  BY ConcatProperties
<1> HIDE DEF u, m, n
<1>3. DOMAIN u = 1 .. m + n
  BY <1>1, <1>2, LenProperties
<1>4. \A x \in Range(s) : x \in Range(u)
  <2> SUFFICES ASSUME NEW i \in DOMAIN s PROVE s[i] \in Range(u)
    BY DEF Range
  <2>1. i \in 1 .. m + n /\ i <= m
    BY <1>1
  <2> QED BY <1>2, <1>3, <2>1 DEF Range
<1>5. \A x \in Range(t) : x \in Range(u)
  <2> SUFFICES ASSUME NEW i \in DOMAIN t PROVE t[i] \in Range(u)
    BY DEF Range
  <2>1. m + i \in 1 .. m + n /\ ~ (m + i <= m) /\ (m + i) - m = i
    BY <1>1
  <2>2. u[m + i] = t[i]
    BY <1>2, <2>1
  <2> QED BY <1>3, <2>1, <2>2 DEF Range
<1>6. \A x \in Range(u) : x \in Range(s) \cup Range(t)
  <2> SUFFICES ASSUME NEW i \in DOMAIN u PROVE u[i] \in Range(s) \cup Range(t)
    BY DEF Range
  <2>1. u[i] = IF i <= m THEN s[i] ELSE t[i - m]
    BY <1>2, <1>3
  <2>2. IF i <= m THEN i \in DOMAIN s ELSE i - m \in DOMAIN t
    BY <1>1, <1>3
  <2> QED BY <2>1, <2>2 DEF Range
<1>7. Range(u) = Range(s) \cup Range(t)
  BY <1>4, <1>5, <1>6
<1> QED BY <1>7, WholeUnion DEF u

\* What remains of a batch is all of it or nothing.
LEMMA RemainingWhole ==
  ASSUME NEW S, Whole(S), NEW v \in Variants
  PROVE  RemainingOf(v, S) = <<>> \/ RemainingOf(v, S) = v
<1> DEFINE n == Len(v)
           r == RemainingOf(v, S)
           V == Seq(AllTxs)
           step == RemainingStep(S)
<1>0. /\ v \in Seq(AllTxs) /\ n \in Nat /\ DOMAIN v = 1 .. n /\ \A i \in 1 .. n : v[i] \in AllTxs
  BY VariantFits, LenProperties, ElementOfSeq
<1>1. Folds(v, V, step, <<>>, r)
  BY <1>0, RemainingFolds
<1>2. \A s \in V : \A tx \in AllTxs :
         step[<<s, tx>>] = IF tx \in S THEN s ELSE Append(s, tx)
  BY DEF RemainingStep
<1>3. PICK t : /\ t \in [0 .. n -> V] /\ t[0] = <<>> /\ t[n] = r
               /\ \A i \in 1 .. n : t[i] = step[<<t[i - 1], v[i]>>]
  BY <1>1 DEF Folds
<1> HIDE DEF n, r, V, step
<1>4. \A i \in 1 .. n : t[i] = IF v[i] \in S THEN t[i - 1] ELSE Append(t[i - 1], v[i])
  <2> TAKE i \in 1 .. n
  <2>1. t[i - 1] \in V /\ v[i] \in AllTxs
    BY <1>0, <1>3
  <2> QED BY <1>2, <1>3, <2>1
<1>5. CASE \A i \in 1 .. n : v[i] \in S
  <2> DEFINE T == {i \in 0 .. n : t[i] = <<>>}
  <2>1. 0 \in T /\ \A i \in 1 .. n : i - 1 \in T => i \in T
    BY <1>0, <1>3, <1>4, <1>5
  <2>2. n \in T
    <3>1. n \in 0 .. n
      BY <1>0
    <3> HIDE DEF T
    <3> QED BY <1>0, <2>1, <3>1, AlongInterval
  <2> QED BY <1>3, <2>2 DEF r
<1>6. CASE \A i \in 1 .. n : v[i] \notin S
  <2> DEFINE T == {i \in 0 .. n : Len(t[i]) = i /\ \A k \in 1 .. i : t[i][k] = v[k]}
  <2>1. 0 \in T
    <3>1. Len(<<>>) = 0
      BY EmptyIsSeq
    <3> QED BY <1>0, <1>3, <3>1
  <2>2. \A i \in 1 .. n : i - 1 \in T => i \in T
    <3> TAKE i \in 1 .. n
    <3> HAVE i - 1 \in T
    <3> DEFINE s == t[i - 1]
    <3>0. i - 1 \in 0 .. n /\ i \in 0 .. n
      BY <1>0
    <3>1. /\ s \in Seq(AllTxs) /\ v[i] \in AllTxs /\ t[i] = Append(s, v[i])
          /\ Len(s) = i - 1 /\ i \in 0 .. n /\ \A k \in 1 .. i - 1 : s[k] = v[k]
      <4>1. s \in V /\ v[i] \in AllTxs /\ i \in 0 .. n
        BY <1>0, <1>3, <3>0
      <4>2. t[i] = Append(s, v[i])
        BY <1>4, <1>6
      <4>3. Len(s) = i - 1 /\ \A k \in 1 .. i - 1 : s[k] = v[k]
        OBVIOUS
      <4> QED BY <4>1, <4>2, <4>3 DEF V
    <3> HIDE DEF s
    <3>2. /\ Len(Append(s, v[i])) = Len(s) + 1 /\ Append(s, v[i])[Len(s) + 1] = v[i]
          /\ \A k \in 1 .. Len(s) : Append(s, v[i])[k] = s[k]
      BY <3>1, AppendProperties
    <3> QED BY <3>1, <3>2
  <2>3. n \in T
    <3>1. n \in 0 .. n
      BY <1>0
    <3> HIDE DEF T
    <3> QED BY <1>0, <2>1, <2>2, <3>1, AlongInterval
  <2>4. r \in Seq(AllTxs) /\ Len(r) = n /\ \A k \in 1 .. n : r[k] = v[k]
    <3>1. n \in 0 .. n
      BY <1>0
    <3> QED BY <1>3, <2>3, <3>1 DEF V
  <2>5. r = v
    BY <1>0, <2>4, SeqEqual DEF n
  <2> QED BY <2>5 DEF r
<1>7. (\A i \in 1 .. n : v[i] \in S) \/ (\A i \in 1 .. n : v[i] \notin S)
  BY <1>0 DEF Whole
<1> QED BY <1>5, <1>6, <1>7

-----------------------------------------------------------------------------
(* The steps of the batches *)

\* A request stored leaves whole batches in mempool_txs and in
\* executed_transactions (save_block_transactions, storage chain/block/mod.rs:129).
LEMMA SavedWhole ==
  ASSUME TablesOK, NEW r \in Requests, SaveTransactions(r), SideBySide(r.success),
         Whole(Range(r.failed)), RowsWhole(execTxs), mempoolRows \subseteq Variants
  PROVE  RowsWhole(execTxs)' /\ mempoolRows' \subseteq Variants
<1> DEFINE n == Len(r.success)
           S == {r.success[k].tx : k \in TxsOf(r.success)}
           F == Range(r.failed)
<1>1. /\ r.number \in Nat /\ r.success \in Seq(Ops) /\ r.failed \in Seq(AllTxs) /\ n \in Nat
      /\ DOMAIN r.success = 1 .. n /\ DOMAIN r.failed = 1 .. Len(r.failed)
      /\ \A k \in 1 .. n : r.success[k] \in Ops
  <2>1. r.number \in Nat /\ r.success \in Seq(Ops) /\ r.failed \in Seq(AllTxs)
    BY RequestFacts
  <2> QED BY <2>1, LenProperties, ElementOfSeq
<1>2. Whole(S) /\ Whole(F)
  BY <1>1, WholeSide
<1>3. \A x : HasTx(r.success, n, x) <=> x \in S
  BY <1>1 DEF HasTx, TxsOf
<1>4. \A x : x \in F <=> \E k \in 1 .. Len(r.failed) : r.failed[k] = x
  BY <1>1 DEF Range
<1>5. \A x \in S : x \in DOMAIN execTxs' /\ execTxs'[x].block = r.number /\ execTxs'[x].success = TRUE
  <2> SUFFICES ASSUME NEW x \in S
               PROVE  /\ x \in DOMAIN execTxs'
                      /\ execTxs'[x].block = r.number /\ execTxs'[x].success = TRUE
    OBVIOUS
  <2>1. HasTx(r.success, n, x)
    BY <1>3
  <2>2. x \in DOMAIN execTxs' /\ WroteTx(r.number, r.success, n, x, execTxs'[x])
    BY <2>1, SaveFills DEF TablesOK
  <2>3. PICK k \in 1 .. n : /\ r.success[k].type = "tx"
                            /\ execTxs'[x] = TxRow(r.number, r.success[k])
    BY <2>2 DEF WroteTx
  <2>4. LET o == r.success[k] IN TxRow(r.number, o).success /\ TxRow(r.number, o).block = r.number
    BY <1>1, <2>3, TxRowFacts
  <2>5. TxRow(r.number, r.success[k]).success = TRUE
    BY DEF TxRow
  <2> QED BY <2>2, <2>3, <2>4, <2>5
<1>6. \A x \in DOMAIN execTxs : x \notin S => x \in DOMAIN execTxs' /\ execTxs'[x] = execTxs[x]
  BY <1>3, SaveFills DEF TablesOK
<1>7. \A x \in DOMAIN execTxs' : x \notin S /\ x \notin DOMAIN execTxs => x \in F
  BY <1>3, <1>4, SaveFills DEF TablesOK
<1>8. \A x \in F : x \notin S /\ x \notin DOMAIN execTxs =>
         x \in DOMAIN execTxs' /\ execTxs'[x] = FailedRow(r.number)
  BY <1>3, <1>4, SaveFills DEF TablesOK
<1> HIDE DEF S, F
<1>9. RowsWhole(execTxs')
  <2> SUFFICES ASSUME NEW v \in Variants, NEW i \in DOMAIN v, NEW j \in DOMAIN v,
                      v[i] \in DOMAIN execTxs'
               PROVE  /\ v[j] \in DOMAIN execTxs'
                      /\ execTxs'[v[j]].block = execTxs'[v[i]].block
                      /\ execTxs'[v[j]].success = execTxs'[v[i]].success
    BY DEF RowsWhole
  <2> DEFINE x == v[i]
             y == v[j]
  <2>1. (x \in S <=> y \in S) /\ (x \in F <=> y \in F)
    BY <1>2 DEF Whole
  <2>2. /\ x \in DOMAIN execTxs <=> y \in DOMAIN execTxs
        /\ x \in DOMAIN execTxs => /\ execTxs[y].block = execTxs[x].block
                                   /\ execTxs[y].success = execTxs[x].success
    BY DEF RowsWhole
  <2>3. x \in DOMAIN execTxs'
    OBVIOUS
  <2> HIDE DEF x, y
  <2>4. CASE x \in S
    BY <1>5, <2>1, <2>4 DEF x, y
  <2>5. CASE x \notin S /\ x \in DOMAIN execTxs
    BY <1>6, <2>1, <2>2, <2>5 DEF x, y
  <2>6. CASE x \notin S /\ x \notin DOMAIN execTxs
    <3>1. x \in F
      BY <1>7, <2>3, <2>6
    <3>2. y \in F /\ y \notin S /\ y \notin DOMAIN execTxs
      BY <2>1, <2>2, <2>6, <3>1
    <3> QED BY <1>8, <2>6, <3>1, <3>2 DEF x, y
  <2> QED BY <2>4, <2>5, <2>6
<1>10. RowsWhole(execTxs)'
  BY <1>9 DEF RowsWhole
<1>11. mempoolRows' \subseteq Variants
  <2>1. ExecutedBy(r) = F \cup S
    BY DEF ExecutedBy, F, S
  <2>2. Whole(ExecutedBy(r))
    BY <1>2, <2>1, WholeUnion
  <2>3. mempoolRows' = {RemainingOf(v, ExecutedBy(r)) : v \in mempoolRows} \ {<<>>}
    BY SaveUnfolds
  <2> SUFFICES ASSUME NEW v \in mempoolRows, RemainingOf(v, ExecutedBy(r)) # <<>>
               PROVE  RemainingOf(v, ExecutedBy(r)) \in Variants
    BY <2>3
  <2> QED BY <2>2, RemainingWhole
<1> QED BY <1>10, <1>11

\* The tables stay as they are.
LEMMA SameWhole ==
  ASSUME TablesWhole, UNCHANGED tables
  PROVE  TablesWhole'
<1>1. /\ blocks' = blocks /\ pendingRows' = pendingRows /\ execTxs' = execTxs
      /\ execPriorityOps' = execPriorityOps /\ sealed' = sealed
  BY DEF tables
<1>2. LoadPending(Len(blocks))' = LoadPending(Len(blocks))
  BY <1>1, Zenon DEF LoadPending, LoadedOps, StoredTxs, StoredPriorityOps, LoadedFailures
<1> QED BY <1>1, <1>2, Zenon DEF TablesWhole

\* What the keeper sends is whole.
LEMMA SentWhole ==
  ASSUME DataOK, ChannelWhole, NEW r \in Requests, SideBySide(r.success), Whole(Range(r.failed)),
         commitQ' = Append(commitQ, r)
  PROVE  ChannelWhole'
<1>1. /\ Len(commitQ') = Len(commitQ) + 1 /\ commitQ'[Len(commitQ) + 1] = r /\ Len(commitQ) \in Nat
      /\ \A k \in 1 .. Len(commitQ) : commitQ'[k] = commitQ[k]
  BY AppendProperties, LenProperties DEF DataOK, WorkOK
<1> SUFFICES ASSUME NEW k \in 1 .. Len(commitQ')
             PROVE  SideBySide(commitQ'[k].success) /\ Whole(Range(commitQ'[k].failed))
  BY DEF ChannelWhole
<1>2. k = Len(commitQ) + 1 \/ k \in 1 .. Len(commitQ)
  BY <1>1
<1> QED BY <1>1, <1>2 DEF ChannelWhole

\* What the committer takes is whole, and the rest of the channel.
LEMMA TakenWhole ==
  ASSUME DataOK, ChannelWhole, commitQ # <<>>, commitQ' = Tail(commitQ)
  PROVE  /\ ChannelWhole'
         /\ SideBySide(Head(commitQ).success) /\ Whole(Range(Head(commitQ).failed))
<1>1. /\ Head(commitQ) = commitQ[1] /\ Len(commitQ) \in Nat \ {0}
      /\ Len(Tail(commitQ)) = Len(commitQ) - 1
      /\ \A k \in 1 .. Len(Tail(commitQ)) : Tail(commitQ)[k] = commitQ[k + 1]
  BY HeadTailProperties, LenProperties, EmptySeq DEF DataOK, WorkOK
<1>2. SideBySide(Head(commitQ).success) /\ Whole(Range(Head(commitQ).failed))
  BY <1>1 DEF ChannelWhole
<1> SUFFICES ASSUME NEW k \in 1 .. Len(commitQ')
             PROVE  SideBySide(commitQ'[k].success) /\ Whole(Range(commitQ'[k].failed))
  BY <1>2 DEF ChannelWhole
<1>3. k + 1 \in 1 .. Len(commitQ) /\ commitQ'[k] = commitQ[k + 1]
  BY <1>1
<1> QED BY <1>3 DEF ChannelWhole

\* The memory is lost.
LEMMA StopWhole ==
  ASSUME BInv, Stop, UNCHANGED database
  PROVE  BInv'
<1>1. mode' = "down" /\ commitQ' = <<>> /\ ready' = {} /\ miniBlock' = NoMiniBlock
      /\ mempoolRows' = mempoolRows /\ UNCHANGED tables
  BY DEF Stop, database, tables
<1>2. Len(<<>>) = 0
  BY EmptyIsSeq
<1>3. BatchesWait'
  BY <1>1, <1>2 DEF BInv, BatchesWait, NoMiniBlock
<1>4. KeeperWhole'
  BY <1>1 DEF KeeperWhole, Running
<1>5. ChannelWhole'
  BY <1>1, <1>2 DEF ChannelWhole
<1> QED BY <1>1, <1>3, <1>4, <1>5, SameWhole DEF BInv

\* The block is sealed.
LEMMA SealWhole ==
  ASSUME IInv, DataOK, BInv, Running, Seal
  PROVE  ChannelWhole' /\ SideBySide(success') /\ Whole(Range(failed'))
<1>1. PICK all : commitQ' = Append(commitQ, SealedRequest(all)) /\ SealedRequest(all) \in BlockRequests
  BY SealGives
<1>2. success' = <<>> /\ failed' = <<>>
  BY SealGives
<1>3. PICK r : r = SealedRequest(all)
  OBVIOUS
<1>4. r.success = success /\ r.failed = failed
  BY <1>3, Zenon DEF SealedRequest
<1>5. ChannelWhole'
  BY <1>1, <1>3, <1>4, SentWhole DEF Requests, BInv, KeeperWhole
<1> QED BY <1>2, <1>5, SideOfNothing, WholeNothing

\* Sealing before the retry keeps the batches together.
LEMMA SealAndRetryWhole ==
  ASSUME IInv, DataOK, BInv, Executing, SealAndRetry
  PROVE  BInv'
<1>1. CASE Panic
  BY <1>1, StopWhole DEF Panic
<1>2. CASE Seal /\ UNCHANGED <<mode, miniBlock, restore, ready,
                              database, known, submitted, crashes, wentBack>>
  <2>1. Running /\ mode' = "executing"
    BY <1>2 DEF Executing, Running
  <2>2. ChannelWhole' /\ SideBySide(success') /\ Whole(Range(failed'))
    BY <1>2, <2>1, SealWhole
  <2>3. KeeperWhole'
    BY <2>1, <2>2 DEF KeeperWhole
  <2>4. BatchesWait' /\ UNCHANGED tables
    BY <1>2 DEF BInv, BatchesWait, database, tables
  <2> QED BY <2>2, <2>3, <2>4, SameWhole DEF BInv
<1> QED BY <1>1, <1>2 DEF SealAndRetry

\* A priority operation is executed.
LEMMA ExecutePriorityWhole ==
  ASSUME IInv, DataOK, BInv, ExecutePriority
  PROVE  BInv'
<1> DEFINE ids == miniBlock.priorityOps
           id == Head(ids)
<1>1. Executing /\ ids # <<>> /\ ids \in Seq(Ids) /\ Running
  BY DEF ExecutePriority, DataOK, WorkOK, Executing, Running
<1>2. id \in Ids
  BY <1>1, HeadTailProperties
<1>3. CASE SealAndRetry
  BY <1>1, <1>3, SealAndRetryWhole
<1>4. CASE /\ ApplyPriorityOp(id)
           /\ miniBlock' = [miniBlock EXCEPT !.priorityOps = Tail(@)]
           /\ UNCHANGED <<mode, restore, commitQ, ready, database, known, submitted, crashes, wentBack>>
  <2> HIDE DEF id
  <2>1. PICK op : /\ op = PriorityOp(id, PriorityOps[id + 1].kind, pending.index)
                  /\ op \in Ops /\ success' = success \o <<op>> /\ failed' = failed
    BY <1>2, <1>4, PriorityRun, Zenon DEF DataOK, Grows
  <2>2. op.type # "tx"
    BY <2>1 DEF PriorityOp
  <2>3. SideBySide(success')
    <3> DEFINE one == <<op>>
    <3>1. one \in Seq(Ops) /\ SideBySide(one)
      BY <2>1, <2>2, SideOfPriority
    <3>2. success \in Seq(Ops) /\ SideBySide(success) /\ success' = success \o one
      BY <1>1, <2>1 DEF BInv, KeeperWhole, DataOK, KeeperOK
    <3> HIDE DEF one
    <3> QED BY <3>1, <3>2, SideJoin
  <2>4. KeeperWhole'
    BY <1>1, <1>4, <2>1, <2>3 DEF KeeperWhole, BInv, Executing, Running
  <2>5. miniBlock'.txs = miniBlock.txs
    BY <1>4 DEF DataOK, WorkOK
  <2>6. BatchesWait' /\ ChannelWhole' /\ UNCHANGED tables
    BY <1>4, <2>5 DEF BInv, BatchesWait, ChannelWhole, database, tables
  <2> QED BY <2>4, <2>6, SameWhole DEF BInv
<1> QED BY <1>3, <1>4 DEF ExecutePriority

\* Transactions or a batch are executed, all of them or none (execute_txs_batch,
\* state/state.rs).
LEMMA ExecuteTxsWhole ==
  ASSUME BatchesApart, IInv, DataOK, BInv, ExecuteTxs
  PROVE  BInv'
<1> DEFINE todo == miniBlock.txs
           txs == Head(todo)
<1>1. Executing /\ todo # <<>> /\ todo \in Seq(Seq(AllTxs)) /\ Running /\ mode = "executing"
  BY DEF ExecuteTxs, DataOK, WorkOK, Executing, Running
<1>2. /\ txs \in Seq(AllTxs) /\ txs = todo[1] /\ Len(todo) \in Nat \ {0}
      /\ Len(Tail(todo)) = Len(todo) - 1 /\ \A k \in 1 .. Len(Tail(todo)) : Tail(todo)[k] = todo[k + 1]
  BY <1>1, HeadTailProperties, LenProperties, EmptySeq
<1>3. \A k \in 1 .. Len(todo) : todo[k] \in Variants
  BY DEF BInv, BatchesWait
<1>4. txs \in Variants
  BY <1>2, <1>3
<1>5. CASE SealAndRetry
  BY <1>1, <1>5, SealAndRetryWhole
<1>6. CASE /\ ApplyTxs(txs)
           /\ miniBlock' = [miniBlock EXCEPT !.txs = Tail(@)]
           /\ UNCHANGED <<mode, restore, commitQ, ready, database, known, submitted, crashes, wentBack>>
  <2>1. miniBlock'.txs = Tail(todo)
    BY <1>6 DEF DataOK, WorkOK
  <2>2. \A k \in 1 .. Len(miniBlock'.txs) : miniBlock'.txs[k] \in Variants
    BY <1>2, <1>3, <2>1
  <2>3. BatchesWait' /\ ChannelWhole' /\ UNCHANGED tables
    BY <1>6, <2>2 DEF BInv, BatchesWait, ChannelWhole, database, tables
  <2> HIDE DEF txs, todo
  <2> DEFINE rs == ExecuteBatch(accounts, txs).results
  <2>4. KeeperOK
    BY DEF DataOK
  <2>5. PICK ops : /\ success' = success \o ops /\ Grows(ops) /\ ops = OpsOf(txs, rs, pending.index)
                   /\ ops = <<>> \/ Len(ops) = Len(txs)
    <3>1. txs \in Seq(AllTxs) /\ ApplyTxs(txs)
      BY <1>2, <1>6
    <3>2. \E ops : /\ Runs(Here, ops, Here') /\ success' = success \o ops /\ Grows(ops)
                   /\ ops = OpsOf(txs, rs, pending.index)
                   /\ \/ rs = <<>>
                         /\ ops = <<>> /\ failed' = failed \o txs
                         /\ pending'.index = pending.index
                      \/ /\ Len(ops) = Len(txs) /\ pending'.index = pending.index + Len(ops)
                         /\ failed' = failed \/ txs = <<>>
      BY <2>4, <3>1, TxsRun
    <3> HIDE DEF rs
    <3> QED BY <3>2
  <2>6. failed' = failed \o txs \/ failed' = failed
    BY <1>6, Zenon DEF ApplyTxs, Record
  <2> HIDE DEF rs
  <2>7. /\ success \in Seq(Ops) /\ failed \in Seq(AllTxs) /\ ops \in Seq(Ops)
        /\ SideBySide(success) /\ Whole(Range(failed)) /\ Whole(Range(txs))
    BY <1>1, <1>4, <2>5, WholeBatch DEF BInv, KeeperWhole, DataOK, KeeperOK, Grows
  <2>8. SideBySide(ops)
    <3>1. CASE ops = <<>>
      BY <3>1, SideOfNothing
    <3>2. CASE Len(ops) = Len(txs)
      <4>1. DOMAIN ops = 1 .. Len(ops) /\ DOMAIN ops = DOMAIN rs
        BY <2>5, <2>7, LenProperties DEF OpsOf
      <4>2. \A k \in 1 .. Len(ops) : ops[k].type = "tx" /\ ops[k].tx = txs[k]
        BY <2>5, <4>1 DEF OpsOf, TxOp
      <4> QED BY <1>4, <2>7, <3>2, <4>2, SideOfBatch
    <3> QED BY <2>5, <3>1, <3>2
  <2>9. SideBySide(success')
    BY <2>5, <2>7, <2>8, SideJoin
  <2>10. Whole(Range(failed'))
    BY <1>2, <2>6, <2>7, WholeJoin
  <2>11. KeeperWhole'
    BY <1>1, <1>6, <2>9, <2>10 DEF KeeperWhole, Running
  <2> QED BY <2>3, <2>11, SameWhole DEF BInv
<1> QED BY <1>5, <1>6 DEF ExecuteTxs

\* The end of a mini-block.
LEMMA FinishWhole ==
  ASSUME IInv, DataOK, BInv, FinishMiniBlock
  PROVE  BInv'
<1>1. Running
  BY DEF FinishMiniBlock, Executing, Running
<1>2. CASE Panic
  BY <1>2, StopWhole DEF Panic
<1>3. CASE /\ mode' = "idle"
           /\ Seal \/ StorePending(NextIteration)
           /\ UNCHANGED <<miniBlock, restore, ready, database>>
  <2>1. ChannelWhole' /\ SideBySide(success') /\ Whole(Range(failed'))
    <3>1. CASE Seal
      BY <1>1, <3>1, SealWhole
    <3>2. CASE StorePending(NextIteration)
      <4>1. commitQ' = Append(commitQ, OpenRequest) /\ OpenRequest \in PendingRequests
        BY <3>2, StoreGives
      <4>2. PICK r : r = OpenRequest
        OBVIOUS
      <4>3. r.success = success /\ r.failed = failed
        BY <4>2, Zenon DEF OpenRequest
      <4>4. ChannelWhole'
        BY <1>1, <4>1, <4>2, <4>3, SentWhole DEF Requests, BInv, KeeperWhole
      <4> QED BY <1>1, <3>2, <4>4 DEF StorePending, BInv, KeeperWhole
    <3> QED BY <1>3, <3>1, <3>2
  <2>2. KeeperWhole'
    BY <1>3, <2>1 DEF KeeperWhole
  <2>3. BatchesWait' /\ UNCHANGED tables
    BY <1>3 DEF BInv, BatchesWait, database, tables
  <2> QED BY <2>1, <2>2, <2>3, SameWhole DEF BInv
<1> QED BY <1>2, <1>3 DEF FinishMiniBlock

\* What a restart would load, of every frontier.
LEMMA AllLoaded ==
  \A f : DataOK /\ Sound(f) /\ InDatabase(f) => LoadPending(Len(blocks)).ops = f.ops
BY PendingLoaded

\* A request is stored.
LEMMA RequestWhole ==
  ASSUME IInv, DataOK, DataOK', FInv, BInv, commitQ # <<>>, commitQ' = Tail(commitQ),
         UNCHANGED Memory, UNCHANGED ready,
         NEW r, r = Head(commitQ), SaveTransactions(r), CommitStateUpdate(r),
         \/ /\ r.type = "PendingBlock" /\ pendingRows' = pendingRows \cup {r.number}
            /\ UNCHANGED <<blocks, sealed>>
         \/ /\ r.type = "Block" /\ pendingRows' = pendingRows \ {r.number}
            /\ blocks' = Append(blocks, [before |-> r.before, after |-> r.after, root |-> r.root])
            /\ sealed' = Append(sealed, r.success)
  PROVE  BInv'
<1>1. /\ UNCHANGED <<mode, success, failed, miniBlock, restore>>
  BY DEF Memory
<1>2. r \in Requests
  BY HeadRequest
<1>3. ChannelWhole' /\ SideBySide(r.success) /\ Whole(Range(r.failed))
  BY TakenWhole DEF BInv
<1>4. RowsWhole(execTxs)' /\ mempoolRows' \subseteq Variants
  BY <1>2, <1>3, SavedWhole DEF DataOK, BInv, BatchesWait, TablesWhole
<1>5. BatchesWait' /\ KeeperWhole'
  BY <1>1, <1>4 DEF BInv, BatchesWait, KeeperWhole, Running
<1>6. PICK e : /\ Sound(e)' /\ InDatabase(e)'
               /\ e.ops = IF r.type = "Block" THEN <<>> ELSE r.success
  BY RequestForward
<1>7. SideBySide(e.ops)
  BY <1>3, <1>6, SideOfNothing
<1>8. (LoadPending(Len(blocks)).ops = e.ops)'
  <2>1. (\A f : DataOK /\ Sound(f) /\ InDatabase(f) => LoadPending(Len(blocks)).ops = f.ops)'
    BY AllLoaded, PTL
  <2> QED BY <1>6, <2>1
<1>9. \A n \in 1 .. Len(sealed') : SideBySide(sealed'[n])
  <2>1. \A n \in 1 .. Len(sealed) : SideBySide(sealed[n])
    BY DEF BInv, TablesWhole
  <2>2. CASE sealed' = sealed
    BY <2>1, <2>2
  <2>3. CASE sealed' = Append(sealed, r.success)
    <3>1. sealed \in Seq(Seq(Ops)) /\ r.success \in Seq(Ops) /\ Len(sealed) \in Nat
      BY <1>2, RequestFacts, LenProperties DEF DataOK, TablesOK, Lines
    <3>2. /\ Len(sealed') = Len(sealed) + 1 /\ sealed'[Len(sealed) + 1] = r.success
          /\ \A k \in 1 .. Len(sealed) : sealed'[k] = sealed[k]
      BY <2>3, <3>1, AppendProperties
    <3> SUFFICES ASSUME NEW n \in 1 .. Len(sealed') PROVE SideBySide(sealed'[n])
      OBVIOUS
    <3>3. n = Len(sealed) + 1 \/ n \in 1 .. Len(sealed)
      BY <3>1, <3>2
    <3> QED BY <1>3, <2>1, <3>2, <3>3
  <2> QED BY <2>2, <2>3
<1>10. TablesWhole'
  <2>1. SideBySide(LoadPending(Len(blocks)).ops)'
    BY <1>7, <1>8 DEF SideBySide, TxsOf
  <2> QED BY <1>4, <1>9, <2>1 DEF TablesWhole
<1> QED BY <1>3, <1>5, <1>10 DEF BInv

\* What the committer does keeps the batches together.
LEMMA CommitterWhole ==
  ASSUME IInv, DataOK, DataOK', FInv, BInv, Committer
  PROVE  BInv'
<1>1. CASE SavePendingBlock
  <2>1. PICK r : r = Head(commitQ)
    OBVIOUS
  <2>2. /\ commitQ # <<>> /\ r.type = "PendingBlock" /\ SaveTransactions(r) /\ CommitStateUpdate(r)
        /\ pendingRows' = pendingRows \cup {r.number} /\ commitQ' = Tail(commitQ)
        /\ UNCHANGED Memory /\ UNCHANGED ready /\ UNCHANGED <<blocks, sealed>>
    BY <1>1, <2>1 DEF SavePendingBlock
  <2> QED BY <2>1, <2>2, RequestWhole
<1>2. CASE CommitBlock
  <2>1. PICK r : r = Head(commitQ)
    OBVIOUS
  <2>2. CASE Panic
    BY <2>2, StopWhole DEF Panic
  <2>3. CASE /\ commitQ # <<>> /\ r.type = "Block" /\ SaveTransactions(r) /\ CommitStateUpdate(r)
             /\ pendingRows' = pendingRows \ {r.number} /\ commitQ' = Tail(commitQ)
             /\ blocks' = Append(blocks, [before |-> r.before, after |-> r.after, root |-> r.root])
             /\ sealed' = Append(sealed, r.success) /\ UNCHANGED Memory /\ UNCHANGED ready
    BY <2>1, <2>3, RequestWhole
  <2> QED BY <1>2, <2>1, <2>2, <2>3 DEF CommitBlock
<1> QED BY <1>1, <1>2 DEF Committer

\* The failures the restart loads are whole batches.
LEMMA LoadedWhole ==
  ASSUME TablesOK, TablesWhole, NEW last
  PROVE  Whole(Range(LoadPending(last).failed))
<1> DEFINE F(n) == {t \in DOMAIN execTxs : execTxs[t].block = n /\ ~execTxs[t].success}
           G == F(last + 1)
<1>1. execTxs \in [DOMAIN execTxs -> TxRows] /\ IsFiniteSet(DOMAIN execTxs)
  BY TxTableFacts DEF TablesOK
<1>2. Whole(G)
  BY DEF Whole, TablesWhole, RowsWhole
<1>3. LoadedFailures(last + 1) = SetToSeq(G)
  BY DEF LoadedFailures
<1>4. IsFiniteSet(G)
  <2>1. G \in SUBSET DOMAIN execTxs
    OBVIOUS
  <2> HIDE DEF G
  <2> QED BY <1>1, <2>1, FS_Subset
<1> HIDE DEF G
<1>5. Range(SetToSeq(G)) = G
  <2> DEFINE s == SetToSeq(G)
  <2>1. /\ s \in Seq(G) /\ Len(s) = Cardinality(G)
        /\ \A x \in G : \E i \in 1 .. Cardinality(G) : s[i] = x
    BY <1>4, SetListed
  <2> HIDE DEF s
  <2>2. DOMAIN s = 1 .. Len(s) /\ \A i \in 1 .. Len(s) : s[i] \in G
    BY <2>1, LenProperties, ElementOfSeq
  <2>3. Range(s) = G
    BY <2>1, <2>2 DEF Range
  <2> QED BY <2>3 DEF s
<1>6. LoadPending(last) = NothingToRestore \/ LoadPending(last).failed = SetToSeq(G)
  BY <1>3 DEF LoadPending
<1>7. CASE LoadPending(last) = NothingToRestore
  BY <1>7, WholeNothing DEF NothingToRestore
<1> QED BY <1>2, <1>5, <1>6, <1>7

\* A restart loads whole batches.
LEMMA RestartWhole ==
  ASSUME DataOK, BInv, Restart
  PROVE  BInv'
<1>1. /\ mode' = "restoring" /\ restore' = LoadPending(LastUpdated)
      /\ mempoolRows' \subseteq mempoolRows /\ ready' = mempoolRows'
      /\ UNCHANGED <<miniBlock, commitQ>> /\ UNCHANGED tables
  BY DEF Restart, tables
<1>2. BatchesWait' /\ ChannelWhole'
  BY <1>1 DEF BInv, BatchesWait, ChannelWhole
<1>3. Whole(Range(restore'.failed))
  BY <1>1, LoadedWhole DEF BInv, DataOK
<1>4. KeeperWhole'
  BY <1>1, <1>3 DEF KeeperWhole, Running
<1> QED BY <1>1, <1>2, <1>4, SameWhole DEF BInv

\* An operation executed again stays with its batch in the tables.
LEMMA RestoreOpWhole ==
  ASSUME IInv, DataOK, BInv, RestoreOp
  PROVE  BInv'
<1>1. CASE Panic
  BY <1>1, StopWhole DEF Panic
<1>2. CASE /\ restore' = [restore EXCEPT !.ops = Tail(@)]
           /\ UNCHANGED <<mode, miniBlock, commitQ, ready, database, known, submitted, crashes, wentBack>>
  <2>1. mode' = "restoring" /\ restore'.failed = restore.failed /\ mode = "restoring"
    BY <1>2 DEF RestoreOp, DataOK, WorkOK
  <2>2. KeeperWhole'
    BY <2>1 DEF BInv, KeeperWhole, Running
  <2>3. BatchesWait' /\ ChannelWhole' /\ UNCHANGED tables
    BY <1>2 DEF BInv, BatchesWait, ChannelWhole, database, tables
  <2> QED BY <2>2, <2>3, SameWhole DEF BInv
<1> QED BY <1>1, <1>2, RestoreOpCases

\* The keeper goes on with the operations it has executed again: the batches are
\* where they were, although the re-execution takes them apart.
LEMMA FinishRestoreWhole ==
  ASSUME DataOK, FInv, BInv, FinishRestore
  PROVE  BInv'
<1>1. /\ mode = "restoring" /\ mode' = "idle" /\ restore.ops = <<>> /\ failed' = restore.failed
      /\ UNCHANGED <<success, miniBlock, commitQ, ready, database>>
  BY DEF FinishRestore
<1>2. PICK f : Sound(f) /\ InDatabase(f) /\ Restoring(f)
  BY <1>1 DEF FInv, Follows
<1>3. success = LoadPending(Len(blocks)).ops
  <2>1. success \o <<>> = f.ops /\ success \in Seq(Ops)
    BY <1>1, <1>2 DEF Restoring, DataOK, KeeperOK
  <2>2. success = f.ops
    BY <2>1, ConcatEmptySeq
  <2> QED BY <1>2, <2>2, PendingLoaded
<1>4. SideBySide(success)
  BY <1>3 DEF BInv, TablesWhole
<1>5. KeeperWhole'
  BY <1>1, <1>4 DEF BInv, KeeperWhole
<1>6. BatchesWait' /\ ChannelWhole' /\ UNCHANGED tables
  BY <1>1 DEF BInv, BatchesWait, ChannelWhole, database, tables
<1> QED BY <1>5, <1>6, SameWhole DEF BInv

\* A proposal takes batches as they wait.
LEMMA ProposeWhole ==
  ASSUME DataOK, BInv, Propose
  PROVE  BInv'
<1>1. PICK txs \in Proposals : ProposeMiniBlock(txs)
  BY DEF Propose
<1>2. /\ mode = "idle" /\ mode' = "executing" /\ miniBlock'.txs = txs /\ ready' \subseteq ready
      /\ UNCHANGED <<success, failed, restore, commitQ, database>>
  BY <1>1 DEF ProposeMiniBlock
<1>3. PICK m \in 0 .. MaxTxs : txs \in [1 .. m -> ready]
  BY DEF Proposals, BoundedSeq, SeqOf
<1>4. \A k \in 1 .. Len(txs) : txs[k] \in ready
  <2>1. txs \in Seq(Seq(AllTxs))
    BY ProposalIsSeq
  <2>2. DOMAIN txs = 1 .. Len(txs)
    BY <2>1, LenProperties
  <2> QED BY <1>3, <2>2
<1>5. BatchesWait'
  BY <1>2, <1>4 DEF BInv, BatchesWait, database
<1>6. KeeperWhole' /\ ChannelWhole' /\ UNCHANGED tables
  BY <1>2 DEF BInv, KeeperWhole, ChannelWhole, Running, database, tables
<1> QED BY <1>5, <1>6, SameWhole DEF BInv

\* A step that leaves the keeper, the channel and the tables alone.
LEMMA AsideWhole ==
  ASSUME BInv, UNCHANGED Memory, UNCHANGED commitQ, UNCHANGED tables, BatchesWait'
  PROVE  BInv'
<1>1. UNCHANGED <<mode, success, failed, restore>>
  BY DEF Memory
<1>2. KeeperWhole' /\ ChannelWhole'
  BY <1>1 DEF BInv, KeeperWhole, ChannelWhole, Running
<1> QED BY <1>2, SameWhole DEF BInv

\* Every step keeps the batches together.
LEMMA NextWhole ==
  ASSUME BatchesApart, IInv, DataOK, DataOK', FInv, BInv, [Next]_vars
  PROVE  BInv'
<1>1. CASE UNCHANGED <<Memory, commitQ, ready, mempoolRows, tables>>
  <2>1. UNCHANGED Memory /\ UNCHANGED commitQ /\ UNCHANGED tables
    BY <1>1
  <2>2. BatchesWait'
    BY <1>1 DEF BInv, BatchesWait, Memory
  <2> QED BY <2>1, <2>2, AsideWhole
<1>2. CASE Keeper
  BY <1>2, ExecutePriorityWhole, ExecuteTxsWhole, FinishWhole DEF Keeper
<1>3. CASE VerifyBlock
  BY <1>1, <1>3 DEF VerifyBlock, process, Memory, tables
<1>4. CASE Crash
  BY <1>4, StopWhole DEF Crash
<1>5. CASE Recovery
  BY <1>5, RestartWhole, RestoreOpWhole, FinishRestoreWhole DEF Recovery
<1>6. CASE ReportPriorityOp
  BY <1>1, <1>6 DEF ReportPriorityOp, process, database, Memory, tables
<1>7. CASE \E v \in Variants : Submit(v)
  <2>1. PICK v \in Variants : Submit(v)
    BY <1>7
  <2>2. /\ mempoolRows' = mempoolRows \cup {v} /\ ready' = ready \cup {v}
        /\ UNCHANGED Memory /\ UNCHANGED commitQ /\ UNCHANGED tables
    BY <2>1 DEF Submit, tables
  <2>3. BatchesWait'
    BY <2>2 DEF BInv, BatchesWait, Memory
  <2> QED BY <2>2, <2>3, AsideWhole
<1>8. CASE UNCHANGED vars
  BY <1>1, <1>8 DEF vars, process, database, Memory, tables
<1> QED BY <1>2, <1>3, <1>4, <1>5, <1>6, <1>7, <1>8, CommitterWhole, ProposeWhole
        DEF Next, Environment

\* The program starts without batches.
LEMMA InitWhole == Init => BInv
<1> SUFFICES ASSUME Init PROVE BInv
  OBVIOUS
<1>1. Len(<<>>) = 0
  BY EmptyIsSeq
<1>2. BatchesWait /\ ChannelWhole
  BY <1>1 DEF Init, BatchesWait, ChannelWhole, NoMiniBlock
<1>3. KeeperWhole
  BY SideOfNothing, WholeNothing DEF Init, KeeperWhole
<1>4. TablesWhole
  <2>1. LoadPending(Len(blocks)).ops = <<>>
    BY DEF Init, LoadPending, NothingToRestore
  <2>2. DOMAIN execTxs = {} /\ Len(sealed) = 0
    BY <1>1, EmptyIsSeq DEF Init
  <2> QED BY <2>1, <2>2, SideOfNothing DEF TablesWhole, RowsWhole
<1> QED BY <1>2, <1>3, <1>4 DEF BInv

\* Batches whose transactions are submitted with them alone stay together
\* everywhere (execute_proposed_block, state_keeper/mod.rs).
THEOREM Together == BatchesApart => (Spec => [](~ wentBack => BInv))
<1> SUFFICES ASSUME BatchesApart
             PROVE  Spec => [](~ wentBack => BInv)
  OBVIOUS
<1>1. Init => BInv
  BY InitWhole
<1>2. /\ IInv /\ DataOK /\ DataOK' /\ (~ wentBack => FInv) /\ (~ wentBack => BInv)
      /\ [Next]_vars
      => (~ wentBack => BInv)'
  <2> SUFFICES ASSUME IInv, DataOK, DataOK', ~ wentBack => FInv, ~ wentBack => BInv,
                      [Next]_vars, ~ wentBack'
               PROVE  BInv'
    OBVIOUS
  <2>1. FInv /\ BInv
    BY NeverWentBack
  <2> QED BY <2>1, NextWhole
<1> QED BY <1>1, <1>2, Inductive, DataFits, Followed, PTL DEF Spec

\* "All transactions in batch must be either executed successfully, or otherwise
\* fail all together" (mempool.rs:104): whatever crashes happen, a batch whose
\* transactions are submitted with it alone is in one block, side by side, until a
\* restart goes back behind the last block.
THEOREM BatchesStayTogether == BatchesApart => (Spec => [](~ wentBack => BatchAtomic))
<1> SUFFICES ASSUME BatchesApart
             PROVE  Spec => [](~ wentBack => BatchAtomic)
  OBVIOUS
<1>1. Spec => [](~ wentBack => BInv)
  BY Together
<1>2. DataOK /\ BInv => BatchAtomic
  <2> SUFFICES ASSUME DataOK, BInv, NEW n \in DOMAIN sealed
               PROVE  SideBySide(sealed[n])
    BY Zenon DEF BatchAtomic, SideBySide
  <2>1. n \in 1 .. Len(sealed)
    BY LenProperties DEF DataOK, TablesOK, Lines
  <2> QED BY <2>1 DEF BInv, TablesWhole
<1> QED BY <1>1, <1>2, DataFits, PTL DEF Spec

-----------------------------------------------------------------------------
(* The open block, where no batches are submitted *)

\* Single transactions are together in any order.
LEMMA SinglesWhole ==
  ASSUME \A v \in Variants : Len(v) = 1
  PROVE  /\ BatchesApart
         /\ \A ops : SideBySide(ops)
         /\ \A S : Whole(S)
         /\ \A rows : RowsWhole(rows)
<1>1. ASSUME NEW v \in Variants
      PROVE  /\ ~ (Len(v) > 1)
             /\ \A i, j \in DOMAIN v : i = j
  <2>1. PICK n \in Nat : n = Len(v) /\ n = 1
    OBVIOUS
  <2>2. ~ (n > 1)
    BY <2>1
  <2>3. DOMAIN v = 1 .. n
    BY <2>1, VariantFits, LenProperties
  <2>4. \A i, j \in 1 .. n : i = j
    BY <2>1
  <2> QED BY <2>1, <2>2, <2>3, <2>4, Zenon
<1>2. BatchesApart /\ \A ops : SideBySide(ops)
  BY <1>1, Zenon DEF BatchesApart, SideBySide
<1>3. \A S : Whole(S)
  BY <1>1, Zenon DEF Whole
<1>4. ASSUME NEW rows PROVE RowsWhole(rows)
  <2> SUFFICES ASSUME NEW v \in Variants, NEW i \in DOMAIN v, NEW j \in DOMAIN v,
                      v[i] \in DOMAIN rows
               PROVE  /\ v[j] \in DOMAIN rows
                      /\ rows[v[j]].block = rows[v[i]].block
                      /\ rows[v[j]].success = rows[v[i]].success
    BY DEF RowsWhole
  <2>1. i = j
    BY <1>1
  <2> QED BY <2>1
<1> QED BY <1>2, <1>3, <1>4

\* So what waits and what is taken are submitted transactions, also after a restart
\* that went back.
LEMMA SinglesWait ==
  ASSUME \A v \in Variants : Len(v) = 1, IInv, DataOK, BatchesWait, [Next]_vars
  PROVE  BatchesWait'
<1>1. BatchesApart /\ BInv
  BY SinglesWhole DEF BInv, KeeperWhole, ChannelWhole, TablesWhole
<1>2. CASE Keeper
  BY <1>1, <1>2, ExecutePriorityWhole, ExecuteTxsWhole, FinishWhole DEF Keeper, BInv
<1>3. CASE Propose
  BY <1>1, <1>3, ProposeWhole DEF BInv
<1>4. CASE Crash \/ Panic
  BY <1>1, <1>4, StopWhole DEF Crash, Panic, BInv
<1>5. CASE Restart \/ RestoreOp
  BY <1>1, <1>5, RestartWhole, RestoreOpWhole DEF BInv
<1>6. CASE UNCHANGED <<mempoolRows, ready, miniBlock>>
  BY <1>6 DEF BatchesWait
<1>7. CASE Committer
  <2>1. SavePendingBlock \/ CommitBlock
    BY <1>7 DEF Committer
  <2>2. PICK r : r = Head(commitQ)
    OBVIOUS
  <2>3. CASE commitQ # <<>> /\ SaveTransactions(r) /\ UNCHANGED <<Memory, ready>>
    <3>1. r \in Requests
      BY <2>2, <2>3, HeadRequest
    <3>2. SideBySide(r.success) /\ Whole(Range(r.failed)) /\ RowsWhole(execTxs)
      BY SinglesWhole
    <3>3. mempoolRows' \subseteq Variants
      BY <2>3, <3>1, <3>2, SavedWhole DEF DataOK, BatchesWait
    <3>4. ready' = ready /\ miniBlock' = miniBlock
      BY <2>3 DEF Memory
    <3> QED BY <3>3, <3>4 DEF BatchesWait
  <2> QED BY <1>4, <2>1, <2>2, <2>3 DEF SavePendingBlock, CommitBlock
<1>8. CASE Environment
  <2>1. CASE ReportPriorityOp
    BY <1>6, <2>1 DEF ReportPriorityOp, process, database
  <2>2. CASE \E v \in Variants : Submit(v)
    <3>1. PICK v \in Variants : Submit(v)
      BY <2>2
    <3>2. mempoolRows' = mempoolRows \cup {v} /\ ready' = ready \cup {v}
          /\ miniBlock' = miniBlock
      BY <3>1 DEF Submit, Memory
    <3> QED BY <3>2 DEF BatchesWait
  <2> QED BY <1>8, <2>1, <2>2 DEF Environment
<1>9. CASE VerifyBlock \/ FinishRestore \/ UNCHANGED vars
  BY <1>6, <1>9 DEF VerifyBlock, FinishRestore, vars, process, database
<1> QED BY <1>2, <1>3, <1>4, <1>5, <1>7, <1>8, <1>9 DEF Next, Recovery

\* apply_batch takes from chunks_left what there is.
LEMMA SingleHolds ==
  ASSUME \A v \in Variants : Len(v) = 1, DataOK, BatchesWait, RoomInv
  PROVE  CounterHolds
<1> DEFINE txs == Head(miniBlock.txs)
<1> SUFFICES ASSUME miniBlock.txs # <<>>, TxsFit(txs)
             PROVE  Len(txs) * ChunksNeeded(accounts, txs) <= pending.chunksLeft
  BY Zenon DEF CounterHolds
<1>1. miniBlock.txs \in Seq(Seq(AllTxs))
  BY DEF DataOK, WorkOK
<1>2. txs = miniBlock.txs[1] /\ txs \in Seq(AllTxs) /\ 1 \in 1 .. Len(miniBlock.txs)
  BY <1>1, HeadTailProperties, LenProperties, EmptySeq
<1>3. txs \in Variants
  BY <1>2 DEF BatchesWait
<1> HIDE DEF txs
<1>4. Len(txs) = 1
  BY <1>3
<1>5. ChunksNeeded(accounts, txs) \in Nat /\ pending.chunksLeft \in Nat
  BY <1>2, NeededTyped DEF RoomInv, OpenBlocks
<1>6. pending.chunksLeft >= ChunksNeeded(accounts, txs)
  BY DEF TxsFit
<1> QED BY <1>4, <1>5, <1>6

\* The open block is sound where no batches are submitted, also after a restart that
\* went back: "If we can't add the tx to the block due to the size limit, we return
\* this tx, seal the block and execute it again" (state_keeper/mod.rs:626).
THEOREM SinglesAreSound == (\A v \in Variants : Len(v) = 1) => (Spec => []OpenBlockSound)
<1> SUFFICES ASSUME \A v \in Variants : Len(v) = 1
             PROVE  Spec => []OpenBlockSound
  OBVIOUS
<1>1. Init => RoomInv /\ BatchesWait
  BY InitRoom, InitWhole DEF BInv
<1>2. IInv /\ DataOK /\ RoomInv /\ BatchesWait /\ [Next]_vars => (RoomInv /\ BatchesWait)'
  BY SingleHolds, SinglesWait, NextRoom
<1>3. IInv /\ DataOK /\ RoomInv /\ (~ wentBack => FInv) => OpenBlockSound
  BY RoomGives, OpenContinues, NumbersNow DEF OpenBlockSound
<1> QED BY <1>1, <1>2, <1>3, Inductive, DataFits, Followed, PTL DEF Spec
=============================================================================
