--------------------------- MODULE EthSender_proofs ---------------------------
(***************************************************************************)
(* Theorems about the Ethereum sender, for every number of blocks, every   *)
(* limit of the queue and of the gas price, and every number of crashes,   *)
(* failing requests, lost database transactions and reorganisations.  The  *)
(* last part is about runs in which no database transaction is lost after  *)
(* its Ethereum transaction was sent (NothingLost).                        *)
(***************************************************************************)
EXTENDS EthSender, DataFacts, TLAPS

-----------------------------------------------------------------------------
(* The inductive invariant, however many database transactions are lost *)

Rows == [op : Ops, nonce : Nat, txs : Seq(Prices), confirmed : BOOLEAN]
Entries == [row : Nat, op : Ops, nonce : Nat, txs : Seq(Prices)]
Queues == [commits : Seq(Nat), commitCount : Nat, verifies : SUBSET Nat, verifyNext : Nat,
           withdraws : Nat, withdrawCount : Nat, pending : Nat]
Contracts == [committed : Nat, verified : Nat]
Included == [tx : Txs, contract : Contracts]
Modes == {"idle", "sending", "sent", "checking", "resent", "down", "panicked"}

Faults == [crashes : 0 .. MaxCrashes, reorgs : Nat, errors : Nat, lost : 0 .. MaxLost,
           raises : Nat]

\* The types, of the sequences and records as a whole.
TableTypes ==
    /\ commitOps \in 0 .. MaxBlocks /\ verifyOps \in 0 .. commitOps
    /\ ethOps \in Seq(Rows)
    /\ params \in [nonce : Nat, commit : Nat, verify : Nat, withdraw : Nat]
MemoryTypes ==
    /\ mode \in Modes /\ queue \in Queues
    /\ ongoing \in Seq(Entries) /\ cursor \in 1 .. Len(ongoing) + 1
ChainTypes ==
    /\ sent \subseteq Txs
    /\ mined \in Seq(Included) /\ deep \in 0 .. Len(mined)
Types == TableTypes /\ MemoryTypes /\ ChainTypes /\ faults \in Faults

\* The rows bind the blocks 1 .. last of a type, in this order.
Enumerates(rows, type, last) ==
    /\ \A i \in 1 .. Len(rows) : rows[i].op.type = type => rows[i].op.block \in 1 .. last
    /\ \A b \in 1 .. last : \E i \in 1 .. Len(rows) : rows[i].op = Op(type, b)
    /\ \A i, j \in 1 .. Len(rows) :
          i < j /\ rows[i].op.type = type /\ rows[j].op.type = type
              => rows[i].op.block < rows[j].op.block

\* No verification is bound before its commit.
CommittedFirst(rows) ==
    \A i \in 1 .. Len(rows) : rows[i].op.type = "Verify" =>
        \E j \in 1 .. i - 1 : rows[j].op = Op("Commit", rows[i].op.block)

WithdrawRows(rows) == {i \in 1 .. Len(rows) : rows[i].op = WithdrawOp}

\* The parameters are counted from the rows, whose nonces are their positions.
TableCounts(rows, p) ==
    /\ p.nonce = Len(rows)
    /\ \A i \in 1 .. Len(rows) : rows[i].nonce = i - 1 /\ rows[i].txs # <<>>
    /\ Enumerates(rows, "Commit", p.commit) /\ Enumerates(rows, "Verify", p.verify)
    /\ Cardinality(WithdrawRows(rows)) = p.withdraw
    /\ p.withdraw <= p.verify /\ p.verify <= p.commit
    /\ CommittedFirst(rows)

Counts ==
    /\ TableCounts(ethOps, params)
    /\ params.commit <= commitOps /\ params.verify <= verifyOps

\* Queue q goes on where the parameters p end.
Continues(q, p) ==
    /\ q.commitCount = p.commit
    /\ q.verifyNext = p.verify + 1
    /\ q.withdrawCount = p.withdraw
    /\ p.commit + Len(q.commits) <= commitOps
    /\ \A k \in 1 .. Len(q.commits) : q.commits[k] = p.commit + k
    /\ q.verifies \subseteq (p.verify + 1) .. verifyOps

\* An operation that may be bound to the next nonce.
MayBind(op) ==
    \/ op = Op("Commit", params.commit + 1) /\ params.commit < commitOps
    \/ /\ op = Op("Verify", params.verify + 1)
       /\ params.verify < params.commit /\ params.verify < verifyOps
    \/ op = WithdrawOp /\ params.withdraw < params.verify

\* What has been popped and sent is bound next; otherwise the queue fits the table.
Queued ==
    IF mode = "sent"
    THEN /\ ongoing # <<>>
         /\ Last(ongoing).row = 0 /\ Last(ongoing).nonce = params.nonce
         /\ MayBind(Last(ongoing).op)
         /\ Continues(queue, Counted(Last(ongoing).op)) /\ queue.pending > 0
    ELSE Continues(queue, params)

\* An operation in memory that has a row agrees with it.
Agrees(entry, rows) ==
    /\ entry.txs # <<>>
    /\ entry.row # 0 => /\ entry.row \in 1 .. Len(rows)
                        /\ entry.nonce = entry.row - 1
                        /\ entry.op = rows[entry.row].op

Remembered ==
    /\ \A k \in 1 .. Len(ongoing) : Agrees(ongoing[k], ethOps)
    /\ mode = "resent" => cursor <= Len(ongoing) /\ Current.row # 0

\* The chain has what was sent, in the order of the nonces.
InOrder == \A i \in 1 .. Len(mined) : mined[i].tx \in sent /\ mined[i].tx.nonce = i - 1

Inv == Types /\ Counts /\ Queued /\ Remembered /\ InOrder /\ ConfirmedIsFinal

\* The rows that are not confirmed.
Open == {i \in 1 .. Len(ethOps) : ~ ethOps[i].confirmed}

-----------------------------------------------------------------------------
(* Operations, rows and parameters *)

\* The three types of operations.
LEMMA OpTypes ==
  ASSUME NEW op \in Ops
  PROVE  /\ op.type \in {"Commit", "Verify", "Withdraw"}
         /\ op.type \in {"Commit", "Verify"} =>
               op.block \in 1 .. MaxBlocks /\ op = Op(op.type, op.block)
         /\ op.type = "Withdraw" <=> op = WithdrawOp
BY DEF Ops, Op, WithdrawOp

LEMMA OpFields ==
  ASSUME NEW type, NEW block
  PROVE  /\ Op(type, block).type = type /\ Op(type, block).block = block
         /\ \A t, b : Op(type, block) = Op(t, b) <=> type = t /\ block = b
BY DEF Op

\* The last block among the rows of a type is the number of these rows.
LEMMA LastBlockIsCount ==
  ASSUME ethOps \in Seq(Rows), NEW type \in {"Commit", "Verify"}, NEW last \in Nat,
         Enumerates(ethOps, type, last)
  PROVE  LastBlock(type) = last
<1> DEFINE S == {i \in DOMAIN ethOps : ethOps[i].op.type = type}
<1>1. Len(ethOps) \in Nat /\ DOMAIN ethOps = 1 .. Len(ethOps)
  BY LenProperties
<1>2. CASE last = 0
  <2>1. S = {}
    BY <1>1, <1>2 DEF Enumerates
  <2> QED BY <1>2, <2>1 DEF LastBlock
<1>3. CASE last # 0
  <2>1. PICK i \in 1 .. Len(ethOps) : ethOps[i].op = Op(type, last)
    BY <1>3 DEF Enumerates
  <2>2. i \in S /\ S \subseteq 0 .. Len(ethOps)
    BY <1>1, <2>1, OpFields
  <2>3. Max(S) \in S /\ i <= Max(S)
    BY <1>1, <2>2, MaxIsMember
  <2>4. ethOps[Max(S)].op.block \in 1 .. last
    BY <1>1, <2>3 DEF Enumerates
  <2>5. i < Max(S) => ethOps[i].op.block < ethOps[Max(S)].op.block
    BY <1>1, <2>2, <2>3 DEF Enumerates
  <2>6. ethOps[i].op.block = last
    BY <2>1, OpFields
  <2>7. ethOps[Max(S)].op.block = last
    BY <1>1, <2>2, <2>3, <2>4, <2>5, <2>6
  <2> QED BY <2>2, <2>7 DEF LastBlock
<1> QED BY <1>2, <1>3

\* Unprocessed blocks are those after the last one bound.
LEMMA UnprocessedAreNext ==
  ASSUME ethOps \in Seq(Rows), NEW type \in {"Commit", "Verify"}, NEW last \in Nat,
         Enumerates(ethOps, type, last), NEW stored \in Nat
  PROVE  Unprocessed(type, stored) = (last + 1) .. stored
<1>1. Len(ethOps) \in Nat /\ DOMAIN ethOps = 1 .. Len(ethOps)
  BY LenProperties
<1>2. ASSUME NEW b \in 1 .. stored, b <= last
      PROVE  b \notin Unprocessed(type, stored)
  <2>1. PICK i \in 1 .. Len(ethOps) : ethOps[i].op = Op(type, b)
    BY <1>2 DEF Enumerates
  <2> QED BY <1>1, <2>1 DEF Unprocessed
<1>3. ASSUME NEW b \in 1 .. stored, b > last
      PROVE  b \in Unprocessed(type, stored)
  <2>1. ASSUME NEW i \in 1 .. Len(ethOps), ethOps[i].op = Op(type, b)
        PROVE  FALSE
    BY <1>3, <2>1, OpFields DEF Enumerates
  <2> QED BY <1>1, <2>1 DEF Unprocessed
<1>4. \A b : b \in Unprocessed(type, stored) => b \in 1 .. stored
  BY DEF Unprocessed
<1>5. \A b : b \in Unprocessed(type, stored) <=> b \in (last + 1) .. stored
  BY <1>2, <1>3, <1>4
<1> QED BY <1>5

-----------------------------------------------------------------------------
(* The queue (TxQueue) *)

\* AddCommits appends the blocks that are missing, in their order.
LEMMA AscendingInterval ==
  ASSUME NEW a \in Nat, NEW z \in Nat
  PROVE  /\ Ascending((a + 1) .. z) \in Seq(Nat)
         /\ Len(Ascending((a + 1) .. z)) = IF a < z THEN z - a ELSE 0
         /\ \A k \in 1 .. Len(Ascending((a + 1) .. z)) : Ascending((a + 1) .. z)[k] = a + k
<1> DEFINE S == (a + 1) .. z
           n == Cardinality(S)
           f == Ascending(S)
<1>1. S \in SUBSET Nat /\ IsFiniteSet(S)
  BY FS_Interval
<1>2. n = (IF a < z THEN z - a ELSE 0) /\ n \in Nat
  BY FS_Interval
<1>3. f \in [1 .. n -> S] /\ IsAscending(f)
  <2>1. \E g \in [1 .. n -> S] : IsAscending(g)
    BY <1>1, AscendingExists
  <2> QED BY <2>1 DEF Ascending, IsAscending
<1> HIDE DEF f
<1>4. \A k \in 1 .. n : f[k] = (a + 1) + k - 1
  <2>1. a + 1 \in Nat /\ z \in Nat /\ S = (a + 1) .. z
    OBVIOUS
  <2> HIDE DEF S
  <2>2. \A c, d \in Nat : S = c .. d => \A k \in 1 .. n : f[k] = c + k - 1
    BY <1>1, <1>3, AscendingIsOnto
  <2> QED BY <2>1, <2>2
<1>5. f \in Seq(Nat) /\ Len(f) = n
  <2>1. f \in [1 .. n -> Nat]
    BY <1>3
  <2>2. f \in Seq(Nat)
    BY <1>2, <2>1, SeqDef
  <2> QED BY <1>2, <2>1, <2>2, LenProperties
<1> QED BY <1>2, <1>4, <1>5 DEF f

\* Loading new operations never panics, and the queue still fits the table.
LEMMA LoadedContinues ==
  ASSUME Types, Counts, NEW q \in Queues, Continues(q, params)
  PROVE  /\ ~ LoadPanics(q)
         /\ Loaded(q) \in Queues /\ Continues(Loaded(q), params)
         /\ Loaded(q).pending = q.pending
         /\ Loaded(q).withdrawCount = q.withdrawCount /\ Loaded(q).withdraws = q.withdraws
<1> DEFINE c == params.commit
           n == Len(q.commits)
           s == Ascending((c + n + 1) .. commitOps)
<1>1. /\ params.commit \in Nat /\ params.verify \in Nat
      /\ commitOps \in Nat /\ verifyOps \in Nat /\ ethOps \in Seq(Rows)
      /\ params.commit <= commitOps /\ params.verify <= verifyOps
  BY DEF Types, TableTypes, Counts, TableCounts
<1>2. /\ Unprocessed("Commit", commitOps) = (c + 1) .. commitOps
      /\ Unprocessed("Verify", verifyOps) = (params.verify + 1) .. verifyOps
  BY <1>1, UnprocessedAreNext DEF Counts, TableCounts
<1>3. q.commits \in Seq(Nat) /\ n \in Nat /\ DOMAIN q.commits = 1 .. n
  BY LenProperties DEF Queues
<1>4. (c + 1) .. commitOps \ Range(q.commits) = (c + n + 1) .. commitOps
  <2>1. Range(q.commits) = {q.commits[k] : k \in 1 .. n}
    BY <1>3 DEF Range
  <2>2. \A k \in 1 .. n : q.commits[k] = c + k
    BY DEF Continues
  <2>3. ASSUME NEW b \in (c + 1) .. (c + n)
        PROVE  b \in Range(q.commits)
    <3>1. b - c \in 1 .. n /\ c + (b - c) = b
      BY <1>1, <1>3
    <3>2. q.commits[b - c] = c + (b - c)
      BY <2>2, <3>1
    <3> QED BY <2>1, <3>1, <3>2
  <2>4. \A b \in Range(q.commits) : b \in (c + 1) .. (c + n)
    BY <1>1, <1>3, <2>1, <2>2, SMTT(20)
  <2>5. \A b : b \in (c + 1) .. commitOps /\ b \notin Range(q.commits)
                <=> b \in (c + n + 1) .. commitOps
    BY <1>1, <1>3, <2>3, <2>4
  <2> QED BY <2>5
<1>5. /\ s \in Seq(Nat)
      /\ Len(s) = IF c + n < commitOps THEN commitOps - (c + n) ELSE 0
      /\ \A k \in 1 .. Len(s) : s[k] = c + n + k
  <2>1. c + n \in Nat
    BY <1>1, <1>3
  <2> QED BY <1>1, <2>1, AscendingInterval
<1> HIDE DEF s
<1>6. c + n <= commitOps /\ Len(s) \in Nat /\ n + Len(s) = commitOps - c
  <2>1. c + n <= commitOps
    BY DEF Continues
  <2>2. Len(s) \in Nat
    BY <1>5, LenProperties
  <2>3. c \in Nat /\ commitOps \in Nat /\ n \in Nat
    BY <1>1, <1>3
  <2>4. Len(s) = commitOps - (c + n)
    BY <1>5, <2>1, <2>3
  <2> QED BY <2>1, <2>2, <2>3, <2>4
<1>7. /\ q.commits \o s \in Seq(Nat)
      /\ Len(q.commits \o s) = n + Len(s)
      /\ \A k \in 1 .. n + Len(s) :
            (q.commits \o s)[k] = IF k <= n THEN q.commits[k] ELSE s[k - n]
  BY <1>3, <1>5, ConcatProperties
<1>8. \A k \in 1 .. n + Len(s) : (q.commits \o s)[k] = c + k
  <2>1. \A k \in 1 .. n : q.commits[k] = c + k
    BY DEF Continues
  <2>2. ASSUME NEW k \in 1 .. n + Len(s), ~ (k <= n)
        PROVE  s[k - n] = c + k
    <3>1. k - n \in 1 .. Len(s)
      BY <1>3, <1>6, <2>2
    <3>2. s[k - n] = c + n + (k - n)
      BY <1>5, <3>1
    <3> QED BY <1>1, <1>3, <3>2
  <2> QED BY <1>3, <1>6, <1>7, <2>1, <2>2
<1>9. Loaded(q) = [q EXCEPT !.commits = q.commits \o s,
                            !.verifies = q.verifies \cup (params.verify + 1) .. verifyOps]
  BY <1>2, <1>4 DEF Loaded, AddOperations, AddVerifies, AddCommits, s, Queues
<1>10. ~ LoadPanics(q)
  BY <1>1, <1>2 DEF LoadPanics, AddPanics, Continues
<1>11. Loaded(q) \in Queues
  <2>1. q.verifies \cup (params.verify + 1) .. verifyOps \in SUBSET Nat
    BY <1>1 DEF Queues
  <2> QED BY <1>7, <1>9, <2>1 DEF Queues
<1>12. /\ Loaded(q).commits = q.commits \o s
       /\ Loaded(q).verifies = q.verifies \cup (params.verify + 1) .. verifyOps
       /\ Loaded(q).commitCount = q.commitCount /\ Loaded(q).verifyNext = q.verifyNext
       /\ Loaded(q).withdrawCount = q.withdrawCount /\ Loaded(q).withdraws = q.withdraws
       /\ Loaded(q).pending = q.pending
  BY <1>9 DEF Queues
<1>13. Continues(Loaded(q), params)
  <2>1. params.commit + Len(Loaded(q).commits) <= commitOps
    BY <1>1, <1>6, <1>7, <1>12
  <2>2. \A k \in 1 .. Len(Loaded(q).commits) : Loaded(q).commits[k] = params.commit + k
    BY <1>7, <1>8, <1>12
  <2>3. Loaded(q).verifies \subseteq (params.verify + 1) .. verifyOps
    BY <1>12 DEF Continues
  <2> QED BY <1>12, <2>1, <2>2, <2>3 DEF Continues
<1> QED BY <1>10, <1>11, <1>12, <1>13

\* A new queue counts on from the table.
LEMMA NewContinues ==
  ASSUME Types, Counts, NEW n
  PROVE  Continues(NewQueue(n, params), params)
<1>1. params.commit \in Nat /\ params.commit <= commitOps /\ commitOps \in Nat
  BY DEF Types, TableTypes, Counts, TableCounts
<1> QED BY <1>1, EmptySeq DEF Continues, NewQueue

\* The parameters after an operation is bound.
LEMMA CountedFields ==
  ASSUME params \in [nonce : Nat, commit : Nat, verify : Nat, withdraw : Nat], NEW op
  PROVE  /\ Counted(op) \in [nonce : Nat, commit : Nat, verify : Nat, withdraw : Nat]
         /\ Counted(op).nonce = params.nonce + 1
         /\ Counted(op).commit = IF op.type = "Commit" THEN params.commit + 1 ELSE params.commit
         /\ Counted(op).verify = IF op.type = "Verify" THEN params.verify + 1 ELSE params.verify
         /\ Counted(op).withdraw
               = IF op.type = "Withdraw" THEN params.withdraw + 1 ELSE params.withdraw
<1> DEFINE c == IF op.type = "Commit" THEN params.commit + 1 ELSE params.commit
           v == IF op.type = "Verify" THEN params.verify + 1 ELSE params.verify
           w == IF op.type = "Withdraw" THEN params.withdraw + 1 ELSE params.withdraw
<1>1. params.nonce + 1 \in Nat /\ c \in Nat /\ v \in Nat /\ w \in Nat
  OBVIOUS
<1>2. Counted(op) = [params EXCEPT !.nonce = params.nonce + 1, !.commit = c, !.verify = v,
                                   !.withdraw = w]
  BY DEF Counted
<1> HIDE DEF c, v, w
<1>3. /\ Counted(op) \in [nonce : Nat, commit : Nat, verify : Nat, withdraw : Nat]
      /\ Counted(op).nonce = params.nonce + 1 /\ Counted(op).commit = c
      /\ Counted(op).verify = v /\ Counted(op).withdraw = w
  BY <1>1, <1>2
<1> QED BY <1>3 DEF c, v, w

\* What may be bound is an operation of the blocks that are stored.
LEMMA MayBindIsOp ==
  ASSUME Types, NEW op, MayBind(op)
  PROVE  op \in Ops
<1>1. /\ params.commit \in Nat /\ params.verify \in Nat
      /\ commitOps \in 0 .. MaxBlocks /\ verifyOps \in 0 .. MaxBlocks /\ MaxBlocks \in Nat
  <2>1. MaxBlocks \in Nat
    BY SenderAssumption
  <2>2. commitOps \in 0 .. MaxBlocks /\ verifyOps \in 0 .. commitOps
    BY DEF Types, TableTypes, MemoryTypes
  <2> QED BY <2>1, <2>2 DEF Types, TableTypes, MemoryTypes
<1>2. CASE op = WithdrawOp
  BY <1>2 DEF Ops
<1>3. CASE op = Op("Commit", params.commit + 1) /\ params.commit < commitOps
  <2>1. params.commit + 1 \in 1 .. MaxBlocks
    BY <1>1, <1>3
  <2> QED BY <1>3, <2>1 DEF Ops
<1>4. CASE op = Op("Verify", params.verify + 1) /\ params.verify < verifyOps
  <2>1. params.verify + 1 \in 1 .. MaxBlocks
    BY <1>1, <1>4
  <2> QED BY <1>4, <2>1 DEF Ops
<1> QED BY <1>2, <1>3, <1>4 DEF MayBind

\* The operation that the queue yields is the next one to bind.
LEMMA PoppedContinues ==
  ASSUME Types, Counts, NEW q \in Queues, Continues(q, params), NEW op \in NextOperation(q)
  PROVE  /\ MayBind(op)
         /\ Popped(q, op) \in Queues /\ Continues(Popped(q, op), Counted(op))
         /\ q.pending < MaxInFlight /\ Popped(q, op).pending = q.pending + 1
         /\ Popped(q, op).withdrawCount + Popped(q, op).withdraws
               = q.withdrawCount + q.withdraws
<1>1. /\ params.commit \in Nat /\ params.verify \in Nat /\ params.withdraw \in Nat
      /\ commitOps \in Nat /\ verifyOps \in Nat
  BY DEF Types, TableTypes, MemoryTypes
<1>2. /\ q.commits \in Seq(Nat) /\ q.commitCount \in Nat /\ q.verifyNext \in Nat
      /\ q.verifies \in SUBSET Nat /\ q.withdraws \in Nat /\ q.withdrawCount \in Nat
      /\ q.pending \in Nat /\ Len(q.commits) \in Nat /\ MaxInFlight \in Nat
  BY SenderAssumption, LenProperties DEF Queues
<1>3. /\ q.commitCount = params.commit /\ q.verifyNext = params.verify + 1
      /\ q.withdrawCount = params.withdraw
      /\ params.commit + Len(q.commits) <= commitOps
      /\ \A k \in 1 .. Len(q.commits) : q.commits[k] = params.commit + k
      /\ q.verifies \subseteq (params.verify + 1) .. verifyOps
  BY DEF Continues
<1>4. /\ Counted(op).commit = IF op.type = "Commit" THEN params.commit + 1 ELSE params.commit
      /\ Counted(op).verify = IF op.type = "Verify" THEN params.verify + 1 ELSE params.verify
      /\ Counted(op).withdraw
            = IF op.type = "Withdraw" THEN params.withdraw + 1 ELSE params.withdraw
  BY CountedFields DEF Types, TableTypes, MemoryTypes
<1>5. q.pending < MaxInFlight
  BY <1>2 DEF NextOperation
<1>6. CASE op = Op("Verify", q.verifyNext) /\ VerifyReady(q)
  <2> DEFINE r == [q EXCEPT !.verifies = @ \ {op.block}, !.verifyNext = @ + 1, !.pending = @ + 1]
  <2>1. op.type = "Verify" /\ op.block = q.verifyNext
    BY <1>6, OpFields
  <2>2. Popped(q, op) = r
    BY <2>1 DEF Popped
  <2>3. /\ r \in Queues /\ r.commits = q.commits /\ r.commitCount = q.commitCount
        /\ r.verifies = q.verifies \ {q.verifyNext} /\ r.verifyNext = q.verifyNext + 1
        /\ r.withdraws = q.withdraws /\ r.withdrawCount = q.withdrawCount
        /\ r.pending = q.pending + 1
    <3>1. /\ q.verifies \ {op.block} \in SUBSET Nat
          /\ q.verifyNext + 1 \in Nat /\ q.pending + 1 \in Nat
      BY <1>2
    <3> QED BY <2>1, <3>1 DEF Queues
  <2>4. MayBind(op)
    BY <1>1, <1>2, <1>3, <1>6 DEF VerifyReady, MayBind
  <2>5. Continues(r, Counted(op))
    BY <1>1, <1>2, <1>3, <1>4, <2>1, <2>3 DEF Continues
  <2> QED BY <1>5, <2>2, <2>3, <2>4, <2>5
<1>7. CASE op = WithdrawOp /\ WithdrawReady(q)
  <2> DEFINE r == [q EXCEPT !.withdraws = @ - 1, !.withdrawCount = @ + 1, !.pending = @ + 1]
  <2>1. op.type = "Withdraw"
    BY <1>7, OpFields DEF WithdrawOp
  <2>2. Popped(q, op) = r
    BY <2>1 DEF Popped
  <2>3. /\ r \in Queues /\ r.commits = q.commits /\ r.commitCount = q.commitCount
        /\ r.verifies = q.verifies /\ r.verifyNext = q.verifyNext
        /\ r.withdraws = q.withdraws - 1 /\ r.withdrawCount = q.withdrawCount + 1
        /\ r.pending = q.pending + 1
    <3>1. q.withdraws - 1 \in Nat /\ q.withdrawCount + 1 \in Nat /\ q.pending + 1 \in Nat
      BY <1>2, <1>7 DEF WithdrawReady
    <3> QED BY <3>1 DEF Queues
  <2>4. MayBind(op)
    BY <1>1, <1>2, <1>3, <1>7 DEF WithdrawReady, MayBind
  <2>5. Continues(r, Counted(op))
    BY <1>1, <1>2, <1>3, <1>4, <2>1, <2>3 DEF Continues
  <2>6. r.withdrawCount + r.withdraws = q.withdrawCount + q.withdraws
    BY <1>2, <2>3, SMTT(20)
  <2> QED BY <1>5, <2>2, <2>3, <2>4, <2>5, <2>6
<1>8. CASE op = Op("Commit", Head(q.commits)) /\ q.commits # <<>>
  <2> DEFINE r == [q EXCEPT !.commits = Tail(@), !.commitCount = @ + 1, !.pending = @ + 1]
  <2>1. op.type = "Commit" /\ op.block = Head(q.commits)
    BY <1>8, OpFields
  <2>2. Popped(q, op) = r
    BY <2>1 DEF Popped
  <2>3. /\ Tail(q.commits) \in Seq(Nat) /\ Len(Tail(q.commits)) = Len(q.commits) - 1
        /\ \A k \in 1 .. Len(q.commits) - 1 : Tail(q.commits)[k] = q.commits[k + 1]
        /\ Len(q.commits) \in Nat \ {0} /\ Head(q.commits) = q.commits[1]
    BY <1>2, <1>8, HeadTailProperties, EmptySeq
  <2>4. /\ r \in Queues /\ r.commits = Tail(q.commits) /\ r.commitCount = q.commitCount + 1
        /\ r.verifies = q.verifies /\ r.verifyNext = q.verifyNext
        /\ r.withdraws = q.withdraws /\ r.withdrawCount = q.withdrawCount
        /\ r.pending = q.pending + 1
    <3>1. q.commitCount + 1 \in Nat /\ q.pending + 1 \in Nat
      BY <1>2
    <3> QED BY <2>3, <3>1 DEF Queues
  <2>5. Head(q.commits) = params.commit + 1 /\ params.commit < commitOps
    BY <1>1, <1>3, <2>3
  <2>6. MayBind(op)
    BY <1>8, <2>5 DEF MayBind
  <2>7. ASSUME NEW k \in 1 .. Len(r.commits)
        PROVE  r.commits[k] = params.commit + 1 + k
    <3>1. k + 1 \in 1 .. Len(q.commits) /\ r.commits[k] = q.commits[k + 1]
      BY <2>3, <2>4
    <3>2. q.commits[k + 1] = params.commit + (k + 1)
      BY <1>3, <3>1
    <3> QED BY <1>1, <3>1, <3>2
  <2>8. /\ Counted(op).commit = params.commit + 1 /\ Counted(op).verify = params.verify
        /\ Counted(op).withdraw = params.withdraw
    BY <1>4, <2>1
  <2>9. params.commit + 1 + Len(r.commits) <= commitOps
    BY <1>1, <1>2, <1>3, <2>3, <2>4
  <2>10. Continues(r, Counted(op))
    BY <1>3, <2>4, <2>7, <2>8, <2>9 DEF Continues
  <2> QED BY <1>5, <2>2, <2>4, <2>6, <2>10
<1> QED BY <1>6, <1>7, <1>8 DEF NextOperation

\* An operation whose row was not stored returns to where it was.
LEMMA ReturnedContinues ==
  ASSUME Types, NEW q \in Queues, NEW op, MayBind(op), Continues(q, Counted(op)),
         q.pending > 0
  PROVE  Returned(q, op) \in Queues /\ Continues(Returned(q, op), params)
<1>1. /\ params.commit \in Nat /\ params.verify \in Nat /\ params.withdraw \in Nat
      /\ commitOps \in Nat /\ verifyOps \in Nat
  BY DEF Types, TableTypes, MemoryTypes
<1>2. /\ q.commits \in Seq(Nat) /\ q.commitCount \in Nat /\ q.verifyNext \in Nat
      /\ q.verifies \in SUBSET Nat /\ q.withdraws \in Nat /\ q.withdrawCount \in Nat
      /\ q.pending \in Nat /\ Len(q.commits) \in Nat
  BY LenProperties DEF Queues
<1>3. /\ q.commitCount = Counted(op).commit /\ q.verifyNext = Counted(op).verify + 1
      /\ q.withdrawCount = Counted(op).withdraw
      /\ Counted(op).commit + Len(q.commits) <= commitOps
      /\ \A k \in 1 .. Len(q.commits) : q.commits[k] = Counted(op).commit + k
      /\ q.verifies \subseteq (Counted(op).verify + 1) .. verifyOps
  BY DEF Continues
<1>4. /\ Counted(op).commit = IF op.type = "Commit" THEN params.commit + 1 ELSE params.commit
      /\ Counted(op).verify = IF op.type = "Verify" THEN params.verify + 1 ELSE params.verify
      /\ Counted(op).withdraw
            = IF op.type = "Withdraw" THEN params.withdraw + 1 ELSE params.withdraw
  BY CountedFields DEF Types, TableTypes, MemoryTypes
<1>8. q.pending - 1 \in Nat
  <2>1. q.pending \in Nat /\ q.pending > 0
    BY <1>2
  <2> QED BY <2>1
<1>5. CASE op = Op("Verify", params.verify + 1) /\ params.verify < verifyOps
  <2> DEFINE r == [q EXCEPT !.verifies = @ \cup {q.verifyNext - 1}, !.verifyNext = @ - 1,
                            !.pending = @ - 1]
  <2>1. op.type = "Verify"
    BY <1>5, OpFields
  <2>2. Returned(q, op) = r
    BY <2>1 DEF Returned
  <2>3. q.verifyNext = params.verify + 2
    BY <1>1, <1>3, <1>4, <2>1
  <2>4. /\ r \in Queues /\ r.commits = q.commits /\ r.commitCount = q.commitCount
        /\ r.verifies = q.verifies \cup {params.verify + 1} /\ r.verifyNext = params.verify + 1
        /\ r.withdraws = q.withdraws /\ r.withdrawCount = q.withdrawCount
    <3>1. q.verifyNext - 1 = params.verify + 1 /\ q.verifyNext - 1 \in Nat
      BY <1>1, <2>3
    <3>2. q.verifies \cup {q.verifyNext - 1} \in SUBSET Nat
      BY <1>2, <3>1
    <3> QED BY <1>8, <3>1, <3>2 DEF Queues
  <2>5. /\ Counted(op).commit = params.commit /\ Counted(op).verify = params.verify + 1
        /\ Counted(op).withdraw = params.withdraw
    BY <1>4, <2>1
  <2>6. r.verifies \subseteq (params.verify + 1) .. verifyOps
    BY <1>1, <1>3, <1>5, <2>4, <2>5
  <2>7. Continues(r, params)
    BY <1>3, <2>4, <2>5, <2>6 DEF Continues
  <2> QED BY <2>2, <2>4, <2>7
<1>6. CASE op = WithdrawOp
  <2> DEFINE r == [q EXCEPT !.withdraws = @ + 1, !.withdrawCount = @ - 1, !.pending = @ - 1]
  <2>1. op.type = "Withdraw"
    BY <1>6, OpFields DEF WithdrawOp
  <2>2. Returned(q, op) = r
    BY <2>1 DEF Returned
  <2>3. q.withdrawCount = params.withdraw + 1
    BY <1>1, <1>3, <1>4, <2>1
  <2>4. /\ r \in Queues /\ r.commits = q.commits /\ r.commitCount = q.commitCount
        /\ r.verifies = q.verifies /\ r.verifyNext = q.verifyNext
        /\ r.withdrawCount = params.withdraw
    <3>1. q.withdrawCount - 1 = params.withdraw /\ q.withdraws + 1 \in Nat
      BY <1>1, <1>2, <2>3
    <3> QED BY <1>1, <1>8, <3>1 DEF Queues
  <2>5. Counted(op).commit = params.commit /\ Counted(op).verify = params.verify
    BY <1>4, <2>1
  <2>6. Continues(r, params)
    BY <1>3, <2>4, <2>5 DEF Continues
  <2> QED BY <2>2, <2>4, <2>6
<1>7. CASE op = Op("Commit", params.commit + 1) /\ params.commit < commitOps
  <2> DEFINE b == params.commit + 1
             s == <<b>> \o q.commits
             r == [q EXCEPT !.commits = s, !.commitCount = @ - 1, !.pending = @ - 1]
  <2>1. op.type = "Commit" /\ op.block = b
    BY <1>7, OpFields
  <2>2. Returned(q, op) = r
    BY <2>1 DEF Returned
  <2>3. <<b>> \in Seq(Nat) /\ Len(<<b>>) = 1 /\ <<b>>[1] = b
    BY <1>1
  <2>4. /\ s \in Seq(Nat) /\ Len(s) = 1 + Len(q.commits)
        /\ \A k \in 1 .. 1 + Len(q.commits) :
              s[k] = IF k <= 1 THEN b ELSE q.commits[k - 1]
    <3>1. /\ s \in Seq(Nat) /\ Len(s) = Len(<<b>>) + Len(q.commits)
          /\ \A k \in 1 .. Len(<<b>>) + Len(q.commits) :
                s[k] = IF k <= Len(<<b>>) THEN <<b>>[k] ELSE q.commits[k - Len(<<b>>)]
      BY <1>2, <2>3, ConcatProperties
    <3> QED BY <1>2, <2>3, <3>1
  <2> HIDE DEF s
  <2>5. q.commitCount = params.commit + 1
    BY <1>1, <1>3, <1>4, <2>1
  <2>6. /\ r \in Queues /\ r.commits = s /\ r.commitCount = params.commit
        /\ r.verifies = q.verifies /\ r.verifyNext = q.verifyNext
        /\ r.withdraws = q.withdraws /\ r.withdrawCount = q.withdrawCount
    <3>1. q.commitCount - 1 = params.commit
      BY <1>1, <2>5
    <3> QED BY <1>1, <1>8, <2>4, <3>1 DEF Queues
  <2>7. ASSUME NEW k \in 1 .. Len(r.commits)
        PROVE  r.commits[k] = params.commit + k
    <3>1. k \in 1 .. 1 + Len(q.commits) /\ r.commits[k] = s[k]
      BY <2>4, <2>6
    <3>2. CASE k = 1
      BY <2>4, <3>1, <3>2
    <3>3. CASE k # 1
      <4>1. k - 1 \in 1 .. Len(q.commits)
        BY <1>2, <3>1, <3>3
      <4>2. ~ (k <= 1) /\ s[k] = q.commits[k - 1]
        BY <2>4, <3>1, <3>3
      <4>3. q.commits[k - 1] = Counted(op).commit + (k - 1)
        BY <1>3, <4>1
      <4>4. Counted(op).commit = params.commit + 1
        BY <1>4, <2>1
      <4>5. params.commit + 1 + (k - 1) = params.commit + k
        BY <1>1, <3>1
      <4> QED BY <3>1, <4>2, <4>3, <4>4, <4>5
    <3> QED BY <3>2, <3>3
  <2>8. /\ Counted(op).commit = params.commit + 1 /\ Counted(op).verify = params.verify
        /\ Counted(op).withdraw = params.withdraw
    BY <1>4, <2>1
  <2>9. params.commit + Len(r.commits) <= commitOps
    BY <1>1, <1>2, <1>3, <2>4, <2>6, <2>8
  <2>10. Continues(r, params)
    BY <1>3, <2>6, <2>7, <2>8, <2>9 DEF Continues
  <2> QED BY <2>2, <2>6, <2>10
<1> QED BY <1>5, <1>6, <1>7 DEF MayBind

-----------------------------------------------------------------------------
(* The initial state *)

LEMMA InitInv == Init => Inv
<1> SUFFICES ASSUME Init
             PROVE  Inv
  OBVIOUS
<1>1. /\ MaxBlocks \in Nat /\ MaxCrashes \in Nat /\ MaxReorgs \in Nat /\ MaxErrors \in Nat
      /\ MaxLost \in Nat /\ MaxRaises \in Nat
  BY SenderAssumption
<1>2. <<>> \in Seq(Rows) /\ <<>> \in Seq(Entries) /\ <<>> \in Seq(Nat)
      /\ <<>> \in Seq(Included) /\ Len(<<>>) = 0
  BY EmptySeq
<1>3. params = [nonce |-> 0, commit |-> 0, verify |-> 0, withdraw |-> 0]
  BY DEF Init
<1>4. queue = [commits |-> <<>>, commitCount |-> 0, verifies |-> {}, verifyNext |-> 1,
               withdraws |-> 0, withdrawCount |-> 0, pending |-> 0]
  BY <1>3 DEF Init, NewQueue
<1>5. queue \in Queues
  BY <1>2, <1>4 DEF Queues
<1>6. Types
  BY <1>1, <1>2, <1>3, <1>5 DEF Types, TableTypes, MemoryTypes, ChainTypes, Faults, Init, Modes
<1>7. Counts
  <2>1. Len(ethOps) = 0 /\ params.commit = 0 /\ params.verify = 0 /\ params.withdraw = 0
        /\ params.nonce = 0 /\ commitOps = 0 /\ verifyOps = 0
    BY <1>2, <1>3 DEF Init
  <2>2. WithdrawRows(ethOps) = {}
    BY <2>1 DEF WithdrawRows
  <2>3. Cardinality(WithdrawRows(ethOps)) = 0
    BY <2>2, FS_EmptySet
  <2> QED BY <2>1, <2>3 DEF Counts, TableCounts, Enumerates, CommittedFirst
<1>8. Queued
  <2>1. commitOps = 0 /\ verifyOps = 0 /\ mode = "idle"
    BY DEF Init
  <2> QED BY <1>2, <1>3, <1>4, <2>1 DEF Queued, Continues
<1>9. Remembered /\ InOrder
  BY <1>2 DEF Remembered, InOrder, Init
<1>10. ConfirmedIsFinal
  BY DEF ConfirmedIsFinal, Init
<1> QED BY <1>6, <1>7, <1>8, <1>9, <1>10 DEF Inv

-----------------------------------------------------------------------------
(* The types *)

\* The transaction looked at.
LEMMA CurrentTyped ==
  ASSUME Types, Remembered, cursor <= Len(ongoing)
  PROVE  /\ cursor \in 1 .. Len(ongoing) /\ Len(ongoing) \in Nat
         /\ Current \in Entries /\ Len(Current.txs) \in Nat \ {0}
         /\ Last(Current.txs) \in Prices
<1>1. ongoing \in Seq(Entries) /\ Len(ongoing) \in Nat /\ cursor \in 1 .. Len(ongoing)
  BY LenProperties DEF Types, TableTypes, MemoryTypes
<1>2. Current \in Entries
  BY <1>1, ElementOfSeq DEF Current
<1>3. Current.txs \in Seq(Prices) /\ Current.txs # <<>>
  BY <1>1, <1>2 DEF Remembered, Agrees, Current, Entries
<1>4. Len(Current.txs) \in Nat \ {0}
  BY <1>3, EmptySeq
<1>5. Last(Current.txs) \in Prices
  BY <1>3, <1>4, ElementOfSeq DEF Last
<1> QED BY <1>1, <1>2, <1>4, <1>5

\* A transaction's prices grow by at most one, and are never none.
LEMMA RememberTyped ==
  ASSUME NEW txs \in Seq(Prices), NEW price \in Prices
  PROVE  /\ Remember(txs, price) \in Seq(Prices) /\ Remember(txs, price) # <<>>
         /\ Range(Remember(txs, price)) = Range(txs) \cup {price}
<1>1. CASE price \in Range(txs)
  <2>1. DOMAIN txs = 1 .. Len(txs) /\ Len(txs) \in Nat
    BY LenProperties
  <2>2. txs # <<>>
    BY <1>1, <2>1, EmptySeq DEF Range
  <2> QED BY <1>1, <2>2 DEF Remember
<1>2. CASE price \notin Range(txs)
  <2>1. /\ Append(txs, price) \in Seq(Prices) /\ Append(txs, price) # <<>>
        /\ Len(Append(txs, price)) = Len(txs) + 1 /\ Len(txs) \in Nat
        /\ \A i \in 1 .. Len(txs) : Append(txs, price)[i] = txs[i]
        /\ Append(txs, price)[Len(txs) + 1] = price
    BY AppendProperties, LenProperties
  <2>2. /\ DOMAIN txs = 1 .. Len(txs)
        /\ DOMAIN Append(txs, price) = 1 .. Len(txs) + 1
    BY <2>1, LenProperties
  <2>3. Range(Append(txs, price)) = Range(txs) \cup {price}
    BY <2>1, <2>2 DEF Range
  <2> QED BY <1>2, <2>1, <2>3 DEF Remember
<1> QED BY <1>1, <1>2

\* A stuck transaction is replaced at a price within the limit.
LEMMA RetryPricesTyped ==
  ASSUME NEW old \in Prices, NEW price \in RetryPrices(old)
  PROVE  price \in Prices /\ old <= price
<1>1. MaxPrice \in Nat \ {0}
  BY SenderAssumption
<1>2. PICK p \in old + 1 .. MaxPrice + 1 : price = IF p > MaxPrice THEN MaxPrice ELSE p
  BY DEF RetryPrices
<1> QED BY <1>1, <1>2 DEF Prices

\* What the restarting sender loads: the open rows, in the order of their ids.
LEMMA UnconfirmedRows ==
  ASSUME ethOps \in Seq(Rows)
  PROVE  /\ Cardinality(Open) \in Nat /\ IsFiniteSet(Open)
         /\ Unconfirmed \in Seq(Entries) /\ Len(Unconfirmed) = Cardinality(Open)
         /\ \A k \in 1 .. Len(Unconfirmed) :
               /\ Unconfirmed[k].row \in Open
               /\ Unconfirmed[k].op = ethOps[Unconfirmed[k].row].op
               /\ Unconfirmed[k].nonce = ethOps[Unconfirmed[k].row].nonce
               /\ Unconfirmed[k].txs = ethOps[Unconfirmed[k].row].txs
         /\ \A k, l \in 1 .. Len(Unconfirmed) : Unconfirmed[k].row = Unconfirmed[l].row => k = l
<1> DEFINE n == Cardinality(Open)
           f == Ascending(Open)
<1>1. Len(ethOps) \in Nat /\ DOMAIN ethOps = 1 .. Len(ethOps)
  BY LenProperties
<1>2. Open \in SUBSET Nat /\ IsFiniteSet(Open) /\ n \in Nat
  <2>1. Open \in SUBSET (1 .. Len(ethOps))
    BY DEF Open
  <2>2. IsFiniteSet(1 .. Len(ethOps))
    BY <1>1, FS_Interval
  <2>3. IsFiniteSet(Open)
    BY <2>1, <2>2, FS_Subset
  <2>4. Open \in SUBSET Nat
    BY <1>1, <2>1
  <2> QED BY <2>3, <2>4, FS_CardinalityType
<1>3. f \in [1 .. n -> Open] /\ IsAscending(f)
  <2>1. \E g \in [1 .. n -> Open] : IsAscending(g)
    BY <1>2, AscendingExists
  <2> QED BY <2>1 DEF Ascending, IsAscending
<1>4. {i \in DOMAIN ethOps : ~ ethOps[i].confirmed} = Open
  BY <1>1 DEF Open
<1> HIDE DEF f
<1>5. Unconfirmed = [k \in 1 .. n |-> [row |-> f[k], op |-> ethOps[f[k]].op,
                                        nonce |-> ethOps[f[k]].nonce, txs |-> ethOps[f[k]].txs]]
  BY <1>3, <1>4 DEF Unconfirmed, f
<1>6. \A k \in 1 .. n : f[k] \in Open /\ f[k] \in 1 .. Len(ethOps) /\ ethOps[f[k]] \in Rows
  BY <1>3, ElementOfSeq DEF Open
<1>7. \A k \in 1 .. n : Unconfirmed[k] \in Entries
  BY <1>1, <1>5, <1>6 DEF Rows, Entries
<1>8. Unconfirmed \in [1 .. n -> Entries]
  BY <1>5, <1>7
<1>9. Unconfirmed \in Seq(Entries)
  BY <1>2, <1>8, SeqDef
<1>10. Len(Unconfirmed) = n
  BY <1>2, <1>8, <1>9, LenProperties
<1>11. \A k, l \in 1 .. n : f[k] = f[l] => k = l
  <2>1. \A k \in 1 .. n : f[k] \in Int
    BY <1>6
  <2> QED BY <1>2, <1>3, <2>1 DEF IsAscending
<1> QED BY <1>2, <1>5, <1>6, <1>9, <1>10, <1>11

\* The operation sent last.
LEMMA LastTyped ==
  ASSUME NEW S, NEW s \in Seq(S), s # <<>>
  PROVE  Len(s) \in Nat \ {0} /\ Len(s) \in 1 .. Len(s) /\ Last(s) \in S
<1>1. Len(s) \in Nat \ {0}
  BY EmptySeq
<1>2. Len(s) \in 1 .. Len(s)
  BY <1>1
<1> QED BY <1>1, <1>2, ElementOfSeq DEF Last

\* get_eth_op_id finds one row, that of the nonce.
LEMMA OneRow ==
  ASSUME Types, Counts, NEW tx, RowsOf(tx) # {}
  PROVE  \E r \in 1 .. Len(ethOps) :
            /\ RowsOf(tx) = {r} /\ Min(RowsOf(tx)) = r /\ r = tx.nonce + 1
            /\ ethOps[r].op = tx.op /\ tx.price \in Range(ethOps[r].txs)
<1>1. DOMAIN ethOps = 1 .. Len(ethOps) /\ Len(ethOps) \in Nat
  BY LenProperties DEF Types, TableTypes
<1>2. PICK r \in RowsOf(tx) : TRUE
  OBVIOUS
<1>3. \A s \in RowsOf(tx) : /\ s \in 1 .. Len(ethOps) /\ ethOps[s].nonce = tx.nonce
                            /\ ethOps[s].op = tx.op /\ tx.price \in Range(ethOps[s].txs)
  BY <1>1 DEF RowsOf
<1>4. \A s \in 1 .. Len(ethOps) : ethOps[s].nonce = s - 1
  BY DEF Counts, TableCounts
<1>5. \A s \in RowsOf(tx) : s \in Int /\ s = tx.nonce + 1
  <2> TAKE s \in RowsOf(tx)
  <2>1. s \in Int /\ tx.nonce = s - 1
    BY <1>1, <1>3, <1>4
  <2> QED BY <2>1
<1>6. RowsOf(tx) = {r}
  BY <1>2, <1>5
<1>7. Min(RowsOf(tx)) = r
  BY <1>5, <1>6 DEF Min
<1> QED BY <1>2, <1>3, <1>5, <1>6, <1>7

\* A transaction that is replaced belongs to a row.
LEMMA ResentHasRow ==
  ASSUME Types, Remembered, mode = "resent"
  PROVE  /\ cursor \in 1 .. Len(ongoing) /\ Len(ongoing) \in Nat
         /\ Current.row \in 1 .. Len(ethOps)
         /\ Current.nonce = Current.row - 1 /\ Current.op = ethOps[Current.row].op
         /\ Last(Current.txs) \in Prices
<1>1. cursor <= Len(ongoing) /\ Current.row # 0
  BY DEF Remembered
<1>2. cursor \in 1 .. Len(ongoing) /\ Len(ongoing) \in Nat /\ Last(Current.txs) \in Prices
  BY <1>1, CurrentTyped
<1> QED BY <1>1, <1>2 DEF Remembered, Agrees, Current

\* The replacement of a stuck transaction pays a price within the limit.
LEMMA StuckTyped ==
  ASSUME Types, Remembered, IsStuck
  PROVE  /\ cursor \in 1 .. Len(ongoing) /\ Len(ongoing) \in Nat
         /\ Current \in Entries /\ Current.op \in Ops /\ Current.txs \in Seq(Prices)
         /\ CurrentTx.price = Last(Current.txs) /\ Last(Current.txs) \in Prices
         /\ \A price \in RetryPrices(CurrentTx.price) :
               price \in Prices /\ Last(Current.txs) <= price
<1>1. /\ cursor \in 1 .. Len(ongoing) /\ Len(ongoing) \in Nat /\ Current \in Entries
      /\ Last(Current.txs) \in Prices
  BY CurrentTyped DEF IsStuck, Checking
<1>2. CurrentTx.price = Last(Current.txs)
  BY DEF IsStuck, CurrentTx, Tx, Last
<1>3. Current.op \in Ops /\ Current.txs \in Seq(Prices)
  BY <1>1 DEF Entries
<1>4. \A price \in RetryPrices(CurrentTx.price) : price \in Prices /\ Last(Current.txs) <= price
  BY <1>1, <1>2, RetryPricesTyped
<1> QED BY <1>1, <1>2, <1>3, <1>4

\* What a transaction leaves of the contract.
LEMMA ExecuteTyped ==
  ASSUME Types, NEW tx \in Txs, tx.nonce = Len(mined)
  PROVE  /\ ContractAfter(tx.nonce) \in Contracts
         /\ Execute(ContractAfter(tx.nonce), tx) \in Contracts
<1> DEFINE c == ContractAfter(tx.nonce)
<1>1. mined \in Seq(Included) /\ Len(mined) \in Nat
  BY LenProperties DEF Types, ChainTypes
<1>2. c \in Contracts
  <2>1. CASE Len(mined) = 0
    BY <2>1 DEF ContractAfter, Contracts
  <2>2. CASE Len(mined) # 0
    <3>1. mined[Len(mined)] \in Included
      BY <1>1, <2>2, ElementOfSeq
    <3> QED BY <2>2, <3>1 DEF ContractAfter, Included
  <2> QED BY <2>1, <2>2
<1>3. tx.op.type \in {"Commit", "Verify", "Withdraw"} /\ (tx.op.type = "Withdraw" <=> tx.op = WithdrawOp)
  BY OpTypes DEF Txs
<1> HIDE DEF c
<1>4. c.committed + 1 \in Nat /\ c.verified + 1 \in Nat
  BY <1>2 DEF Contracts
<1>5. [c EXCEPT !.committed = @ + 1] \in Contracts /\ [c EXCEPT !.verified = @ + 1] \in Contracts
  BY <1>2, <1>4 DEF Contracts
<1>6. Execute(c, tx) \in Contracts
  BY <1>2, <1>3, <1>5 DEF Execute
<1> QED BY <1>2, <1>6 DEF c

\* A confirmation frees a slot and may bring a withdrawal.
LEMMA ConfirmedTyped ==
  ASSUME NEW q \in Queues, q.pending # 0, NEW op
  PROVE  /\ AfterConfirmation(q, op) \in Queues
         /\ \A p : Continues(q, p) => Continues(AfterConfirmation(q, op), p)
         /\ AfterConfirmation(q, op).pending = q.pending - 1
         /\ AfterConfirmation(q, op).withdrawCount = q.withdrawCount
         /\ AfterConfirmation(q, op).withdraws
               = IF op.type = "Verify" /\ op.block \in WithdrawalBlocks
                 THEN q.withdraws + 1 ELSE q.withdraws
<1> DEFINE r == Reported(q)
           w == AddWithdraw(r)
<1>1. q.pending - 1 \in Nat
  BY DEF Queues
<1>2. /\ r \in Queues /\ r.commits = q.commits /\ r.commitCount = q.commitCount
      /\ r.verifies = q.verifies /\ r.verifyNext = q.verifyNext
      /\ r.withdraws = q.withdraws /\ r.withdrawCount = q.withdrawCount
      /\ r.pending = q.pending - 1
  BY <1>1 DEF Reported, Queues
<1>3. r.withdraws + 1 \in Nat
  BY <1>2 DEF Queues
<1> HIDE DEF r
<1>4. /\ w \in Queues /\ w.commits = r.commits /\ w.commitCount = r.commitCount
      /\ w.verifies = r.verifies /\ w.verifyNext = r.verifyNext
      /\ w.withdraws = r.withdraws + 1 /\ w.withdrawCount = r.withdrawCount
      /\ w.pending = r.pending
  BY <1>2, <1>3 DEF AddWithdraw, Queues
<1> HIDE DEF w
<1>5. \A p : Continues(q, p) => Continues(r, p) /\ Continues(w, p)
  BY <1>2, <1>4 DEF Continues
<1>6. AfterConfirmation(q, op) = IF op.type = "Verify" /\ op.block \in WithdrawalBlocks THEN w ELSE r
  BY DEF AfterConfirmation, w, r
<1> QED BY <1>2, <1>4, <1>5, <1>6

LEMMA NewTyped ==
  ASSUME Types, NEW n \in Nat
  PROVE  NewQueue(n, params) \in Queues
<1>1. /\ params.commit \in Nat /\ params.verify + 1 \in Nat /\ params.withdraw \in Nat
      /\ <<>> \in Seq(Nat)
  BY EmptySeq DEF Types, TableTypes
<1> QED BY <1>1 DEF NewQueue, Queues

LEMMA TableTypesNext == Inv /\ Next => TableTypes'
<1> SUFFICES ASSUME Inv, Next
             PROVE  TableTypes'
  OBVIOUS
<1>1. Types /\ Counts /\ Queued /\ Remembered
  BY DEF Inv
<1>2. /\ commitOps \in 0 .. MaxBlocks /\ verifyOps \in 0 .. commitOps
      /\ ethOps \in Seq(Rows) /\ Len(ethOps) \in Nat
      /\ params \in [nonce : Nat, commit : Nat, verify : Nat, withdraw : Nat]
  BY <1>1, LenProperties DEF Types, TableTypes
<1>3. ASSUME UNCHANGED operations, UNCHANGED database
      PROVE  TableTypes'
  BY <1>2, <1>3 DEF TableTypes, operations, database
<1>4. CASE \/ LoadNewOperations \/ InitializeOperation \/ AllSent
           \/ FailureHandler \/ WaitForTransaction \/ CheckNextTransaction
           \/ \E nonce \in 0 .. params.nonce : SendSupplement(nonce, BOOLEAN)
           \/ EndOfRound
  BY <1>3, <1>4 DEF LoadNewOperations, InitializeOperation, AllSent, FailureHandler,
     WaitForTransaction, CheckNextTransaction, SendSupplement, EndOfRound
<1>5. CASE \/ LoadingFails \/ SaveNewOperationFails \/ SkipOperation
           \/ SupplementNotStored \/ SaveSupplementFails \/ Crash \/ Restart
  BY <1>3, <1>5 DEF LoadingFails, SaveNewOperationFails, SkipOperation, SupplementNotStored,
     SaveSupplementFails, Crash, Restart
<1>6. CASE (\E tx \in sent : Mine(tx)) \/ Deepen \/ Reorg
  BY <1>3, <1>6 DEF Mine, Deepen, Reorg
<1>7. CASE NewCommitOperation
  <2>1. MaxBlocks \in Nat
    BY SenderAssumption
  <2> QED BY <1>2, <1>7, <2>1 DEF NewCommitOperation, TableTypes, database
<1>8. CASE NewVerifyOperation
  <2>1. MaxBlocks \in Nat
    BY SenderAssumption
  <2> QED BY <1>2, <1>8, <2>1 DEF NewVerifyOperation, TableTypes, database
<1>9. CASE SaveNewOperation
  <2> DEFINE e == Last(ongoing)
             row == [op |-> e.op, nonce |-> e.nonce, txs |-> e.txs, confirmed |-> FALSE]
  <2>1. mode = "sent" /\ UNCHANGED operations /\ params' = Counted(e.op)
        /\ ethOps' = Append(ethOps, row)
    BY <1>9 DEF SaveNewOperation, Stored
  <2>2. ongoing # <<>>
    BY <1>1, <2>1 DEF Queued
  <2>3. e \in Entries
    BY <1>1, <2>2, LastTyped DEF Types, MemoryTypes
  <2>4. row \in Rows
    BY <2>3 DEF Rows, Entries
  <2>5. ethOps' \in Seq(Rows)
    BY <1>2, <2>1, <2>4, AppendProperties
  <2>6. params' \in [nonce : Nat, commit : Nat, verify : Nat, withdraw : Nat]
    BY <1>2, <2>1, CountedFields
  <2> QED BY <1>2, <2>1, <2>5, <2>6 DEF TableTypes, operations
<1>10. CASE ConfirmOperation
  <2>1. RowsOf(CurrentTx) # {} /\ UNCHANGED operations /\ UNCHANGED params
        /\ ethOps' = [ethOps EXCEPT ![Min(RowsOf(CurrentTx))].confirmed = TRUE]
    BY <1>10 DEF ConfirmOperation
  <2>2. PICK r \in 1 .. Len(ethOps) : RowsOf(CurrentTx) = {r} /\ Min(RowsOf(CurrentTx)) = r
    BY <1>1, <2>1, OneRow
  <2>3. ethOps' = [ethOps EXCEPT ![r] = [ethOps[r] EXCEPT !.confirmed = TRUE]]
    BY <2>1, <2>2
  <2>4. ethOps[r] \in Rows
    BY <1>2, <2>2, ElementOfSeq
  <2>5. [ethOps[r] EXCEPT !.confirmed = TRUE] \in Rows
    BY <2>4 DEF Rows
  <2>6. ethOps' \in Seq(Rows)
    BY <1>2, <2>2, <2>3, <2>5, ExceptSeq
  <2> QED BY <1>2, <2>1, <2>6 DEF TableTypes, operations
<1>11. CASE SaveSupplement
  <2> DEFINE i == Current.row
             row == [ethOps[i] EXCEPT !.txs = Remember(ethOps[i].txs, Last(Current.txs))]
  <2>1. mode = "resent" /\ UNCHANGED operations /\ UNCHANGED params
        /\ ethOps' = [ethOps EXCEPT ![i] = row]
    BY <1>11 DEF SaveSupplement
  <2>2. i \in 1 .. Len(ethOps) /\ Last(Current.txs) \in Prices
    BY <1>1, <2>1, ResentHasRow
  <2>3. ethOps[i] \in Rows
    BY <1>2, <2>2, ElementOfSeq
  <2>4. Remember(ethOps[i].txs, Last(Current.txs)) \in Seq(Prices)
    BY <2>2, <2>3, RememberTyped DEF Rows
  <2>5. row \in Rows
    BY <2>3, <2>4 DEF Rows
  <2>6. ethOps' \in Seq(Rows)
    BY <1>2, <2>1, <2>2, <2>5, ExceptSeq
  <2> QED BY <1>2, <2>1, <2>6 DEF TableTypes, operations
<1> QED BY <1>4, <1>5, <1>6, <1>7, <1>8, <1>9, <1>10, <1>11
        DEF Next, SenderStep, Failure, Environment

LEMMA FaultTypesNext == Inv /\ Next => faults' \in Faults
<1> SUFFICES ASSUME Inv, Next
             PROVE  faults' \in Faults
  OBVIOUS
<1>1. faults \in Faults
  BY DEF Inv, Types
<1>2. /\ faults.crashes \in 0 .. MaxCrashes /\ faults.reorgs \in Nat /\ faults.errors \in Nat
      /\ faults.lost \in 0 .. MaxLost /\ faults.raises \in Nat
      /\ MaxCrashes \in Nat /\ MaxLost \in Nat
  BY <1>1, SenderAssumption DEF Faults
<1>3. CASE UNCHANGED faults
  BY <1>1, <1>3
<1>4. ASSUME faults.lost > 0
      PROVE  [faults EXCEPT !.lost = @ - 1] \in Faults
  <2>1. faults.lost - 1 \in 0 .. MaxLost
    BY <1>2, <1>4
  <2> QED BY <1>1, <2>1 DEF Faults
<1>5. ASSUME faults.errors > 0
      PROVE  [faults EXCEPT !.errors = @ - 1] \in Faults
  <2>1. faults.errors - 1 \in Nat
    BY <1>2, <1>5
  <2> QED BY <1>1, <2>1 DEF Faults
<1>6. ASSUME faults.raises > 0
      PROVE  [faults EXCEPT !.raises = @ - 1] \in Faults
  <2>1. faults.raises - 1 \in Nat
    BY <1>2, <1>6
  <2> QED BY <1>1, <2>1 DEF Faults
<1>7. ASSUME faults.reorgs > 0
      PROVE  [faults EXCEPT !.reorgs = @ - 1] \in Faults
  <2>1. faults.reorgs - 1 \in Nat
    BY <1>2, <1>7
  <2> QED BY <1>1, <2>1 DEF Faults
<1>8. CASE \/ LoadNewOperations \/ InitializeOperation \/ SaveNewOperation \/ AllSent
           \/ ConfirmOperation \/ FailureHandler \/ WaitForTransaction
           \/ CheckNextTransaction \/ SaveSupplement \/ EndOfRound \/ LoadingFails \/ Restart
  BY <1>3, <1>8 DEF LoadNewOperations, InitializeOperation, SaveNewOperation, AllSent,
     ConfirmOperation, FailureHandler, WaitForTransaction, CheckNextTransaction,
     SaveSupplement, EndOfRound, LoadingFails, Restart
<1>9. CASE NewCommitOperation \/ NewVerifyOperation \/ (\E tx \in sent : Mine(tx)) \/ Deepen
  BY <1>3, <1>9 DEF NewCommitOperation, NewVerifyOperation, Mine, Deepen
<1>10. CASE SaveNewOperationFails
  BY <1>4, <1>10 DEF SaveNewOperationFails
<1>11. CASE SaveSupplementFails
  BY <1>3, <1>4, <1>11 DEF SaveSupplementFails
<1>12. CASE SkipOperation
  BY <1>3, <1>5, <1>12 DEF SkipOperation
<1>13. CASE SupplementNotStored
  BY <1>3, <1>5, <1>13 DEF SupplementNotStored
<1>14. CASE \E nonce \in 0 .. params.nonce : SendSupplement(nonce, BOOLEAN)
  BY <1>3, <1>6, <1>14 DEF SendSupplement, RaiseTo
<1>15. CASE Reorg
  BY <1>7, <1>15 DEF Reorg
<1>16. CASE Crash
  <2>1. /\ faults.crashes > 0 /\ (Losing => faults.lost > 0)
        /\ faults' = [faults EXCEPT !.crashes = @ - 1, !.lost = IF Losing THEN @ - 1 ELSE @]
    BY <1>16 DEF Crash
  <2>2. faults.crashes - 1 \in 0 .. MaxCrashes
        /\ (Losing => faults.lost - 1 \in 0 .. MaxLost)
    BY <1>2, <2>1
  <2> QED BY <1>1, <1>2, <2>1, <2>2 DEF Faults
<1> QED BY <1>8, <1>9, <1>10, <1>11, <1>12, <1>13, <1>14, <1>15, <1>16
        DEF Next, SenderStep, Failure, Environment

LEMMA ChainTypesNext == Inv /\ Next => ChainTypes'
<1> SUFFICES ASSUME Inv, Next
             PROVE  ChainTypes'
  OBVIOUS
<1>1. Types /\ Counts /\ Queued /\ Remembered
  BY DEF Inv
<1>2. /\ sent \subseteq Txs /\ mined \in Seq(Included)
      /\ deep \in 0 .. Len(mined) /\ Len(mined) \in Nat
  BY <1>1, LenProperties DEF Types, ChainTypes
<1>3. ASSUME UNCHANGED ethereum
      PROVE  ChainTypes'
  BY <1>2, <1>3 DEF ChainTypes, ethereum
<1>4. CASE \/ LoadNewOperations \/ SaveNewOperation \/ AllSent \/ ConfirmOperation
           \/ FailureHandler \/ WaitForTransaction \/ CheckNextTransaction
           \/ SaveSupplement \/ EndOfRound
  BY <1>3, <1>4 DEF LoadNewOperations, SaveNewOperation, AllSent, ConfirmOperation,
     FailureHandler, WaitForTransaction, CheckNextTransaction, SaveSupplement, EndOfRound
<1>5. CASE \/ LoadingFails \/ SaveNewOperationFails \/ SkipOperation
           \/ SupplementNotStored \/ SaveSupplementFails \/ Crash \/ Restart
           \/ NewCommitOperation \/ NewVerifyOperation
  BY <1>3, <1>5 DEF LoadingFails, SaveNewOperationFails, SkipOperation, SupplementNotStored,
     SaveSupplementFails, Crash, Restart, NewCommitOperation, NewVerifyOperation
<1>6. CASE InitializeOperation
  <2>1. PICK op \in NextOperation(queue), price \in Prices, arrives \in BOOLEAN :
          sent' = IF arrives THEN sent \cup {Tx(params.nonce, op, price)} ELSE sent
    BY <1>6 DEF InitializeOperation
  <2>2. MayBind(op)
    BY <1>1, <1>6, PoppedContinues DEF InitializeOperation, Queued, Types, MemoryTypes
  <2>3. op \in Ops /\ params.nonce \in Nat
    BY <1>1, <2>2, MayBindIsOp DEF Types, TableTypes
  <2>4. Tx(params.nonce, op, price) \in Txs
    BY <2>3 DEF Tx, Txs
  <2>5. UNCHANGED <<mined, deep>>
    BY <1>6 DEF InitializeOperation
  <2> QED BY <1>2, <2>1, <2>4, <2>5 DEF ChainTypes
<1>7. ASSUME NEW nonce \in 0 .. params.nonce, SendSupplement(nonce, BOOLEAN)
      PROVE  ChainTypes'
  <2>1. IsStuck /\ UNCHANGED <<mined, deep>>
    BY <1>7 DEF SendSupplement
  <2>2. PICK price \in RetryPrices(CurrentTx.price), arrives \in BOOLEAN :
          sent' = IF arrives THEN sent \cup {Tx(nonce, Current.op, price)} ELSE sent
    BY <1>7 DEF SendSupplement
  <2>3. price \in Prices /\ Current.op \in Ops
    BY <1>1, <2>1, <2>2, StuckTyped
  <2>4. nonce \in Nat
    BY <1>1, <1>7 DEF Types, TableTypes
  <2>5. Tx(nonce, Current.op, price) \in Txs
    BY <2>3, <2>4 DEF Tx, Txs
  <2> QED BY <1>2, <2>1, <2>2, <2>5 DEF ChainTypes
<1>8. ASSUME NEW tx \in sent, Mine(tx)
      PROVE  ChainTypes'
  <2> DEFINE m == [tx |-> tx, contract |-> Execute(ContractAfter(tx.nonce), tx)]
  <2>1. /\ tx.nonce = Len(mined) /\ mined' = Append(mined, m)
        /\ UNCHANGED sent /\ UNCHANGED deep
    BY <1>8 DEF Mine
  <2>2. tx \in Txs
    BY <1>2
  <2>3. m \in Included
    BY <1>1, <2>1, <2>2, ExecuteTyped DEF Included
  <2>4. mined' \in Seq(Included) /\ Len(mined') = Len(mined) + 1
    BY <1>2, <2>1, <2>3, AppendProperties
  <2>5. deep \in 0 .. Len(mined')
    BY <1>2, <2>4
  <2> QED BY <1>2, <2>1, <2>4, <2>5 DEF ChainTypes
<1>9. CASE Deepen
  <2>1. deep' = deep + 1 /\ deep < Len(mined) /\ UNCHANGED <<sent, mined>>
    BY <1>9 DEF Deepen
  <2>2. deep + 1 \in 0 .. Len(mined)
    BY <1>2, <2>1
  <2> QED BY <1>2, <2>1, <2>2 DEF ChainTypes
<1>10. CASE Reorg
  <2>1. PICK n \in deep .. Len(mined) - 1 : mined' = SubSeq(mined, 1, n)
    BY <1>10 DEF Reorg
  <2>2. n \in Nat /\ n <= Len(mined) /\ deep <= n
    BY <1>2, <2>1
  <2>3. \A k \in 1 .. n : mined[k] \in Included
    BY <1>2, <2>2, ElementOfSeq
  <2>4. mined' \in Seq(Included)
    BY <2>1, <2>2, <2>3, SubSeqProperties
  <2>5. Len(mined') = n
    BY <2>1, <2>2, <2>3, SubSeqProperties
  <2>6. deep \in 0 .. n
    BY <1>2, <2>2
  <2> QED BY <1>2, <1>10, <2>4, <2>5, <2>6 DEF Reorg, ChainTypes
<1> QED BY <1>4, <1>5, <1>6, <1>7, <1>8, <1>9, <1>10 DEF Next, SenderStep, Failure, Environment

LEMMA MemoryTypesNext == Inv /\ Next => MemoryTypes'
<1> SUFFICES ASSUME Inv, Next
             PROVE  MemoryTypes'
  OBVIOUS
<1>1. Types /\ Counts /\ Queued /\ Remembered
  BY DEF Inv
<1>2. /\ mode \in Modes /\ queue \in Queues /\ ongoing \in Seq(Entries)
      /\ cursor \in 1 .. Len(ongoing) + 1 /\ Len(ongoing) \in Nat
  BY <1>1, LenProperties DEF Types, MemoryTypes
<1>3. \A m \in {"idle", "sending", "sent", "checking", "resent", "down", "panicked"} : m \in Modes
  BY DEF Modes
<1>4. ASSUME UNCHANGED queue, UNCHANGED ongoing, cursor' \in 1 .. Len(ongoing) + 1, mode' \in Modes
      PROVE  MemoryTypes'
  BY <1>2, <1>4 DEF MemoryTypes
<1>5. CASE LoadNewOperations
  <2>1. mode # "sent" /\ UNCHANGED <<ongoing, cursor>> /\ mode' \in Modes
    BY <1>3, <1>5 DEF LoadNewOperations
  <2>2. Loaded(queue) \in Queues
    BY <1>1, <1>2, <2>1, LoadedContinues DEF Queued
  <2>3. queue' \in Queues
    BY <1>2, <1>5, <2>2 DEF LoadNewOperations
  <2> QED BY <1>2, <2>1, <2>3 DEF MemoryTypes
<1>6. CASE LoadingFails \/ AllSent \/ FailureHandler
  BY <1>2, <1>3, <1>4, <1>6 DEF LoadingFails, AllSent, FailureHandler, memory
<1>7. CASE InitializeOperation
  <2>1. PICK op \in NextOperation(queue), price \in Prices :
          /\ queue' = Popped(queue, op)
          /\ ongoing' = Append(ongoing, [row |-> 0, op |-> op, nonce |-> params.nonce,
                                         txs |-> <<price>>])
    BY <1>7 DEF InitializeOperation
  <2>2. mode # "sent" /\ mode' = "sent" /\ UNCHANGED cursor
    BY <1>7 DEF InitializeOperation
  <2>3. MayBind(op) /\ queue' \in Queues
    BY <1>1, <1>2, <2>1, <2>2, PoppedContinues DEF Queued
  <2>4. op \in Ops /\ params.nonce \in Nat
    BY <1>1, <2>3, MayBindIsOp DEF Types, TableTypes
  <2>5. <<price>> \in Seq(Prices)
    OBVIOUS
  <2>6. [row |-> 0, op |-> op, nonce |-> params.nonce, txs |-> <<price>>] \in Entries
    BY <2>4, <2>5 DEF Entries
  <2>7. ongoing' \in Seq(Entries) /\ Len(ongoing') = Len(ongoing) + 1
    BY <1>2, <2>1, <2>6, AppendProperties
  <2>8. cursor \in 1 .. Len(ongoing') + 1
    BY <1>2, <2>7
  <2> QED BY <1>3, <2>2, <2>3, <2>7, <2>8 DEF MemoryTypes
<1>8. CASE SaveNewOperation
  <2> DEFINE e == [Last(ongoing) EXCEPT !.row = Len(ethOps) + 1]
  <2>1. /\ mode = "sent" /\ mode' = "sending" /\ UNCHANGED <<queue, cursor>>
        /\ ongoing' = [ongoing EXCEPT ![Len(ongoing)] = e]
    BY <1>8 DEF SaveNewOperation, Last
  <2>2. ongoing # <<>>
    BY <1>1, <2>1 DEF Queued
  <2>3. Len(ongoing) \in 1 .. Len(ongoing) /\ Last(ongoing) \in Entries
    BY <1>2, <2>2, LastTyped
  <2>4. Len(ethOps) + 1 \in Nat
    BY <1>1, LenProperties DEF Types, TableTypes
  <2>5. e \in Entries
    BY <2>3, <2>4 DEF Entries
  <2>6. ongoing' \in Seq(Entries) /\ Len(ongoing') = Len(ongoing)
    BY <1>2, <2>1, <2>3, <2>5, ExceptSeq
  <2> QED BY <1>2, <1>3, <2>1, <2>6 DEF MemoryTypes
<1>9. CASE SaveNewOperationFails
  <2>1. /\ mode = "sent" /\ mode' = "sending" /\ queue' = Returned(queue, Last(ongoing).op)
        /\ UNCHANGED <<ongoing, cursor>>
    BY <1>9 DEF SaveNewOperationFails
  <2>2. queue' \in Queues
    BY <1>1, <1>2, <2>1, ReturnedContinues DEF Queued
  <2> QED BY <1>2, <1>3, <2>1, <2>2 DEF MemoryTypes
<1>10. CASE ConfirmOperation
  <2>1. Checking /\ UNCHANGED cursor
    BY <1>10 DEF ConfirmOperation
  <2>2. cursor \in 1 .. Len(ongoing)
    BY <1>2, <2>1 DEF Checking
  <2>3. ongoing' \in Seq(Entries) /\ Len(ongoing') = Len(ongoing) - 1
    BY <1>2, <1>10, <2>2, RemoveAtKeeps DEF ConfirmOperation
  <2>4. cursor \in 1 .. Len(ongoing') + 1
    BY <1>2, <2>2, <2>3
  <2>5. queue' \in Queues
    BY <1>2, <1>10, ConfirmedTyped DEF ConfirmOperation
  <2>6. mode' \in Modes
    BY <1>2, <1>3, <1>10 DEF ConfirmOperation
  <2> QED BY <2>1, <2>3, <2>4, <2>5, <2>6 DEF MemoryTypes
<1>11. CASE WaitForTransaction \/ SkipOperation
  <2>1. Checking /\ cursor' = cursor + 1 /\ UNCHANGED <<queue, ongoing, mode>>
    BY <1>11 DEF WaitForTransaction, SkipOperation, NextOngoing
  <2>2. cursor + 1 \in 1 .. Len(ongoing) + 1
    BY <1>2, <2>1 DEF Checking
  <2> QED BY <1>2, <1>4, <2>1, <2>2
<1>12. CASE CheckNextTransaction
  BY <1>2, <1>4, <1>12 DEF CheckNextTransaction
<1>13. ASSUME IsStuck,
              \E price \in RetryPrices(CurrentTx.price) :
                 ongoing' = [ongoing EXCEPT ![cursor].txs = Remember(@, price)]
       PROVE  /\ cursor \in 1 .. Len(ongoing)
              /\ ongoing' \in Seq(Entries) /\ Len(ongoing') = Len(ongoing)
  <2>1. PICK price \in RetryPrices(CurrentTx.price) :
          ongoing' = [ongoing EXCEPT ![cursor] =
                         [Current EXCEPT !.txs = Remember(Current.txs, price)]]
    BY <1>13 DEF Current
  <2>2. /\ price \in Prices /\ cursor \in 1 .. Len(ongoing) /\ Current \in Entries
        /\ Current.txs \in Seq(Prices)
    BY <1>1, <1>13, <2>1, StuckTyped
  <2>3. Remember(Current.txs, price) \in Seq(Prices)
    BY <2>2, RememberTyped
  <2>4. [Current EXCEPT !.txs = Remember(Current.txs, price)] \in Entries
    BY <2>2, <2>3 DEF Entries
  <2> QED BY <1>2, <2>1, <2>2, <2>4, ExceptSeq
<1>14. ASSUME NEW nonce \in 0 .. params.nonce, SendSupplement(nonce, BOOLEAN)
       PROVE  MemoryTypes'
  <2>1. /\ IsStuck /\ mode' = "resent" /\ UNCHANGED <<queue, cursor>>
        /\ \E price \in RetryPrices(CurrentTx.price) :
              ongoing' = [ongoing EXCEPT ![cursor].txs = Remember(@, price)]
    BY <1>14 DEF SendSupplement
  <2>2. ongoing' \in Seq(Entries) /\ Len(ongoing') = Len(ongoing)
    BY <1>13, <2>1
  <2> QED BY <1>2, <1>3, <2>1, <2>2 DEF MemoryTypes
<1>15. CASE SupplementNotStored
  <2>1. /\ IsStuck /\ cursor' = cursor + 1 /\ UNCHANGED <<queue, mode>>
        /\ \E price \in RetryPrices(CurrentTx.price) :
              ongoing' = [ongoing EXCEPT ![cursor].txs = Remember(@, price)]
    BY <1>15 DEF SupplementNotStored, NextOngoing
  <2>2. cursor \in 1 .. Len(ongoing) /\ ongoing' \in Seq(Entries) /\ Len(ongoing') = Len(ongoing)
    BY <1>13, <2>1
  <2>3. cursor + 1 \in 1 .. Len(ongoing) + 1
    BY <1>2, <2>2
  <2> QED BY <1>2, <2>1, <2>2, <2>3 DEF MemoryTypes
<1>16. CASE SaveSupplement \/ SaveSupplementFails
  <2>1. /\ mode = "resent" /\ mode' = "checking" /\ cursor' = cursor + 1
        /\ UNCHANGED <<queue, ongoing>>
    BY <1>16 DEF SaveSupplement, SaveSupplementFails, NextOngoing
  <2>2. cursor + 1 \in 1 .. Len(ongoing) + 1
    BY <1>1, <1>2, <2>1 DEF Remembered
  <2> QED BY <1>3, <1>4, <2>1, <2>2
<1>17. CASE EndOfRound
  <2>1. 1 \in 1 .. Len(ongoing) + 1
    BY <1>2
  <2> QED BY <1>3, <1>4, <1>17, <2>1 DEF EndOfRound
<1>18. CASE Crash
  <2>1. NewQueue(0, params) \in Queues
    BY <1>1, NewTyped
  <2>2. <<>> \in Seq(Entries) /\ Len(<<>>) = 0
    BY EmptySeq
  <2> QED BY <1>3, <1>18, <2>1, <2>2 DEF Crash, MemoryTypes
<1>19. CASE Restart
  <2> DEFINE built == NewQueue(Len(Unconfirmed), params)
  <2>1. Unconfirmed \in Seq(Entries) /\ Len(Unconfirmed) \in Nat
    BY <1>1, UnconfirmedRows DEF Types, TableTypes
  <2>2. built \in Queues
    BY <1>1, <2>1, NewTyped
  <2>3. Continues(built, params)
    BY <1>1, NewContinues
  <2>4. Loaded(built) \in Queues
    BY <1>1, <2>2, <2>3, LoadedContinues
  <2>5. queue' \in Queues /\ mode' \in Modes
    BY <1>3, <1>19, <2>2, <2>4 DEF Restart
  <2>6. ongoing' = Unconfirmed /\ cursor' = 1
    BY <1>19 DEF Restart
  <2> QED BY <2>1, <2>5, <2>6 DEF MemoryTypes
<1>20. CASE NewCommitOperation \/ NewVerifyOperation \/ (\E tx \in sent : Mine(tx)) \/ Deepen
            \/ Reorg
  BY <1>2, <1>4, <1>20 DEF NewCommitOperation, NewVerifyOperation, Mine, Deepen, Reorg, memory
<1> QED BY <1>5, <1>6, <1>7, <1>8, <1>9, <1>10, <1>11, <1>12, <1>14, <1>15, <1>16, <1>17, <1>18,
        <1>19, <1>20 DEF Next, SenderStep, Failure, Environment

-----------------------------------------------------------------------------
(* The parameters count the rows *)

\* What is counted is read from the operations of the rows.
LEMMA SameOperations ==
  ASSUME NEW r, NEW s, Len(s) = Len(r), Len(r) \in Nat,
         \A i \in 1 .. Len(r) : s[i].op = r[i].op
  PROVE  /\ \A type, last : Enumerates(r, type, last) => Enumerates(s, type, last)
         /\ CommittedFirst(r) => CommittedFirst(s)
         /\ WithdrawRows(s) = WithdrawRows(r)
<1>1. ASSUME NEW type, NEW last, Enumerates(r, type, last)
      PROVE  Enumerates(s, type, last)
  BY <1>1 DEF Enumerates
<1>2. CommittedFirst(r) => CommittedFirst(s)
  BY DEF CommittedFirst
<1>3. WithdrawRows(s) = WithdrawRows(r)
  BY DEF WithdrawRows
<1> QED BY <1>1, <1>2, <1>3

\* A row of another type leaves the enumeration, the next block extends it.
LEMMA EnumeratesAppend ==
  ASSUME NEW rows \in Seq(Rows), NEW row \in Rows, NEW type, NEW last \in Nat,
         Enumerates(rows, type, last)
  PROVE  /\ row.op.type # type => Enumerates(Append(rows, row), type, last)
         /\ row.op = Op(type, last + 1) => Enumerates(Append(rows, row), type, last + 1)
<1> DEFINE s == Append(rows, row)
           n == Len(rows)
<1>1. /\ n \in Nat /\ Len(s) = n + 1 /\ s[n + 1] = row
      /\ \A i \in 1 .. n : s[i] = rows[i]
  BY AppendProperties, LenProperties
<1> HIDE DEF s
<1>2. /\ \A i \in 1 .. n : rows[i].op.type = type => rows[i].op.block \in 1 .. last
      /\ \A b \in 1 .. last : \E i \in 1 .. n : rows[i].op = Op(type, b)
      /\ \A i, j \in 1 .. n :
            i < j /\ rows[i].op.type = type /\ rows[j].op.type = type
                => rows[i].op.block < rows[j].op.block
  BY DEF Enumerates
<1>3. ASSUME NEW i \in 1 .. n + 1
      PROVE  i \in 1 .. n \/ i = n + 1
  BY <1>1
<1>4. ASSUME row.op.type # type
      PROVE  Enumerates(s, type, last)
  <2>1. \A i \in 1 .. n + 1 : s[i].op.type = type => i \in 1 .. n
    BY <1>1, <1>3, <1>4
  <2>2. \A i \in 1 .. n + 1 : s[i].op.type = type => s[i].op.block \in 1 .. last
    BY <1>1, <1>2, <2>1
  <2>3. \A b \in 1 .. last : \E i \in 1 .. n + 1 : s[i].op = Op(type, b)
    <3>1. \A i \in 1 .. n : i \in 1 .. n + 1
      BY <1>1
    <3> QED BY <1>1, <1>2, <3>1
  <2>4. \A i, j \in 1 .. n + 1 :
            i < j /\ s[i].op.type = type /\ s[j].op.type = type
                => s[i].op.block < s[j].op.block
    BY <1>1, <1>2, <2>1
  <2> QED BY <1>1, <2>2, <2>3, <2>4 DEF Enumerates
<1>5. ASSUME row.op = Op(type, last + 1)
      PROVE  Enumerates(s, type, last + 1)
  <2>0. row.op.type = type /\ row.op.block = last + 1
    BY <1>5, OpFields
  <2>1. ASSUME NEW i \in 1 .. n + 1, s[i].op.type = type
        PROVE  /\ s[i].op.block \in 1 .. last + 1
               /\ i \in 1 .. n => s[i].op.block \in 1 .. last
    <3>1. CASE i \in 1 .. n
      BY <1>1, <1>2, <2>1, <3>1
    <3>2. CASE i = n + 1
      BY <1>1, <2>0, <3>2
    <3> QED BY <1>3, <3>1, <3>2
  <2>2. ASSUME NEW b \in 1 .. last + 1
        PROVE  \E i \in 1 .. n + 1 : s[i].op = Op(type, b)
    <3>1. CASE b = last + 1
      <4>1. n + 1 \in 1 .. n + 1 /\ s[n + 1].op = Op(type, b)
        BY <1>1, <1>5, <3>1
      <4> QED BY <4>1
    <3>2. CASE b # last + 1
      <4>1. b \in 1 .. last
        BY <3>2
      <4>2. PICK i \in 1 .. n : rows[i].op = Op(type, b)
        BY <1>2, <4>1
      <4>3. i \in 1 .. n + 1 /\ s[i].op = Op(type, b)
        BY <1>1, <4>2
      <4> QED BY <4>3
    <3> QED BY <3>1, <3>2
  <2>3. ASSUME NEW i \in 1 .. n + 1, NEW j \in 1 .. n + 1, i < j,
               s[i].op.type = type, s[j].op.type = type
        PROVE  s[i].op.block < s[j].op.block
    <3>1. i \in 1 .. n /\ s[i] = rows[i] /\ s[i].op.block \in 1 .. last
      BY <1>1, <2>1, <2>3
    <3>2. CASE j = n + 1
      BY <1>1, <2>0, <3>1, <3>2
    <3>3. CASE j # n + 1
      <4>1. j \in 1 .. n /\ s[j] = rows[j]
        BY <1>1, <3>3
      <4> QED BY <1>2, <2>3, <3>1, <4>1
    <3> QED BY <3>2, <3>3
  <2> QED BY <1>1, <2>1, <2>2, <2>3 DEF Enumerates
<1> QED BY <1>4, <1>5 DEF s

\* The withdrawals of the table, and of the table with another row.
LEMMA WithdrawRowsAppend ==
  ASSUME NEW rows \in Seq(Rows), NEW row \in Rows
  PROVE  /\ IsFiniteSet(WithdrawRows(rows)) /\ Cardinality(WithdrawRows(rows)) \in Nat
         /\ Cardinality(WithdrawRows(Append(rows, row)))
               = IF row.op = WithdrawOp THEN Cardinality(WithdrawRows(rows)) + 1
                 ELSE Cardinality(WithdrawRows(rows))
<1> DEFINE s == Append(rows, row)
           n == Len(rows)
<1>1. /\ n \in Nat /\ Len(s) = n + 1 /\ s[n + 1] = row
      /\ \A i \in 1 .. n : s[i] = rows[i]
  BY AppendProperties, LenProperties
<1>2. IsFiniteSet(WithdrawRows(rows)) /\ Cardinality(WithdrawRows(rows)) \in Nat
  <2>1. WithdrawRows(rows) \in SUBSET (1 .. n)
    BY DEF WithdrawRows
  <2>2. IsFiniteSet(1 .. n)
    BY <1>1, FS_Interval
  <2>3. IsFiniteSet(WithdrawRows(rows))
    BY <2>1, <2>2, FS_Subset
  <2> QED BY <2>3, FS_CardinalityType
<1> HIDE DEF s
<1>3. \A i : i \in 1 .. n + 1 <=> i \in 1 .. n \/ i = n + 1
  BY <1>1
<1>4. CASE row.op = WithdrawOp
  <2>1. WithdrawRows(s) = WithdrawRows(rows) \cup {n + 1}
    BY <1>1, <1>3, <1>4 DEF WithdrawRows
  <2>2. n + 1 \notin WithdrawRows(rows)
    BY <1>1 DEF WithdrawRows
  <2>3. Cardinality(WithdrawRows(s)) = Cardinality(WithdrawRows(rows)) + 1
    BY <1>2, <2>1, <2>2, FS_AddElement
  <2> QED BY <1>2, <1>4, <2>3 DEF s
<1>5. CASE row.op # WithdrawOp
  <2>1. WithdrawRows(s) = WithdrawRows(rows)
    BY <1>1, <1>3, <1>5 DEF WithdrawRows
  <2> QED BY <1>2, <1>5, <2>1 DEF s
<1> QED BY <1>4, <1>5

\* The parameters stay what the rows say when only hashes and confirmations change.
LEMMA SameCounts ==
  ASSUME Types, Counts, UNCHANGED params, Len(ethOps') = Len(ethOps),
         \A i \in 1 .. Len(ethOps) : /\ ethOps'[i].op = ethOps[i].op
                                     /\ ethOps'[i].nonce = ethOps[i].nonce
                                     /\ ethOps'[i].txs # <<>>,
         params.commit <= commitOps', params.verify <= verifyOps'
  PROVE  Counts'
<1>1. Len(ethOps) \in Nat
  BY LenProperties DEF Types, TableTypes
<1>2. /\ Enumerates(ethOps', "Commit", params.commit)
      /\ Enumerates(ethOps', "Verify", params.verify)
      /\ CommittedFirst(ethOps') /\ WithdrawRows(ethOps') = WithdrawRows(ethOps)
  <2>1. /\ \A type, last : Enumerates(ethOps, type, last) => Enumerates(ethOps', type, last)
        /\ CommittedFirst(ethOps) => CommittedFirst(ethOps')
        /\ WithdrawRows(ethOps') = WithdrawRows(ethOps)
    BY <1>1, SameOperations
  <2> QED BY <2>1 DEF Counts, TableCounts
<1>3. params' = params
  OBVIOUS
<1>4. \A i \in 1 .. Len(ethOps') : ethOps'[i].nonce = i - 1 /\ ethOps'[i].txs # <<>>
  BY DEF Counts, TableCounts
<1>5. params.nonce = Len(ethOps')
  BY DEF Counts, TableCounts
<1>6. /\ Cardinality(WithdrawRows(ethOps')) = params.withdraw
      /\ params.withdraw <= params.verify /\ params.verify <= params.commit
  BY <1>2 DEF Counts, TableCounts
<1> QED BY <1>2, <1>3, <1>4, <1>5, <1>6 DEF Counts, TableCounts

\* save_new_eth_tx, get_next_nonce and report_created_operation keep them
\* in step.
LEMMA StoredCounts ==
  ASSUME Inv, mode = "sent"
  PROVE  TableCounts(Stored(Last(ongoing)), Counted(Last(ongoing).op))
<1> DEFINE rows == Stored(Last(ongoing))
           p == Counted(Last(ongoing).op)
<1> DEFINE e == Last(ongoing)
           row == [op |-> e.op, nonce |-> e.nonce, txs |-> e.txs, confirmed |-> FALSE]
           n == Len(ethOps)
<1>1. Types /\ Counts /\ Queued /\ Remembered
  BY DEF Inv
<1>2. p = Counted(e.op) /\ rows = Append(ethOps, row)
  BY DEF Stored
<1>3. ongoing # <<>> /\ e.nonce = params.nonce /\ MayBind(e.op)
  BY <1>1, <1>2 DEF Queued
<1>4. e \in Entries /\ e.txs # <<>>
  <2>1. ongoing \in Seq(Entries)
    BY <1>1 DEF Types, MemoryTypes
  <2>2. e \in Entries /\ Len(ongoing) \in 1 .. Len(ongoing)
    BY <1>3, <2>1, LastTyped
  <2> QED BY <1>1, <2>2 DEF Remembered, Agrees, Last
<1> SUFFICES TableCounts(rows, p)
  OBVIOUS
<1> HIDE DEF e, rows, p
<1>5. /\ row \in Rows /\ row.op = e.op /\ row.nonce = params.nonce /\ row.txs # <<>>
  BY <1>3, <1>4 DEF Rows, Entries
<1> HIDE DEF row
<1>6. /\ ethOps \in Seq(Rows) /\ n \in Nat
      /\ params.commit \in Nat /\ params.verify \in Nat /\ params.withdraw \in Nat
      /\ commitOps \in Nat /\ verifyOps \in Nat
      /\ params \in [nonce : Nat, commit : Nat, verify : Nat, withdraw : Nat]
  BY <1>1, LenProperties DEF Types, TableTypes
<1>7. /\ Len(rows) = n + 1 /\ rows[n + 1] = row
      /\ \A i \in 1 .. n : rows[i] = ethOps[i]
  BY <1>2, <1>5, <1>6, AppendProperties
<1>8. /\ p.nonce = params.nonce + 1
      /\ p.commit = IF e.op.type = "Commit" THEN params.commit + 1 ELSE params.commit
      /\ p.verify = IF e.op.type = "Verify" THEN params.verify + 1 ELSE params.verify
      /\ p.withdraw = IF e.op.type = "Withdraw" THEN params.withdraw + 1 ELSE params.withdraw
  BY <1>2, <1>6, CountedFields
<1>9. /\ params.nonce = n
      /\ Enumerates(ethOps, "Commit", params.commit) /\ params.commit <= commitOps
      /\ Enumerates(ethOps, "Verify", params.verify) /\ params.verify <= verifyOps
      /\ Cardinality(WithdrawRows(ethOps)) = params.withdraw
      /\ params.withdraw <= params.verify /\ params.verify <= params.commit
      /\ CommittedFirst(ethOps)
      /\ \A i \in 1 .. n : ethOps[i].nonce = i - 1 /\ ethOps[i].txs # <<>>
  BY <1>1 DEF Counts, TableCounts
<1>10. p.nonce = Len(rows)
  BY <1>7, <1>8, <1>9
<1>11. \A i \in 1 .. Len(rows) : rows[i].nonce = i - 1 /\ rows[i].txs # <<>>
  <2>1. ASSUME NEW i \in 1 .. n + 1
        PROVE  rows[i].nonce = i - 1 /\ rows[i].txs # <<>>
    <3>1. CASE i \in 1 .. n
      BY <1>7, <1>9, <3>1
    <3>2. CASE i = n + 1
      BY <1>5, <1>6, <1>7, <1>9, <3>2
    <3> QED BY <1>6, <3>1, <3>2
  <2> QED BY <1>7, <2>1
<1>12. /\ e.op.type # "Commit" => Enumerates(rows, "Commit", params.commit)
       /\ e.op = Op("Commit", params.commit + 1)
             => Enumerates(rows, "Commit", params.commit + 1)
  BY <1>2, <1>5, <1>6, <1>9, EnumeratesAppend
<1>13. /\ e.op.type # "Verify" => Enumerates(rows, "Verify", params.verify)
       /\ e.op = Op("Verify", params.verify + 1)
             => Enumerates(rows, "Verify", params.verify + 1)
  BY <1>2, <1>5, <1>6, <1>9, EnumeratesAppend
<1>14. Cardinality(WithdrawRows(rows))
          = IF e.op = WithdrawOp THEN params.withdraw + 1 ELSE params.withdraw
  BY <1>2, <1>5, <1>6, <1>9, WithdrawRowsAppend
<1>15. /\ WithdrawOp.type = "Withdraw"
       /\ \A b : /\ Op("Commit", b).type = "Commit" /\ Op("Verify", b).type = "Verify"
                 /\ Op("Commit", b) # WithdrawOp /\ Op("Verify", b) # WithdrawOp
  BY OpFields DEF WithdrawOp
<1>16. CASE e.op = Op("Commit", params.commit + 1) /\ params.commit < commitOps
  <2>1. /\ p.commit = params.commit + 1 /\ p.verify = params.verify
        /\ p.withdraw = params.withdraw
    BY <1>8, <1>15, <1>16
  <2>2. CommittedFirst(rows)
    <3>1. ASSUME NEW i \in 1 .. n + 1, rows[i].op.type = "Verify"
          PROVE  \E j \in 1 .. i - 1 : rows[j].op = Op("Commit", rows[i].op.block)
      <4>1. i # n + 1
        BY <1>5, <1>7, <1>15, <1>16, <3>1
      <4>2. i \in 1 .. n /\ rows[i] = ethOps[i]
        BY <1>6, <1>7, <4>1
      <4>3. PICK j \in 1 .. i - 1 : ethOps[j].op = Op("Commit", ethOps[i].op.block)
        BY <1>9, <3>1, <4>2 DEF CommittedFirst
      <4>4. rows[j] = ethOps[j]
        BY <1>6, <1>7, <4>2
      <4> QED BY <4>2, <4>3, <4>4
    <3> QED BY <1>7, <3>1 DEF CommittedFirst
  <2>3. Enumerates(rows, "Commit", p.commit)
    BY <1>2, <1>6, <1>12, <1>16, <2>1
  <2>4. Enumerates(rows, "Verify", p.verify)
    BY <1>2, <1>9, <1>13, <1>15, <1>16, <2>1
  <2>5. /\ Cardinality(WithdrawRows(rows)) = p.withdraw
        /\ p.withdraw <= p.verify /\ p.verify <= p.commit
    BY <1>6, <1>9, <1>14, <1>15, <1>16, <2>1
  <2> QED BY <1>10, <1>11, <2>2, <2>3, <2>4, <2>5 DEF TableCounts
<1>17. CASE /\ e.op = Op("Verify", params.verify + 1)
            /\ params.verify < params.commit /\ params.verify < verifyOps
  <2>1. /\ p.commit = params.commit /\ p.verify = params.verify + 1
        /\ p.withdraw = params.withdraw
    BY <1>8, <1>15, <1>17
  <2>2. CommittedFirst(rows)
    <3>1. ASSUME NEW i \in 1 .. n + 1, rows[i].op.type = "Verify"
          PROVE  \E j \in 1 .. i - 1 : rows[j].op = Op("Commit", rows[i].op.block)
      <4>1. CASE i = n + 1
        <5>1. rows[i].op.block = params.verify + 1 /\ params.verify + 1 \in 1 .. params.commit
          BY <1>5, <1>6, <1>7, <1>17, <4>1, OpFields
        <5>2. PICK j \in 1 .. n : ethOps[j].op = Op("Commit", params.verify + 1)
          BY <1>9, <5>1 DEF Enumerates
        <5>3. j \in 1 .. i - 1 /\ rows[j] = ethOps[j]
          BY <1>6, <1>7, <4>1
        <5> QED BY <5>1, <5>2, <5>3
      <4>2. CASE i # n + 1
        <5>1. i \in 1 .. n /\ rows[i] = ethOps[i]
          BY <1>6, <1>7, <4>2
        <5>2. PICK j \in 1 .. i - 1 : ethOps[j].op = Op("Commit", ethOps[i].op.block)
          BY <1>9, <3>1, <5>1 DEF CommittedFirst
        <5>3. rows[j] = ethOps[j]
          BY <1>6, <1>7, <5>1
        <5> QED BY <5>1, <5>2, <5>3
      <4> QED BY <4>1, <4>2
    <3> QED BY <1>7, <3>1 DEF CommittedFirst
  <2>3. Enumerates(rows, "Commit", p.commit)
    BY <1>2, <1>9, <1>12, <1>15, <1>17, <2>1
  <2>4. Enumerates(rows, "Verify", p.verify)
    BY <1>2, <1>6, <1>13, <1>17, <2>1
  <2>5. /\ Cardinality(WithdrawRows(rows)) = p.withdraw
        /\ p.withdraw <= p.verify /\ p.verify <= p.commit
    BY <1>6, <1>9, <1>14, <1>15, <1>17, <2>1
  <2> QED BY <1>10, <1>11, <2>2, <2>3, <2>4, <2>5 DEF TableCounts
<1>18. CASE e.op = WithdrawOp /\ params.withdraw < params.verify
  <2>1. /\ p.commit = params.commit /\ p.verify = params.verify
        /\ p.withdraw = params.withdraw + 1
    BY <1>8, <1>15, <1>18
  <2>2. CommittedFirst(rows)
    <3>1. ASSUME NEW i \in 1 .. n + 1, rows[i].op.type = "Verify"
          PROVE  \E j \in 1 .. i - 1 : rows[j].op = Op("Commit", rows[i].op.block)
      <4>1. i # n + 1
        BY <1>5, <1>7, <1>15, <1>18, <3>1
      <4>2. i \in 1 .. n /\ rows[i] = ethOps[i]
        BY <1>6, <1>7, <4>1
      <4>3. PICK j \in 1 .. i - 1 : ethOps[j].op = Op("Commit", ethOps[i].op.block)
        BY <1>9, <3>1, <4>2 DEF CommittedFirst
      <4>4. rows[j] = ethOps[j]
        BY <1>6, <1>7, <4>2
      <4> QED BY <4>2, <4>3, <4>4
    <3> QED BY <1>7, <3>1 DEF CommittedFirst
  <2>3. Enumerates(rows, "Commit", p.commit)
    BY <1>2, <1>9, <1>12, <1>15, <1>18, <2>1
  <2>4. Enumerates(rows, "Verify", p.verify)
    BY <1>2, <1>9, <1>13, <1>15, <1>18, <2>1
  <2>5. /\ Cardinality(WithdrawRows(rows)) = p.withdraw
        /\ p.withdraw <= p.verify /\ p.verify <= p.commit
    BY <1>6, <1>9, <1>14, <1>15, <1>18, <2>1
  <2> QED BY <1>10, <1>11, <2>2, <2>3, <2>4, <2>5 DEF TableCounts
<1> QED BY <1>3, <1>16, <1>17, <1>18 DEF MayBind

LEMMA SaveCounts == Inv /\ SaveNewOperation => Counts'
<1> SUFFICES ASSUME Inv, SaveNewOperation
             PROVE  Counts'
  OBVIOUS
<1> DEFINE op == Last(ongoing).op
<1>1. /\ mode = "sent" /\ params' = Counted(op) /\ ethOps' = Stored(Last(ongoing))
      /\ commitOps' = commitOps /\ verifyOps' = verifyOps
  BY DEF SaveNewOperation, operations
<1>2. TableCounts(ethOps', params')
  BY <1>1, StoredCounts
<1>3. params'.commit <= commitOps /\ params'.verify <= verifyOps
  <2>1. Types /\ Counts /\ MayBind(op)
    BY <1>1 DEF Inv, Queued
  <2>2. /\ params'.commit = IF op.type = "Commit" THEN params.commit + 1 ELSE params.commit
        /\ params'.verify = IF op.type = "Verify" THEN params.verify + 1 ELSE params.verify
    BY <1>1, <2>1, CountedFields DEF Types, TableTypes
  <2>3. /\ params.commit \in Nat /\ params.commit <= commitOps /\ commitOps \in Nat
        /\ params.verify \in Nat /\ params.verify <= verifyOps /\ verifyOps \in Nat
    BY <2>1 DEF Types, TableTypes, Counts, TableCounts
  <2>4. /\ op.type = "Commit" => params.commit < commitOps
        /\ op.type = "Verify" => params.verify < verifyOps
    BY <2>1, OpFields DEF MayBind, WithdrawOp
  <2> QED BY <2>2, <2>3, <2>4
<1> QED BY <1>1, <1>2, <1>3 DEF Counts, TableCounts


\* confirm_operation marks the row of the transaction, and no other.
LEMMA ConfirmMarksRow ==
  ASSUME Types, Counts, ConfirmOperation
  PROVE  \E r \in 1 .. Len(ethOps) :
            /\ RowsOf(CurrentTx) = {r} /\ r = CurrentTx.nonce + 1
            /\ ethOps[r].op = CurrentTx.op /\ CurrentTx.price \in Range(ethOps[r].txs)
            /\ Len(ethOps') = Len(ethOps)
            /\ \A i \in 1 .. Len(ethOps) :
                  /\ ethOps'[i].op = ethOps[i].op /\ ethOps'[i].nonce = ethOps[i].nonce
                  /\ ethOps'[i].txs = ethOps[i].txs
                  /\ ethOps'[i].confirmed = IF i = r THEN TRUE ELSE ethOps[i].confirmed
<1>1. RowsOf(CurrentTx) # {}
      /\ ethOps' = [ethOps EXCEPT ![Min(RowsOf(CurrentTx))].confirmed = TRUE]
  BY DEF ConfirmOperation
<1>2. PICK r \in 1 .. Len(ethOps) :
         /\ RowsOf(CurrentTx) = {r} /\ Min(RowsOf(CurrentTx)) = r /\ r = CurrentTx.nonce + 1
         /\ ethOps[r].op = CurrentTx.op /\ CurrentTx.price \in Range(ethOps[r].txs)
  BY <1>1, OneRow
<1>3. ethOps \in Seq(Rows) /\ \A i \in 1 .. Len(ethOps) : ethOps[i] \in Rows
  BY ElementOfSeq DEF Types, TableTypes
<1> DEFINE row == [ethOps[r] EXCEPT !.confirmed = TRUE]
<1>4. ethOps' = [ethOps EXCEPT ![r] = row]
  BY <1>1, <1>2
<1>5. /\ row \in Rows /\ row.op = ethOps[r].op /\ row.nonce = ethOps[r].nonce
      /\ row.txs = ethOps[r].txs /\ row.confirmed = TRUE
  BY <1>2, <1>3 DEF Rows
<1> HIDE DEF row
<1>6. /\ Len(ethOps') = Len(ethOps)
      /\ \A i \in 1 .. Len(ethOps) : ethOps'[i] = IF i = r THEN row ELSE ethOps[i]
  BY <1>2, <1>3, <1>4, <1>5, ExceptSeq
<1>7. ASSUME NEW i \in 1 .. Len(ethOps)
      PROVE  /\ ethOps'[i].op = ethOps[i].op /\ ethOps'[i].nonce = ethOps[i].nonce
             /\ ethOps'[i].txs = ethOps[i].txs
             /\ ethOps'[i].confirmed = IF i = r THEN TRUE ELSE ethOps[i].confirmed
  BY <1>5, <1>6
<1> QED BY <1>2, <1>6, <1>7

\* add_hash_entry gives the row another hash, and changes no other.
LEMMA SupplementKeepsRows ==
  ASSUME Types, Remembered, SaveSupplement
  PROVE  /\ Current.row \in 1 .. Len(ethOps) /\ Len(ethOps') = Len(ethOps)
         /\ \A i \in 1 .. Len(ethOps) :
               /\ ethOps'[i].op = ethOps[i].op /\ ethOps'[i].nonce = ethOps[i].nonce
               /\ ethOps'[i].confirmed = ethOps[i].confirmed
               /\ ethOps'[i].txs = IF i = Current.row
                                   THEN Remember(ethOps[i].txs, Last(Current.txs))
                                   ELSE ethOps[i].txs
<1> DEFINE r == Current.row
           row == [ethOps[r] EXCEPT !.txs = Remember(ethOps[r].txs, Last(Current.txs))]
<1>1. mode = "resent" /\ ethOps' = [ethOps EXCEPT ![r] = row]
  BY DEF SaveSupplement
<1>2. r \in 1 .. Len(ethOps) /\ Last(Current.txs) \in Prices
  BY <1>1, ResentHasRow
<1>3. ethOps \in Seq(Rows) /\ \A i \in 1 .. Len(ethOps) : ethOps[i] \in Rows
  BY ElementOfSeq DEF Types, TableTypes
<1>4. Remember(ethOps[r].txs, Last(Current.txs)) \in Seq(Prices)
  BY <1>2, <1>3, RememberTyped DEF Rows
<1>5. /\ row \in Rows /\ row.op = ethOps[r].op /\ row.nonce = ethOps[r].nonce
      /\ row.txs = Remember(ethOps[r].txs, Last(Current.txs))
      /\ row.confirmed = ethOps[r].confirmed
  BY <1>2, <1>3, <1>4 DEF Rows
<1> HIDE DEF row
<1>6. /\ Len(ethOps') = Len(ethOps)
      /\ \A i \in 1 .. Len(ethOps) : ethOps'[i] = IF i = r THEN row ELSE ethOps[i]
  BY <1>1, <1>2, <1>3, <1>5, ExceptSeq
<1> QED BY <1>2, <1>5, <1>6

LEMMA CountsNext == Inv /\ Next => Counts'
<1> SUFFICES ASSUME Inv, Next
             PROVE  Counts'
  OBVIOUS
<1>1. Types /\ Counts /\ Remembered
  BY DEF Inv
<1>2. /\ commitOps \in Nat /\ verifyOps \in Nat /\ params.commit \in Nat
      /\ params.verify \in Nat /\ ethOps \in Seq(Rows)
      /\ params.commit <= commitOps /\ params.verify <= verifyOps
  BY <1>1 DEF Types, TableTypes, Counts, TableCounts
<1>3. ASSUME UNCHANGED database, params.commit <= commitOps', params.verify <= verifyOps'
      PROVE  Counts'
  <2>1. Len(ethOps') = Len(ethOps) /\ UNCHANGED params
    BY <1>3 DEF database
  <2>2. \A i \in 1 .. Len(ethOps) : /\ ethOps'[i].op = ethOps[i].op
                                    /\ ethOps'[i].nonce = ethOps[i].nonce
                                    /\ ethOps'[i].txs # <<>>
    BY <1>1, <1>3 DEF database, Counts, TableCounts
  <2> QED BY <1>1, <1>3, <2>1, <2>2, SameCounts
<1>4. ASSUME UNCHANGED operations, UNCHANGED database
      PROVE  Counts'
  BY <1>2, <1>3, <1>4 DEF operations
<1>5. CASE \/ LoadNewOperations \/ InitializeOperation \/ AllSent
           \/ FailureHandler \/ WaitForTransaction \/ CheckNextTransaction
           \/ \E nonce \in 0 .. params.nonce : SendSupplement(nonce, BOOLEAN)
           \/ EndOfRound
  BY <1>4, <1>5 DEF LoadNewOperations, InitializeOperation, AllSent, FailureHandler,
     WaitForTransaction, CheckNextTransaction, SendSupplement, EndOfRound
<1>6. CASE \/ LoadingFails \/ SaveNewOperationFails \/ SkipOperation
           \/ SupplementNotStored \/ SaveSupplementFails \/ Crash \/ Restart
  BY <1>4, <1>6 DEF LoadingFails, SaveNewOperationFails, SkipOperation, SupplementNotStored,
     SaveSupplementFails, Crash, Restart
<1>7. CASE (\E tx \in sent : Mine(tx)) \/ Deepen \/ Reorg
  BY <1>4, <1>7 DEF Mine, Deepen, Reorg
<1>8. CASE NewCommitOperation
  <2>1. UNCHANGED database /\ commitOps' = commitOps + 1 /\ verifyOps' = verifyOps
    BY <1>8 DEF NewCommitOperation
  <2> QED BY <1>2, <1>3, <2>1
<1>9. CASE NewVerifyOperation
  <2>1. UNCHANGED database /\ commitOps' = commitOps /\ verifyOps' = verifyOps + 1
    BY <1>9 DEF NewVerifyOperation
  <2> QED BY <1>2, <1>3, <2>1
<1>10. CASE SaveNewOperation
  BY <1>10, SaveCounts
<1>11. CASE ConfirmOperation
  <2>1. UNCHANGED params /\ UNCHANGED operations
    BY <1>11 DEF ConfirmOperation
  <2>2. /\ Len(ethOps') = Len(ethOps)
        /\ \A i \in 1 .. Len(ethOps) :
              /\ ethOps'[i].op = ethOps[i].op /\ ethOps'[i].nonce = ethOps[i].nonce
              /\ ethOps'[i].txs = ethOps[i].txs
    BY <1>1, <1>11, ConfirmMarksRow
  <2>3. \A i \in 1 .. Len(ethOps) : ethOps'[i].txs # <<>>
    BY <1>1, <2>2 DEF Counts, TableCounts
  <2> QED BY <1>1, <1>2, <2>1, <2>2, <2>3, SameCounts DEF operations
<1>12. CASE SaveSupplement
  <2>1. mode = "resent" /\ UNCHANGED params /\ UNCHANGED operations
    BY <1>12 DEF SaveSupplement
  <2>2. /\ Len(ethOps') = Len(ethOps)
        /\ \A i \in 1 .. Len(ethOps) :
              /\ ethOps'[i].op = ethOps[i].op /\ ethOps'[i].nonce = ethOps[i].nonce
              /\ ethOps'[i].txs = IF i = Current.row
                                  THEN Remember(ethOps[i].txs, Last(Current.txs))
                                  ELSE ethOps[i].txs
    BY <1>1, <1>12, SupplementKeepsRows
  <2>3. ASSUME NEW i \in 1 .. Len(ethOps)
        PROVE  ethOps'[i].txs # <<>>
    <3>1. ethOps[i].txs \in Seq(Prices) /\ ethOps[i].txs # <<>>
      <4>1. ethOps[i] \in Rows
        BY <1>2, ElementOfSeq
      <4> QED BY <1>1, <4>1 DEF Counts, TableCounts, Rows
    <3>2. Last(Current.txs) \in Prices
      BY <1>1, <2>1, ResentHasRow
    <3>3. Remember(ethOps[i].txs, Last(Current.txs)) # <<>>
      BY <3>1, <3>2, RememberTyped
    <3> QED BY <2>2, <3>1, <3>3
  <2> QED BY <1>1, <1>2, <2>1, <2>2, <2>3, SameCounts DEF operations
<1> QED BY <1>5, <1>6, <1>7, <1>8, <1>9, <1>10, <1>11, <1>12
        DEF Next, SenderStep, Failure, Environment

-----------------------------------------------------------------------------
(* The queue fits the table *)

LEMMA QueuedNext == Inv /\ Next => Queued'
<1> SUFFICES ASSUME Inv, Next
             PROVE  Queued'
  OBVIOUS
<1>1. Types /\ Counts /\ Queued /\ Remembered
  BY DEF Inv
<1>2. /\ queue \in Queues /\ ongoing \in Seq(Entries)
      /\ commitOps \in Nat /\ verifyOps \in Nat
      /\ params \in [nonce : Nat, commit : Nat, verify : Nat, withdraw : Nat]
  BY <1>1 DEF Types, TableTypes, MemoryTypes
<1>3. ASSUME UNCHANGED <<mode, queue, ongoing, params>>,
             commitOps' \in Nat, commitOps <= commitOps',
             verifyOps' \in Nat, verifyOps <= verifyOps'
      PROVE  Queued'
  <2>2. CASE mode # "sent"
    <3>1. Continues(queue, params)
      BY <1>1, <2>2 DEF Queued
    <3>2. Continues(queue, params)'
      <4>1. params.commit + Len(queue.commits) <= commitOps
            /\ queue.verifies \subseteq (params.verify + 1) .. verifyOps
        BY <3>1 DEF Continues
      <4>2. Len(queue.commits) \in Nat
        BY <1>2, LenProperties DEF Queues
      <4>3. params.commit + Len(queue.commits) <= commitOps'
        BY <1>2, <1>3, <4>1, <4>2
      <4>4. queue.verifies \subseteq (params.verify + 1) .. verifyOps'
        BY <1>2, <1>3, <4>1
      <4> QED BY <1>3, <3>1, <4>3, <4>4 DEF Continues
    <3> QED BY <1>3, <2>2, <3>2 DEF Queued
  <2>3. CASE mode = "sent"
    <3> DEFINE c == Counted(Last(ongoing).op)
    <3>1. /\ ongoing # <<>> /\ Last(ongoing).row = 0 /\ Last(ongoing).nonce = params.nonce
          /\ MayBind(Last(ongoing).op) /\ Continues(queue, c) /\ queue.pending > 0
      BY <1>1, <2>3 DEF Queued
    <3>2. c.commit \in Nat /\ c \in [nonce : Nat, commit : Nat, verify : Nat, withdraw : Nat]
      BY <1>2, CountedFields
    <3>3. Last(ongoing)' = Last(ongoing) /\ c' = c
      BY <1>3 DEF Last, Counted
    <3> HIDE DEF c
    <3>4. Continues(queue, c)'
      <4>1. c.commit + Len(queue.commits) <= commitOps
            /\ queue.verifies \subseteq (c.verify + 1) .. verifyOps
        BY <3>1 DEF Continues
      <4>2. Len(queue.commits) \in Nat
        BY <1>2, LenProperties DEF Queues
      <4>3. c.commit + Len(queue.commits) <= commitOps'
        BY <1>2, <1>3, <3>2, <4>1, <4>2, SMTT(20)
      <4>4. queue.verifies \subseteq (c.verify + 1) .. verifyOps'
        BY <1>2, <1>3, <3>2, <4>1, SMTT(20)
      <4> QED BY <1>3, <3>1, <3>3, <4>3, <4>4 DEF Continues
    <3>5. MayBind(Last(ongoing).op)'
      <4>1. params' = params /\ ongoing' = ongoing
        BY <1>3
      <4>2. Last(ongoing').op = Last(ongoing).op
        BY <4>1
      <4> DEFINE op == Last(ongoing).op
      <4>3. \/ op = Op("Commit", params.commit + 1) /\ params.commit < commitOps
            \/ /\ op = Op("Verify", params.verify + 1)
               /\ params.verify < params.commit /\ params.verify < verifyOps
            \/ op = WithdrawOp /\ params.withdraw < params.verify
        BY <3>1 DEF MayBind
      <4> HIDE DEF op
      <4>4. \/ op = Op("Commit", params.commit + 1) /\ params.commit < commitOps'
            \/ /\ op = Op("Verify", params.verify + 1)
               /\ params.verify < params.commit /\ params.verify < verifyOps'
            \/ op = WithdrawOp /\ params.withdraw < params.verify
        BY <1>2, <1>3, <4>3
      <4> QED BY <4>1, <4>2, <4>4 DEF MayBind, op
    <3>6. mode' = mode /\ ongoing' = ongoing /\ queue' = queue /\ params' = params
      BY <1>3
    <3>7. Continues(queue, Counted(Last(ongoing).op))'
      BY <3>4 DEF c
    <3>8. /\ ongoing' # <<>> /\ queue'.pending > 0
          /\ Last(ongoing)'.row = 0 /\ Last(ongoing)'.nonce = params'.nonce
      BY <3>1, <3>3, <3>6
    <3> QED BY <2>3, <3>5, <3>6, <3>7, <3>8 DEF Queued
  <2> QED BY <2>2, <2>3
<1>4. ASSUME mode' # "sent", Continues(queue', params), UNCHANGED <<operations, params>>
      PROVE  Queued'
  BY <1>4 DEF Queued, Continues, operations
<1>5. ASSUME mode # "sent", mode' # "sent", UNCHANGED <<queue, operations, params>>
      PROVE  Queued'
  BY <1>1, <1>4, <1>5 DEF Queued
<1>6. CASE LoadNewOperations
  <2>1. /\ mode # "sent" /\ mode' # "sent" /\ UNCHANGED <<operations, params>>
        /\ queue' = IF LoadPanics(queue) THEN queue ELSE Loaded(queue)
    BY <1>6 DEF LoadNewOperations, database
  <2>2. Continues(queue, params)
    BY <1>1, <2>1 DEF Queued
  <2>3. Continues(queue', params)
    BY <1>1, <1>2, <2>1, <2>2, LoadedContinues
  <2> QED BY <1>4, <2>1, <2>3
<1>7. CASE LoadingFails \/ AllSent \/ FailureHandler \/ WaitForTransaction \/ SkipOperation
           \/ CheckNextTransaction \/ EndOfRound
  BY <1>5, <1>7 DEF LoadingFails, AllSent, FailureHandler, WaitForTransaction, SkipOperation,
     CheckNextTransaction, EndOfRound, Checking, memory, database
<1>8. CASE SupplementNotStored \/ SaveSupplement \/ SaveSupplementFails
           \/ \E nonce \in 0 .. params.nonce : SendSupplement(nonce, BOOLEAN)
  BY <1>5, <1>8 DEF SupplementNotStored, SaveSupplement, SaveSupplementFails, SendSupplement,
     IsStuck, Checking, database
<1>9. CASE InitializeOperation
  <2>1. PICK op \in NextOperation(queue), price \in Prices :
          /\ queue' = Popped(queue, op)
          /\ ongoing' = Append(ongoing, [row |-> 0, op |-> op, nonce |-> params.nonce,
                                         txs |-> <<price>>])
    BY <1>9 DEF InitializeOperation
  <2> DEFINE e == [row |-> 0, op |-> op, nonce |-> params.nonce, txs |-> <<price>>]
  <2>2. /\ mode = "sending" /\ mode' = "sent" /\ params' = params
        /\ commitOps' = commitOps /\ verifyOps' = verifyOps
    BY <1>9 DEF InitializeOperation, database, operations
  <2>3. Continues(queue, params)
    BY <1>1, <2>2 DEF Queued
  <2>4. /\ MayBind(op) /\ Continues(queue', Counted(op))
        /\ queue'.pending = queue.pending + 1
    BY <1>1, <1>2, <2>1, <2>3, PoppedContinues
  <2>5. queue'.pending > 0
    BY <1>2, <2>4 DEF Queues
  <2>6. ongoing' # <<>> /\ Last(ongoing') = e
    <3>1. /\ ongoing' = Append(ongoing, e) /\ Len(ongoing) \in Nat
          /\ ongoing \in Seq(Entries \cup {e})
      <4>1. Len(ongoing) \in Nat /\ ongoing \in [1 .. Len(ongoing) -> Entries]
        BY <1>2, LenProperties
      <4>2. ongoing \in [1 .. Len(ongoing) -> Entries \cup {e}]
        BY <4>1
      <4> QED BY <2>1, <4>1, <4>2, SeqDef
    <3> QED BY <3>1, AppendProperties DEF Last
  <2>7. e.row = 0 /\ e.nonce = params.nonce /\ e.op = op
    OBVIOUS
  <2> HIDE DEF e
  <2>8. MayBind(op)'
    BY <2>2, <2>4 DEF MayBind
  <2>9. Continues(queue, Counted(op))'
    <3>1. Counted(op)' = Counted(op)
      BY <2>2 DEF Counted
    <3> QED BY <2>2, <2>4, <3>1 DEF Continues
  <2> QED BY <2>2, <2>5, <2>6, <2>7, <2>8, <2>9 DEF Queued
<1>10. CASE SaveNewOperation
  <2>1. /\ mode = "sent" /\ mode' # "sent" /\ params' = Counted(Last(ongoing).op)
        /\ UNCHANGED <<operations, queue>>
    BY <1>10 DEF SaveNewOperation
  <2>2. Continues(queue, params')
    BY <1>1, <2>1 DEF Queued
  <2> QED BY <2>1, <2>2 DEF Queued, Continues, operations
<1>11. CASE SaveNewOperationFails
  <2>1. /\ mode = "sent" /\ mode' # "sent" /\ queue' = Returned(queue, Last(ongoing).op)
        /\ UNCHANGED <<operations, params>>
    BY <1>11 DEF SaveNewOperationFails, database
  <2>2. Continues(queue', params)
    BY <1>1, <1>2, <2>1, ReturnedContinues DEF Queued
  <2> QED BY <1>4, <2>1, <2>2
<1>12. CASE ConfirmOperation
  <2>1. /\ mode # "sent" /\ mode' # "sent" /\ UNCHANGED <<operations, params>>
        /\ queue' = IF queue.pending = 0 THEN queue ELSE AfterConfirmation(queue, Current.op)
    BY <1>12 DEF ConfirmOperation, Checking
  <2>2. Continues(queue, params)
    BY <1>1, <2>1 DEF Queued
  <2>3. queue.pending # 0 => Continues(AfterConfirmation(queue, Current.op), params)
    BY <1>2, <2>2, ConfirmedTyped
  <2>4. Continues(queue', params)
    BY <2>1, <2>2, <2>3
  <2> QED BY <1>4, <2>1, <2>4
<1>13. CASE Crash
  <2>1. /\ mode' # "sent" /\ UNCHANGED <<operations, params>> /\ queue' = NewQueue(0, params)
    BY <1>13 DEF Crash, database
  <2>2. Continues(queue', params)
    BY <1>1, <2>1, NewContinues
  <2> QED BY <1>4, <2>1, <2>2
<1>14. CASE Restart
  <2> DEFINE built == NewQueue(Len(Unconfirmed), params)
  <2>1. /\ mode' # "sent" /\ UNCHANGED <<operations, params>>
        /\ queue' = IF LoadPanics(built) THEN built ELSE Loaded(built)
    BY <1>14 DEF Restart, database
  <2>2. Len(Unconfirmed) \in Nat
    BY <1>1, UnconfirmedRows DEF Types, TableTypes
  <2>3. built \in Queues /\ Continues(built, params)
    BY <1>1, <2>2, NewTyped, NewContinues
  <2>4. Continues(queue', params)
    BY <1>1, <2>1, <2>3, LoadedContinues
  <2> QED BY <1>4, <2>1, <2>4
<1>15. CASE (\E tx \in sent : Mine(tx)) \/ Deepen \/ Reorg
  <2>1. UNCHANGED <<operations, params, mode, queue, ongoing>>
    BY <1>15 DEF Mine, Deepen, Reorg, database, memory
  <2> QED BY <1>2, <1>3, <2>1 DEF operations
<1>16. CASE NewCommitOperation \/ NewVerifyOperation
  <2>1. /\ UNCHANGED <<params, mode, queue, ongoing>>
        /\ \/ commitOps' = commitOps + 1 /\ verifyOps' = verifyOps
           \/ commitOps' = commitOps /\ verifyOps' = verifyOps + 1
    BY <1>16 DEF NewCommitOperation, NewVerifyOperation, database, memory
  <2> QED BY <1>2, <1>3, <2>1
<1> QED BY <1>6, <1>7, <1>8, <1>9, <1>10, <1>11, <1>12, <1>13, <1>14, <1>15, <1>16
        DEF Next, SenderStep, Failure, Environment

-----------------------------------------------------------------------------
(* Rows only grow *)

\* No step changes the operation or the nonce of a row, takes a hash from it or
\* takes its confirmation back.
RowsKept ==
    /\ Len(ethOps) <= Len(ethOps')
    /\ \A i \in 1 .. Len(ethOps) :
          /\ ethOps'[i].op = ethOps[i].op /\ ethOps'[i].nonce = ethOps[i].nonce
          /\ Range(ethOps[i].txs) \subseteq Range(ethOps'[i].txs)
          /\ ethOps[i].confirmed => ethOps'[i].confirmed

LEMMA RowsKeptNext == Inv /\ Next => RowsKept
<1> SUFFICES ASSUME Inv, Next
             PROVE  RowsKept
  OBVIOUS
<1>1. Types /\ Counts /\ Remembered
  BY DEF Inv
<1>2. ethOps \in Seq(Rows) /\ Len(ethOps) \in Nat /\ \A i \in 1 .. Len(ethOps) : ethOps[i] \in Rows
  BY <1>1, LenProperties, ElementOfSeq DEF Types, TableTypes
<1>3. ASSUME UNCHANGED ethOps
      PROVE  RowsKept
  BY <1>2, <1>3 DEF RowsKept
<1>4. CASE \/ LoadNewOperations \/ InitializeOperation \/ AllSent
           \/ FailureHandler \/ WaitForTransaction \/ CheckNextTransaction
           \/ \E nonce \in 0 .. params.nonce : SendSupplement(nonce, BOOLEAN)
           \/ EndOfRound
  BY <1>3, <1>4 DEF LoadNewOperations, InitializeOperation, AllSent, FailureHandler,
     WaitForTransaction, CheckNextTransaction, SendSupplement, EndOfRound, database
<1>5. CASE \/ LoadingFails \/ SaveNewOperationFails \/ SkipOperation
           \/ SupplementNotStored \/ SaveSupplementFails \/ Crash \/ Restart
  BY <1>3, <1>5 DEF LoadingFails, SaveNewOperationFails, SkipOperation, SupplementNotStored,
     SaveSupplementFails, Crash, Restart, database
<1>6. CASE (\E tx \in sent : Mine(tx)) \/ Deepen \/ Reorg
           \/ NewCommitOperation \/ NewVerifyOperation
  BY <1>3, <1>6 DEF Mine, Deepen, Reorg, NewCommitOperation, NewVerifyOperation, database
<1>7. CASE SaveNewOperation
  <2> DEFINE e == Last(ongoing)
             row == [op |-> e.op, nonce |-> e.nonce, txs |-> e.txs, confirmed |-> FALSE]
  <2>1. mode = "sent" /\ ethOps' = Append(ethOps, row)
    BY <1>7 DEF SaveNewOperation, Stored
  <2>2. row \in Rows
    <3>1. ongoing # <<>> /\ ongoing \in Seq(Entries)
      BY <1>1, <2>1 DEF Inv, Queued, Types, MemoryTypes
    <3>2. e \in Entries
      BY <3>1, LastTyped
    <3> QED BY <3>2 DEF Rows, Entries
  <2>3. /\ Len(ethOps') = Len(ethOps) + 1
        /\ \A i \in 1 .. Len(ethOps) : ethOps'[i] = ethOps[i]
    BY <1>2, <2>1, <2>2, AppendProperties
  <2> QED BY <1>2, <2>3 DEF RowsKept
<1>8. CASE ConfirmOperation
  <2>1. /\ Len(ethOps') = Len(ethOps)
        /\ \A i \in 1 .. Len(ethOps) :
              /\ ethOps'[i].op = ethOps[i].op /\ ethOps'[i].nonce = ethOps[i].nonce
              /\ ethOps'[i].txs = ethOps[i].txs
              /\ ethOps[i].confirmed => ethOps'[i].confirmed
    BY <1>1, <1>8, ConfirmMarksRow
  <2> QED BY <1>2, <2>1 DEF RowsKept
<1>9. CASE SaveSupplement
  <2>1. /\ Len(ethOps') = Len(ethOps)
        /\ \A i \in 1 .. Len(ethOps) :
              /\ ethOps'[i].op = ethOps[i].op /\ ethOps'[i].nonce = ethOps[i].nonce
              /\ ethOps'[i].confirmed = ethOps[i].confirmed
              /\ ethOps'[i].txs = IF i = Current.row
                                  THEN Remember(ethOps[i].txs, Last(Current.txs))
                                  ELSE ethOps[i].txs
    BY <1>1, <1>9, SupplementKeepsRows
  <2>2. Last(Current.txs) \in Prices
    BY <1>1, <1>9, ResentHasRow DEF SaveSupplement
  <2>3. ASSUME NEW i \in 1 .. Len(ethOps)
        PROVE  Range(ethOps[i].txs) \subseteq Range(ethOps'[i].txs)
    <3>1. ethOps[i].txs \in Seq(Prices)
      BY <1>2 DEF Rows
    <3>2. Range(Remember(ethOps[i].txs, Last(Current.txs)))
             = Range(ethOps[i].txs) \cup {Last(Current.txs)}
      BY <2>2, <3>1, RememberTyped
    <3> QED BY <2>1, <3>2
  <2> QED BY <1>2, <2>1, <2>3 DEF RowsKept
<1> QED BY <1>4, <1>5, <1>6, <1>7, <1>8, <1>9 DEF Next, SenderStep, Failure, Environment

-----------------------------------------------------------------------------
(* The operations in memory agree with their rows *)

LEMMA RememberedNext == Inv /\ Next => Remembered'
<1> SUFFICES ASSUME Inv, Next
             PROVE  Remembered'
  OBVIOUS
<1>1. Types /\ Counts /\ Queued /\ Remembered /\ RowsKept
  BY RowsKeptNext DEF Inv
<1>2. /\ ongoing \in Seq(Entries) /\ Len(ongoing) \in Nat
      /\ ethOps \in Seq(Rows) /\ Len(ethOps) \in Nat
  BY <1>1, LenProperties DEF Types, TableTypes, MemoryTypes
<1>3. ethOps' \in Seq(Rows) /\ Len(ethOps') \in Nat
  BY TableTypesNext, LenProperties DEF TableTypes
<1>4. \A k \in 1 .. Len(ongoing) :
         Agrees(ongoing[k], ethOps) /\ Agrees(ongoing[k], ethOps')
  <2> TAKE k \in 1 .. Len(ongoing)
  <2>1. Agrees(ongoing[k], ethOps)
    BY <1>1 DEF Remembered
  <2>2. Agrees(ongoing[k], ethOps')
    BY <1>1, <1>2, <1>3, <2>1 DEF Agrees, RowsKept
  <2> QED BY <2>1, <2>2
<1>5. ASSUME UNCHANGED ongoing, mode' # "resent"
      PROVE  Remembered'
  BY <1>4, <1>5 DEF Remembered
<1>6. CASE LoadNewOperations \/ LoadingFails \/ AllSent \/ FailureHandler
           \/ WaitForTransaction \/ SkipOperation \/ CheckNextTransaction \/ EndOfRound
  BY <1>5, <1>6 DEF LoadNewOperations, LoadingFails, AllSent, FailureHandler,
     WaitForTransaction, SkipOperation, CheckNextTransaction, EndOfRound, Checking, memory
<1>7. CASE SaveNewOperationFails \/ SaveSupplement \/ SaveSupplementFails
  BY <1>5, <1>7 DEF SaveNewOperationFails, SaveSupplement, SaveSupplementFails
<1>8. CASE InitializeOperation
  <2>1. PICK op \in NextOperation(queue), price \in Prices :
          ongoing' = Append(ongoing, [row |-> 0, op |-> op, nonce |-> params.nonce,
                                      txs |-> <<price>>])
    BY <1>8 DEF InitializeOperation
  <2> DEFINE e == [row |-> 0, op |-> op, nonce |-> params.nonce, txs |-> <<price>>]
  <2>2. e.row = 0 /\ e.txs # <<>>
    OBVIOUS
  <2>3. IsSeq(ongoing)
    <3>1. Len(ongoing) \in Nat /\ ongoing \in [1 .. Len(ongoing) -> Entries]
      BY <1>2, LenProperties
    <3> QED BY <3>1, FunctionIsSeq
  <2>4. ongoing' = Append(ongoing, e)
    BY <2>1
  <2> HIDE DEF e
  <2>5. /\ Len(ongoing') = Len(ongoing) + 1 /\ ongoing'[Len(ongoing) + 1] = e
        /\ \A k \in 1 .. Len(ongoing) : ongoing'[k] = ongoing[k]
    BY <2>3, <2>4, AppendKeeps
  <2>6. Agrees(e, ethOps')
    BY <2>2 DEF Agrees
  <2>7. ASSUME NEW k \in 1 .. Len(ongoing')
        PROVE  Agrees(ongoing'[k], ethOps')
    <3>1. CASE k = Len(ongoing) + 1
      BY <2>5, <2>6, <3>1
    <3>2. CASE k # Len(ongoing) + 1
      <4>1. k \in 1 .. Len(ongoing)
        BY <1>2, <2>5, <3>2
      <4> QED BY <1>4, <2>5, <4>1
    <3> QED BY <3>1, <3>2
  <2>8. mode' = "sent"
    BY <1>8 DEF InitializeOperation
  <2> QED BY <2>7, <2>8 DEF Remembered
<1>9. CASE SaveNewOperation
  <2> DEFINE n == Len(ongoing)
             r == Len(ethOps) + 1
             e == [Last(ongoing) EXCEPT !.row = r]
             row == [op |-> Last(ongoing).op, nonce |-> Last(ongoing).nonce,
                     txs |-> Last(ongoing).txs, confirmed |-> FALSE]
  <2>1. /\ mode = "sent" /\ mode' = "sending"
        /\ ongoing' = [ongoing EXCEPT ![n] = e] /\ ethOps' = Append(ethOps, row)
    BY <1>9 DEF SaveNewOperation, Stored, Last
  <2>2. ongoing # <<>> /\ Last(ongoing).nonce = params.nonce
    BY <1>1, <2>1 DEF Queued
  <2>3. n \in 1 .. n /\ Last(ongoing) \in Entries /\ r \in Nat
    BY <1>2, <2>2, LastTyped
  <2>4. /\ e \in Entries /\ e.row = r /\ e.nonce = Last(ongoing).nonce
        /\ e.op = Last(ongoing).op /\ e.txs = Last(ongoing).txs
    BY <2>3 DEF Entries
  <2>5. row \in Rows /\ row.op = Last(ongoing).op
    BY <2>3 DEF Rows, Entries
  <2> HIDE DEF e, row
  <2>6. Len(ethOps') = Len(ethOps) + 1 /\ ethOps'[r] = row
    BY <1>2, <2>1, <2>5, AppendProperties
  <2>7. params.nonce = Len(ethOps)
    BY <1>1 DEF Counts, TableCounts
  <2>8. e.txs # <<>>
    BY <1>4, <2>3, <2>4 DEF Agrees, Last
  <2>9. Agrees(e, ethOps')
    BY <1>2, <2>2, <2>4, <2>5, <2>6, <2>7, <2>8 DEF Agrees
  <2>10. Len(ongoing') = n /\ \A k \in 1 .. n : ongoing'[k] = IF k = n THEN e ELSE ongoing[k]
    BY <1>2, <2>1, <2>3, <2>4, ExceptSeq
  <2> QED BY <1>4, <2>1, <2>9, <2>10 DEF Remembered
<1>10. CASE ConfirmOperation
  <2>1. Checking /\ mode' # "resent" /\ ongoing' = RemoveAt(ongoing, cursor)
    BY <1>10 DEF ConfirmOperation, Checking
  <2>2. cursor \in 1 .. Len(ongoing)
    BY <1>1, <1>2, <2>1 DEF Checking, Types, MemoryTypes
  <2>3. /\ Len(ongoing') = Len(ongoing) - 1
        /\ \A k \in 1 .. Len(ongoing) - 1 :
              ongoing'[k] = IF k < cursor THEN ongoing[k] ELSE ongoing[k + 1]
    BY <1>2, <2>1, <2>2, RemoveAtKeeps
  <2>4. \A k \in 1 .. Len(ongoing) - 1 : k \in 1 .. Len(ongoing) /\ k + 1 \in 1 .. Len(ongoing)
    BY <1>2
  <2> QED BY <1>4, <2>1, <2>3, <2>4 DEF Remembered
<1>11. ASSUME IsStuck,
              \E price \in RetryPrices(CurrentTx.price) :
                 ongoing' = [ongoing EXCEPT ![cursor].txs = Remember(@, price)]
       PROVE  /\ cursor \in 1 .. Len(ongoing)
              /\ Len(ongoing') = Len(ongoing)
              /\ \A k \in 1 .. Len(ongoing) : /\ ongoing'[k].row = ongoing[k].row
                                              /\ Agrees(ongoing'[k], ethOps')
  <2>1. PICK price \in RetryPrices(CurrentTx.price) :
          ongoing' = [ongoing EXCEPT ![cursor] =
                         [Current EXCEPT !.txs = Remember(Current.txs, price)]]
    BY <1>11 DEF Current
  <2> DEFINE e == [Current EXCEPT !.txs = Remember(Current.txs, price)]
  <2>2. /\ price \in Prices /\ cursor \in 1 .. Len(ongoing) /\ Current \in Entries
        /\ Current.txs \in Seq(Prices)
    BY <1>1, <1>11, <2>1, StuckTyped
  <2>3. Remember(Current.txs, price) \in Seq(Prices) /\ Remember(Current.txs, price) # <<>>
    BY <2>2, RememberTyped
  <2>4. /\ e \in Entries /\ e.row = Current.row /\ e.op = Current.op
        /\ e.nonce = Current.nonce /\ e.txs # <<>>
    BY <2>2, <2>3 DEF Entries
  <2> HIDE DEF e
  <2>5. /\ Len(ongoing') = Len(ongoing)
        /\ \A k \in 1 .. Len(ongoing) : ongoing'[k] = IF k = cursor THEN e ELSE ongoing[k]
    BY <1>2, <2>1, <2>2, <2>4, ExceptSeq DEF e
  <2>6. Agrees(e, ethOps')
    <3>1. Agrees(Current, ethOps')
      BY <1>4, <2>2 DEF Current
    <3> QED BY <2>4, <3>1 DEF Agrees
  <2>7. \A k \in 1 .. Len(ongoing) : /\ ongoing'[k].row = ongoing[k].row
                                     /\ Agrees(ongoing'[k], ethOps')
    BY <1>4, <2>4, <2>5, <2>6 DEF Current
  <2> QED BY <2>2, <2>5, <2>7
<1>12. ASSUME NEW nonce \in 0 .. params.nonce, SendSupplement(nonce, BOOLEAN)
       PROVE  Remembered'
  <2>1. /\ IsStuck /\ UNCHANGED cursor /\ Current.row # 0
        /\ \E price \in RetryPrices(CurrentTx.price) :
              ongoing' = [ongoing EXCEPT ![cursor].txs = Remember(@, price)]
    BY <1>12 DEF SendSupplement
  <2>2. /\ cursor \in 1 .. Len(ongoing)
        /\ Len(ongoing') = Len(ongoing)
        /\ \A k \in 1 .. Len(ongoing) : /\ ongoing'[k].row = ongoing[k].row
                                        /\ Agrees(ongoing'[k], ethOps')
    BY <1>11, <2>1
  <2>3. cursor' <= Len(ongoing') /\ ongoing'[cursor'].row # 0
    BY <1>2, <2>1, <2>2 DEF Current
  <2> QED BY <2>2, <2>3 DEF Remembered, Current
<1>13. CASE SupplementNotStored
  <2>1. /\ IsStuck /\ mode' # "resent"
        /\ \E price \in RetryPrices(CurrentTx.price) :
              ongoing' = [ongoing EXCEPT ![cursor].txs = Remember(@, price)]
    BY <1>13 DEF SupplementNotStored, IsStuck, Checking
  <2>2. /\ Len(ongoing') = Len(ongoing)
        /\ \A k \in 1 .. Len(ongoing) : Agrees(ongoing'[k], ethOps')
    BY <1>11, <2>1
  <2> QED BY <2>1, <2>2 DEF Remembered
<1>14. CASE Crash
  <2>1. mode' = "down" /\ ongoing' = <<>>
    BY <1>14 DEF Crash
  <2> QED BY <2>1, EmptySeq DEF Remembered
<1>15. CASE Restart
  <2>1. /\ mode' # "resent" /\ ongoing' = Unconfirmed /\ ethOps' = ethOps
    BY <1>15 DEF Restart, database
  <2>2. \A k \in 1 .. Len(Unconfirmed) :
            /\ Unconfirmed[k].row \in 1 .. Len(ethOps)
            /\ Unconfirmed[k].op = ethOps[Unconfirmed[k].row].op
            /\ Unconfirmed[k].nonce = ethOps[Unconfirmed[k].row].nonce
            /\ Unconfirmed[k].txs = ethOps[Unconfirmed[k].row].txs
    BY <1>2, UnconfirmedRows DEF Open
  <2>3. \A i \in 1 .. Len(ethOps) : ethOps[i].nonce = i - 1 /\ ethOps[i].txs # <<>>
    BY <1>1 DEF Counts, TableCounts
  <2>4. \A k \in 1 .. Len(Unconfirmed) : Agrees(Unconfirmed[k], ethOps)
    BY <2>2, <2>3 DEF Agrees
  <2> QED BY <2>1, <2>4 DEF Remembered
<1>16. CASE (\E tx \in sent : Mine(tx)) \/ Deepen \/ Reorg
            \/ NewCommitOperation \/ NewVerifyOperation
  <2>1. UNCHANGED <<ongoing, cursor, mode>>
    BY <1>16 DEF Mine, Deepen, Reorg, NewCommitOperation, NewVerifyOperation, memory
  <2>2. mode = "resent" => cursor <= Len(ongoing) /\ Current.row # 0
    BY <1>1 DEF Remembered
  <2> QED BY <1>4, <2>1, <2>2 DEF Remembered, Current
<1> QED BY <1>6, <1>7, <1>8, <1>9, <1>10, <1>12, <1>13, <1>14, <1>15, <1>16
        DEF Next, SenderStep, Failure, Environment

-----------------------------------------------------------------------------
(* The chain *)

\* What was sent stays sent, and the part of the chain that is deep enough stays.
ChainKept ==
    /\ sent \subseteq sent'
    /\ deep <= deep' /\ deep <= Len(mined')
    /\ \A i \in 1 .. deep : mined'[i] = mined[i]

LEMMA ChainNext ==
  ASSUME Inv, Next
  PROVE  /\ ChainKept
         /\ \A i \in 1 .. Len(mined') :
               \/ i \in 1 .. Len(mined) /\ mined'[i] = mined[i]
               \/ /\ i = Len(mined) + 1 /\ mined'[i].tx \in sent
                  /\ mined'[i].tx.nonce = Len(mined)
                  /\ mined'[i].contract
                        = Execute(ContractAfter(mined'[i].tx.nonce), mined'[i].tx)
<1>1. Types
  BY DEF Inv
<1>2. mined \in Seq(Included) /\ Len(mined) \in Nat /\ deep \in 0 .. Len(mined)
  BY <1>1, LenProperties DEF Types, ChainTypes
<1> DEFINE Extends ==
             \A i \in 1 .. Len(mined') :
               \/ i \in 1 .. Len(mined) /\ mined'[i] = mined[i]
               \/ /\ i = Len(mined) + 1 /\ mined'[i].tx \in sent
                  /\ mined'[i].tx.nonce = Len(mined)
                  /\ mined'[i].contract
                        = Execute(ContractAfter(mined'[i].tx.nonce), mined'[i].tx)
<1>3. ASSUME UNCHANGED <<mined, deep>>, sent \subseteq sent'
      PROVE  ChainKept /\ Extends
  BY <1>2, <1>3 DEF ChainKept
<1>4. CASE \/ LoadNewOperations \/ SaveNewOperation \/ AllSent \/ ConfirmOperation
           \/ FailureHandler \/ WaitForTransaction \/ CheckNextTransaction
           \/ SaveSupplement \/ EndOfRound
  BY <1>3, <1>4 DEF LoadNewOperations, SaveNewOperation, AllSent, ConfirmOperation,
     FailureHandler, WaitForTransaction, CheckNextTransaction, SaveSupplement, EndOfRound,
     ethereum
<1>5. CASE \/ LoadingFails \/ SaveNewOperationFails \/ SkipOperation
           \/ SupplementNotStored \/ SaveSupplementFails \/ Crash \/ Restart
           \/ NewCommitOperation \/ NewVerifyOperation
  BY <1>3, <1>5 DEF LoadingFails, SaveNewOperationFails, SkipOperation, SupplementNotStored,
     SaveSupplementFails, Crash, Restart, NewCommitOperation, NewVerifyOperation, ethereum
<1>6. CASE InitializeOperation \/ \E nonce \in 0 .. params.nonce : SendSupplement(nonce, BOOLEAN)
  <2>1. UNCHANGED <<mined, deep>> /\ sent \subseteq sent'
    BY <1>6 DEF InitializeOperation, SendSupplement
  <2> QED BY <1>3, <2>1
<1>7. ASSUME NEW tx \in sent, Mine(tx)
      PROVE  ChainKept /\ Extends
  <2> DEFINE m == [tx |-> tx, contract |-> Execute(ContractAfter(tx.nonce), tx)]
  <2>1. /\ tx.nonce = Len(mined) /\ mined' = Append(mined, m)
        /\ sent' = sent /\ deep' = deep
    BY <1>7 DEF Mine
  <2>2. m \in Included
    <3>1. tx \in Txs
      BY <1>1 DEF Types, ChainTypes
    <3> QED BY <1>1, <2>1, <3>1, ExecuteTyped DEF Included
  <2>3. m.tx = tx /\ m.contract = Execute(ContractAfter(tx.nonce), tx)
    OBVIOUS
  <2> HIDE DEF m
  <2>4. /\ Len(mined') = Len(mined) + 1 /\ mined'[Len(mined) + 1] = m
        /\ \A i \in 1 .. Len(mined) : mined'[i] = mined[i]
    BY <1>2, <2>1, <2>2, AppendProperties
  <2>5. \A i \in 1 .. Len(mined) + 1 : i \in 1 .. Len(mined) \/ i = Len(mined) + 1
    BY <1>2
  <2>6. Extends
    BY <2>1, <2>3, <2>4, <2>5
  <2>7. ChainKept
    BY <1>2, <2>1, <2>4 DEF ChainKept
  <2> QED BY <2>6, <2>7
<1>8. CASE Deepen
  <2>1. deep' = deep + 1 /\ deep < Len(mined) /\ UNCHANGED <<sent, mined>>
    BY <1>8 DEF Deepen
  <2> QED BY <1>2, <2>1 DEF ChainKept
<1>9. CASE Reorg
  <2>1. PICK n \in deep .. Len(mined) - 1 : mined' = SubSeq(mined, 1, n)
    BY <1>9 DEF Reorg
  <2>2. sent' = sent /\ deep' = deep
    BY <1>9 DEF Reorg
  <2>3. n \in Nat /\ n <= Len(mined) /\ deep <= n
    BY <1>2, <2>1
  <2>4. \A k \in 1 .. n : mined[k] \in Included
    BY <1>2, <2>3, ElementOfSeq
  <2>5. Len(mined') = n /\ \A k \in 1 .. n : mined'[k] = mined[k]
    BY <2>1, <2>3, <2>4, SubSeqProperties
  <2>6. \A k \in 1 .. n : k \in 1 .. Len(mined)
    BY <1>2, <2>3
  <2>7. Extends
    BY <2>5, <2>6
  <2>8. ChainKept
    BY <1>2, <2>2, <2>3, <2>5 DEF ChainKept
  <2> QED BY <2>7, <2>8
<1> QED BY <1>4, <1>5, <1>6, <1>7, <1>8, <1>9 DEF Next, SenderStep, Failure, Environment

LEMMA InOrderNext == Inv /\ Next => InOrder'
<1> SUFFICES ASSUME Inv, Next, NEW i \in 1 .. Len(mined')
             PROVE  mined'[i].tx \in sent' /\ mined'[i].tx.nonce = i - 1
  BY DEF InOrder
<1>1. sent \subseteq sent'
  BY ChainNext DEF ChainKept
<1>2. \A k \in 1 .. Len(mined) : mined[k].tx \in sent /\ mined[k].tx.nonce = k - 1
  BY DEF Inv, InOrder
<1>3. Len(mined) \in Nat
  BY LenProperties DEF Inv, Types, ChainTypes
<1>4. CASE i \in 1 .. Len(mined) /\ mined'[i] = mined[i]
  BY <1>1, <1>2, <1>4
<1>5. CASE i = Len(mined) + 1 /\ mined'[i].tx \in sent /\ mined'[i].tx.nonce = Len(mined)
  BY <1>1, <1>3, <1>5
<1> QED BY <1>4, <1>5, ChainNext

\* What is final stays so: no reorganisation reaches it.
LEMMA FinalStays ==
  ASSUME Types, InOrder, Types', InOrder', ChainKept, NEW tx, tx.nonce \in Nat, IsFinal(tx)
  PROVE  IsFinal(tx)'
<1>1. /\ deep \in Nat /\ deep' \in Nat /\ deep <= deep' /\ deep <= Len(mined')
      /\ deep <= Len(mined) /\ Len(mined) \in Nat /\ Len(mined') \in Nat
      /\ DOMAIN mined = 1 .. Len(mined) /\ DOMAIN mined' = 1 .. Len(mined')
  BY LenProperties DEF Types, ChainTypes, ChainKept
<1>2. /\ tx.nonce < deep /\ Accepts(ContractAfter(tx.nonce), tx.op)
      /\ \E i \in DOMAIN mined : mined[i].tx = tx
  BY DEF IsFinal, IsMined, Reverted
<1>3. PICK i \in 1 .. Len(mined) : mined[i].tx = tx
  BY <1>1, <1>2
<1>4. tx.nonce = i - 1
  BY <1>3 DEF InOrder
<1>5. i \in 1 .. deep /\ i \in 1 .. Len(mined')
  BY <1>1, <1>2, <1>4
<1>6. mined'[i] = mined[i]
  BY <1>5 DEF ChainKept
<1>7. IsMined(tx)'
  BY <1>1, <1>3, <1>5, <1>6 DEF IsMined
<1>8. ContractAfter(tx.nonce)' = ContractAfter(tx.nonce)
  <2>1. tx.nonce # 0 => tx.nonce \in 1 .. deep
    BY <1>1, <1>2
  <2>2. tx.nonce # 0 => mined'[tx.nonce] = mined[tx.nonce]
    BY <2>1 DEF ChainKept
  <2> QED BY <2>2 DEF ContractAfter
<1>9. ~ Reverted(tx)'
  BY <1>2, <1>8 DEF Reverted
<1>10. tx.nonce < deep'
  BY <1>1, <1>2
<1> QED BY <1>7, <1>9, <1>10 DEF IsFinal

\* Only confirm_operation marks a row.
LEMMA WhoConfirms ==
  ASSUME Inv, Next, NEW i \in 1 .. Len(ethOps'), ethOps'[i].confirmed
  PROVE  /\ i \in 1 .. Len(ethOps)
         /\ ~ ethOps[i].confirmed =>
               /\ ConfirmOperation /\ i = CurrentTx.nonce + 1
               /\ ethOps[i].op = CurrentTx.op /\ CurrentTx.price \in Range(ethOps[i].txs)
<1>1. Types /\ Counts /\ Remembered
  BY DEF Inv
<1>2. ethOps \in Seq(Rows) /\ Len(ethOps) \in Nat
  BY <1>1, LenProperties DEF Types, TableTypes
<1>3. CASE UNCHANGED ethOps
  BY <1>3
<1>4. CASE SaveNewOperation
  <2> DEFINE e == Last(ongoing)
             row == [op |-> e.op, nonce |-> e.nonce, txs |-> e.txs, confirmed |-> FALSE]
  <2>1. mode = "sent" /\ ethOps' = Append(ethOps, row)
    BY <1>4 DEF SaveNewOperation, Stored
  <2>2. row \in Rows /\ row.confirmed = FALSE
    <3>1. ongoing # <<>> /\ ongoing \in Seq(Entries)
      BY <1>1, <2>1 DEF Inv, Queued, Types, MemoryTypes
    <3>2. e \in Entries
      BY <3>1, LastTyped
    <3> QED BY <3>2 DEF Rows, Entries
  <2> HIDE DEF row
  <2>3. /\ Len(ethOps') = Len(ethOps) + 1 /\ ethOps'[Len(ethOps) + 1] = row
        /\ \A k \in 1 .. Len(ethOps) : ethOps'[k] = ethOps[k]
    BY <1>2, <2>1, <2>2, AppendProperties
  <2>4. i # Len(ethOps) + 1
    BY <2>2, <2>3
  <2>5. i \in 1 .. Len(ethOps)
    BY <1>2, <2>3, <2>4
  <2> QED BY <2>3, <2>5
<1>5. CASE ConfirmOperation
  <2>1. PICK r \in 1 .. Len(ethOps) :
            /\ r = CurrentTx.nonce + 1
            /\ ethOps[r].op = CurrentTx.op /\ CurrentTx.price \in Range(ethOps[r].txs)
            /\ Len(ethOps') = Len(ethOps)
            /\ \A k \in 1 .. Len(ethOps) :
                  ethOps'[k].confirmed = IF k = r THEN TRUE ELSE ethOps[k].confirmed
    BY <1>1, <1>5, ConfirmMarksRow
  <2> QED BY <1>5, <2>1
<1>6. CASE SaveSupplement
  <2>1. /\ Len(ethOps') = Len(ethOps)
        /\ \A k \in 1 .. Len(ethOps) : ethOps'[k].confirmed = ethOps[k].confirmed
    BY <1>1, <1>6, SupplementKeepsRows
  <2> QED BY <2>1
<1>7. CASE \/ LoadNewOperations \/ InitializeOperation \/ AllSent
           \/ FailureHandler \/ WaitForTransaction \/ CheckNextTransaction
           \/ \E nonce \in 0 .. params.nonce : SendSupplement(nonce, BOOLEAN)
           \/ EndOfRound
  BY <1>3, <1>7 DEF LoadNewOperations, InitializeOperation, AllSent, FailureHandler,
     WaitForTransaction, CheckNextTransaction, SendSupplement, EndOfRound, database
<1>8. CASE \/ LoadingFails \/ SaveNewOperationFails \/ SkipOperation
           \/ SupplementNotStored \/ SaveSupplementFails \/ Crash \/ Restart
  BY <1>3, <1>8 DEF LoadingFails, SaveNewOperationFails, SkipOperation, SupplementNotStored,
     SaveSupplementFails, Crash, Restart, database
<1>9. CASE (\E tx \in sent : Mine(tx)) \/ Deepen \/ Reorg
           \/ NewCommitOperation \/ NewVerifyOperation
  BY <1>3, <1>9 DEF Mine, Deepen, Reorg, NewCommitOperation, NewVerifyOperation, database
<1> QED BY <1>4, <1>5, <1>6, <1>7, <1>8, <1>9 DEF Next, SenderStep, Failure, Environment

LEMMA ConfirmedIsFinalNext ==
  ASSUME Inv, Next, Types', InOrder'
  PROVE  ConfirmedIsFinal'
<1>1. Types /\ Counts /\ InOrder /\ RowsKept /\ ChainKept
  BY RowsKeptNext, ChainNext DEF Inv
<1>2. /\ DOMAIN ethOps = 1 .. Len(ethOps) /\ ethOps \in Seq(Rows)
      /\ DOMAIN ethOps' = 1 .. Len(ethOps')
  BY <1>1, LenProperties DEF Types, TableTypes
<1> SUFFICES ASSUME NEW i \in 1 .. Len(ethOps'), ethOps'[i].confirmed
             PROVE  \E price \in Range(ethOps'[i].txs) :
                        IsFinal(Tx(ethOps[i].nonce, ethOps[i].op, price))'
  BY <1>2 DEF ConfirmedIsFinal
<1>3. i \in 1 .. Len(ethOps)
  BY WhoConfirms
<1>4. \E price \in Range(ethOps[i].txs) : IsFinal(Tx(ethOps[i].nonce, ethOps[i].op, price))
  <2>1. CASE ethOps[i].confirmed
    BY <1>2, <1>3, <2>1 DEF Inv, ConfirmedIsFinal
  <2>2. CASE ~ ethOps[i].confirmed
    <3>1. /\ ConfirmOperation /\ i = CurrentTx.nonce + 1
          /\ ethOps[i].op = CurrentTx.op /\ CurrentTx.price \in Range(ethOps[i].txs)
      BY <2>2, WhoConfirms
    <3>2. IsFinal(CurrentTx)
      BY <3>1 DEF ConfirmOperation
    <3>3. ethOps[i].nonce = i - 1
      BY <1>1, <1>3 DEF Counts, TableCounts
    <3>4. CurrentTx.nonce \in Int
      <4>1. cursor <= Len(ongoing)
        BY <3>1 DEF ConfirmOperation, Checking
      <4>2. Current \in Entries
        BY <4>1, CurrentTyped DEF Inv
      <4> QED BY <4>2 DEF CurrentTx, Tx, Entries
    <3>5. ethOps[i].nonce = CurrentTx.nonce
      BY <3>1, <3>3, <3>4
    <3>6. Tx(ethOps[i].nonce, ethOps[i].op, CurrentTx.price) = CurrentTx
      BY <3>1, <3>5 DEF CurrentTx, Tx
    <3> QED BY <3>1, <3>2, <3>6
  <2> QED BY <2>1, <2>2
<1>5. PICK price \in Range(ethOps[i].txs) : IsFinal(Tx(ethOps[i].nonce, ethOps[i].op, price))
  BY <1>4
<1>6. ethOps[i].nonce \in Nat
  <2>1. ethOps[i] \in Rows
    BY <1>2, <1>3, ElementOfSeq
  <2> QED BY <2>1 DEF Rows
<1>7. PICK t : t = Tx(ethOps[i].nonce, ethOps[i].op, price)
  OBVIOUS
<1>8. t.nonce \in Nat /\ IsFinal(t)
  BY <1>5, <1>6, <1>7 DEF Tx
<1>9. IsFinal(t)'
  BY <1>1, <1>8, FinalStays
<1>10. /\ ethOps'[i].nonce = ethOps[i].nonce /\ ethOps'[i].op = ethOps[i].op
       /\ price \in Range(ethOps'[i].txs)
  BY <1>1, <1>3, <1>5 DEF RowsKept
<1>11. t = Tx(ethOps'[i].nonce, ethOps'[i].op, price)
  BY <1>7, <1>10
<1>12. IsFinal(Tx(ethOps[i].nonce, ethOps[i].op, price))'
  BY <1>9, <1>11 DEF IsFinal, IsMined, Reverted
<1> QED BY <1>10, <1>12

LEMMA TypesNext == Inv /\ Next => Types'
BY TableTypesNext, MemoryTypesNext, ChainTypesNext, FaultTypesNext DEF Types

LEMMA InvNext == Inv /\ [Next]_vars => Inv'
<1> SUFFICES ASSUME Inv, [Next]_vars
             PROVE  Inv'
  OBVIOUS
<1>1. CASE Next
  <2>1. Types' /\ Counts' /\ Queued' /\ Remembered' /\ InOrder'
    BY <1>1, TypesNext, CountsNext, QueuedNext, RememberedNext, InOrderNext
  <2>2. ConfirmedIsFinal'
    BY <1>1, <2>1, ConfirmedIsFinalNext
  <2> QED BY <2>1, <2>2 DEF Inv
<1>2. CASE UNCHANGED vars
  <2>1. /\ UNCHANGED <<commitOps, verifyOps, ethOps, params, mode, queue, ongoing>>
        /\ UNCHANGED <<cursor, at, sent, mined, deep, faults>>
    BY <1>2 DEF vars, operations, database, memory, ethereum
  <2>2. Types'
    BY <2>1 DEF Inv, Types, TableTypes, MemoryTypes, ChainTypes
  <2>3. Counts'
    BY <2>1 DEF Inv, Counts, TableCounts
  <2>4. Queued'
    BY <2>1 DEF Inv, Queued, Continues, MayBind, Counted, Last
  <2>5. Remembered' /\ InOrder'
    BY <2>1 DEF Inv, Remembered, InOrder, Current
  <2>6. ConfirmedIsFinal'
    BY <2>1 DEF Inv, ConfirmedIsFinal, IsFinal, IsMined, Reverted, ContractAfter
  <2> QED BY <2>2, <2>3, <2>4, <2>5, <2>6 DEF Inv
<1> QED BY <1>1, <1>2

LEMMA Invariant == Spec => []Inv
BY InitInv, InvNext, PTL DEF Spec

-----------------------------------------------------------------------------
(* Theorems *)

LEMMA TypesHold == Inv => TypeOK
<1> SUFFICES ASSUME Inv
             PROVE  TypeOK
  OBVIOUS
<1>1. Types /\ Counts /\ Remembered /\ InOrder
  BY DEF Inv
<1>2. /\ DOMAIN ethOps = 1 .. Len(ethOps) /\ Len(ethOps) \in Nat
      /\ DOMAIN ongoing = 1 .. Len(ongoing) /\ Len(ongoing) \in Nat
      /\ DOMAIN mined = 1 .. Len(mined)
  BY <1>1, LenProperties DEF Types, TableTypes, MemoryTypes, ChainTypes
<1>3. \A s \in Seq(Prices) : Range(s) \subseteq Prices
  BY RangeIsImage, LenProperties, ElementOfSeq
<1>4. ASSUME NEW i \in DOMAIN ethOps
      PROVE  /\ ethOps[i].op \in Ops /\ ethOps[i].nonce \in Nat /\ ethOps[i].confirmed \in BOOLEAN
             /\ ethOps[i].txs # <<>> /\ Range(ethOps[i].txs) \subseteq Prices
  <2>1. ethOps[i] \in Rows
    BY <1>1, <1>2, ElementOfSeq DEF Types, TableTypes
  <2>2. ethOps[i].txs # <<>>
    BY <1>1, <1>2 DEF Counts, TableCounts
  <2> QED BY <1>3, <2>1, <2>2 DEF Rows
<1>5. ASSUME NEW i \in DOMAIN ongoing
      PROVE  /\ ongoing[i].op \in Ops /\ ongoing[i].nonce \in Nat
             /\ ongoing[i].row \in 0..Len(ethOps) /\ Range(ongoing[i].txs) \subseteq Prices
  <2>1. ongoing[i] \in Entries
    BY <1>1, <1>2, ElementOfSeq DEF Types, MemoryTypes
  <2>2. ongoing[i].row \in 0 .. Len(ethOps)
    BY <1>1, <1>2 DEF Remembered, Agrees
  <2> QED BY <1>3, <2>1, <2>2 DEF Entries
<1>6. {m.tx : m \in Range(mined)} \subseteq sent
  <2>1. Range(mined) = {mined[i] : i \in 1 .. Len(mined)}
    BY <1>2, RangeIsImage
  <2> QED BY <1>1, <2>1 DEF InOrder
<1>7. /\ queue.commitCount \in Nat /\ queue.verifyNext \in Nat
      /\ queue.withdraws \in Nat /\ queue.withdrawCount \in Nat /\ queue.pending \in Nat
  BY <1>1 DEF Types, MemoryTypes, Queues
<1>8. /\ mode \in {"idle", "sending", "sent", "checking", "resent", "down", "panicked"}
      /\ cursor \in 1 .. Len(ongoing) + 1
  BY <1>1 DEF Types, MemoryTypes, Modes
<1> QED BY <1>1, <1>4, <1>5, <1>6, <1>7, <1>8 DEF TypeOK, Types, TableTypes, ChainTypes

\* The tables, the sender's memory and the chain keep their types through every
\* failure, crash and restart (the type invariant of the run on safety).
THEOREM SenderTypes == Spec => []TypeOK
BY Invariant, TypesHold, PTL

LEMMA QueueContinues == Inv => QueueContinuesTable
<1> SUFFICES ASSUME Inv, mode # "sent"
             PROVE  /\ queue.commitCount = params.commit
                    /\ queue.verifyNext = params.verify + 1
                    /\ queue.withdrawCount = params.withdraw
                    /\ \A i \in DOMAIN queue.commits : queue.commits[i] = params.commit + i
                    /\ queue.verifies \subseteq Unprocessed("Verify", verifyOps)
  BY DEF QueueContinuesTable
<1>1. Types /\ Counts /\ Continues(queue, params)
  BY DEF Inv, Queued
<1>2. DOMAIN queue.commits = 1 .. Len(queue.commits)
  <2>1. queue.commits \in Seq(Nat)
    BY <1>1 DEF Types, MemoryTypes, Queues
  <2> QED BY <2>1, LenProperties
<1>3. Unprocessed("Verify", verifyOps) = (params.verify + 1) .. verifyOps
  BY <1>1, UnprocessedAreNext DEF Types, TableTypes, Counts, TableCounts
<1> QED BY <1>1, <1>2, <1>3 DEF Continues

\* The queue goes on where the table ends (TxQueue, ETHSender::new): whatever
\* fails, however often the process is started again, no block is left out of the
\* queue and none waits in it that has a nonce.
THEOREM QueueFollowsTable == Spec => []QueueContinuesTable
BY Invariant, QueueContinues, PTL

\* What confirm_operation marks stays executed on Ethereum, whatever is reorganised.
THEOREM ConfirmationsAreFinal == Spec => []ConfirmedIsFinal
<1>1. Inv => ConfirmedIsFinal
  BY DEF Inv
<1> QED BY <1>1, Invariant, PTL

\* What the rows stand for is what the parameters count.
RowsAreCounted ==
    /\ LastBlock("Commit") = params.commit
    /\ LastBlock("Verify") = params.verify
    /\ Cardinality({i \in DOMAIN ethOps : ethOps[i].op = WithdrawOp}) = params.withdraw

LEMMA CountsAnchored == Inv => RowsAreCounted
<1> SUFFICES ASSUME Inv
             PROVE  RowsAreCounted
  OBVIOUS
<1>1. /\ ethOps \in Seq(Rows) /\ DOMAIN ethOps = 1 .. Len(ethOps)
      /\ params.commit \in Nat /\ params.verify \in Nat
  BY LenProperties DEF Inv, Types, TableTypes
<1>2. LastBlock("Commit") = params.commit /\ LastBlock("Verify") = params.verify
  BY <1>1, LastBlockIsCount DEF Inv, Counts, TableCounts
<1>3. {i \in DOMAIN ethOps : ethOps[i].op = WithdrawOp} = WithdrawRows(ethOps)
  BY <1>1 DEF WithdrawRows
<1> QED BY <1>2, <1>3 DEF Inv, Counts, TableCounts, RowsAreCounted

\* Only save_new_eth_tx with report_created_operation changes what is bound.
LEMMA ParamsStep ==
  Inv /\ [Next]_vars =>
      \/ params' = params
      \/ \E op : MayBind(op) /\ params' = Counted(op)
<1> SUFFICES ASSUME Inv, [Next]_vars, params' # params
             PROVE  \E op : MayBind(op) /\ params' = Counted(op)
  OBVIOUS
<1>1. SaveNewOperation
  BY DEF vars, Next, SenderStep, Failure, Environment, database,
     LoadNewOperations, InitializeOperation, AllSent, ConfirmOperation, FailureHandler,
     WaitForTransaction, CheckNextTransaction, SendSupplement, SaveSupplement, EndOfRound,
     LoadingFails, SaveNewOperationFails, SkipOperation, SupplementNotStored,
     SaveSupplementFails, Crash, Restart, NewCommitOperation, NewVerifyOperation, Mine,
     Deepen, Reorg
<1> QED BY <1>1 DEF SaveNewOperation, Inv, Queued

LEMMA AnchoringStep ==
  ASSUME Inv, [Next]_vars, RowsAreCounted'
  PROVE  [Anchored!Next]_<<LastBlock("Commit"), LastBlock("Verify"),
            Cardinality({i \in DOMAIN ethOps : ethOps[i].op = WithdrawOp})>>
<1>1. /\ LastBlock("Commit") = params.commit /\ LastBlock("Verify") = params.verify
      /\ Cardinality({i \in DOMAIN ethOps : ethOps[i].op = WithdrawOp}) = params.withdraw
  BY CountsAnchored DEF RowsAreCounted
<1>4. /\ LastBlock("Commit")' = params'.commit /\ LastBlock("Verify")' = params'.verify
      /\ Cardinality({i \in DOMAIN ethOps : ethOps[i].op = WithdrawOp})' = params'.withdraw
  BY DEF RowsAreCounted
<1>2. CASE params' = params
  BY <1>1, <1>2, <1>4
<1>3. CASE params' # params
  <2>1. PICK op : MayBind(op) /\ params' = Counted(op)
    BY <1>3, ParamsStep
  <2>2. /\ params'.commit = IF op.type = "Commit" THEN params.commit + 1 ELSE params.commit
        /\ params'.verify = IF op.type = "Verify" THEN params.verify + 1 ELSE params.verify
        /\ params'.withdraw
              = IF op.type = "Withdraw" THEN params.withdraw + 1 ELSE params.withdraw
    BY <2>1, CountedFields DEF Inv, Types, TableTypes
  <2>3. CASE op = Op("Commit", params.commit + 1)
    <3>1. op.type = "Commit"
      BY <2>3, OpFields
    <3>2. Anchored!CommitNext
      BY <1>1, <1>4, <2>2, <3>1 DEF Anchored!CommitNext
    <3> QED BY <3>2 DEF Anchored!Next
  <2>4. CASE op = Op("Verify", params.verify + 1) /\ params.verify < params.commit
    <3>1. op.type = "Verify"
      BY <2>4, OpFields
    <3>2. Anchored!VerifyNext
      BY <1>1, <1>4, <2>2, <2>4, <3>1 DEF Anchored!VerifyNext
    <3> QED BY <3>2 DEF Anchored!Next
  <2>5. CASE op = WithdrawOp /\ params.withdraw < params.verify
    <3>1. op.type = "Withdraw"
      BY <2>5, OpFields DEF WithdrawOp
    <3>2. Anchored!CompleteNext
      BY <1>1, <1>4, <2>2, <2>5, <3>1 DEF Anchored!CompleteNext
    <3> QED BY <3>2 DEF Anchored!Next
  <2> QED BY <2>1, <2>3, <2>4, <2>5 DEF MayBind
<1> QED BY <1>2, <1>3

LEMMA AnchoringInit == Init => Anchored!Init
<1> SUFFICES ASSUME Init
             PROVE  Anchored!Init
  OBVIOUS
<1>1. Inv /\ params.commit = 0 /\ params.verify = 0 /\ params.withdraw = 0
  BY InitInv DEF Init
<1> QED BY <1>1, CountsAnchored DEF RowsAreCounted, Anchored!Init

\* The sender implements Anchoring ("FIFO order", zksync_eth_sender/src/lib.rs):
\* through failures, crashes, restarts, lost database transactions and
\* reorganisations, operations are bound to nonces block by block, a verification
\* after its commit, and no more withdrawals than verifications.
THEOREM SenderIsFIFO == Spec => FIFO
<1>1. Inv' => RowsAreCounted'
  BY CountsAnchored, PTL
<1>2. Inv /\ Inv' /\ [Next]_vars =>
        [Anchored!Next]_<<LastBlock("Commit"), LastBlock("Verify"),
            Cardinality({i \in DOMAIN ethOps : ethOps[i].op = WithdrawOp})>>
  BY <1>1, AnchoringStep
<1> QED BY <1>2, Invariant, AnchoringInit, PTL DEF Spec, FIFO, Anchored!Spec

-----------------------------------------------------------------------------
(* What holds as long as no transaction was lost that Ethereum has *)

\* A transaction in the row of its nonce.
Recorded(tx) ==
    /\ tx.nonce + 1 \in 1 .. Len(ethOps)
    /\ ethOps[tx.nonce + 1].op = tx.op
    /\ tx.price \in Range(ethOps[tx.nonce + 1].txs)

\* One more than the rows that are open, while a row is being stored.
InFlight == Cardinality(Open) + (IF mode = "sent" THEN 1 ELSE 0)

LastIsLargest(txs) == \A k \in 1 .. Len(txs) : txs[k] <= txs[Len(txs)]

\* An operation in memory has the hashes of its row, which is open, and the
\* transaction sent last pays most.
OpenEntry(entry) ==
    /\ entry.row # 0 => /\ entry.row \in Open
                        /\ Range(ethOps[entry.row].txs) \subseteq Range(entry.txs)
    /\ LastIsLargest(entry.txs)

\* The operations in memory are the open rows, each once.
MemoryIsOpenRows ==
    /\ \A k \in 1 .. Len(ongoing) :
          /\ ongoing[k].row = 0 <=> mode = "sent" /\ k = Len(ongoing)
          /\ OpenEntry(ongoing[k])
    /\ \A k, l \in 1 .. Len(ongoing) : ongoing[k].row = ongoing[l].row => k = l
    /\ queue.pending = Len(ongoing)
    /\ Len(ongoing) = InFlight

VerifiedRows ==
    {i \in 1 .. Len(ethOps) : /\ ethOps[i].op.type = "Verify" /\ ethOps[i].confirmed
                              /\ ethOps[i].op.block \in WithdrawalBlocks}

\* What the contract counts is the last block of a type in the chain up to position n.
CountsMined(n, type, count) ==
    /\ \A i \in 1 .. n : mined[i].tx.op.type = type => mined[i].tx.op.block <= count
    /\ count # 0 => \E i \in 1 .. n : mined[i].tx.op = Op(type, count)

ContractFollows ==
    \A n \in 0 .. Len(mined) :
        /\ CountsMined(n, "Commit", ContractAfter(n).committed)
        /\ CountsMined(n, "Verify", ContractAfter(n).verified)

Safe ==
    /\ mode # "panicked"
    /\ \A tx \in sent \ Unsaved : Recorded(tx)
    /\ \A i \in 1 .. Len(ethOps) : LastIsLargest(ethOps[i].txs)
    /\ InFlight <= MaxInFlight
    /\ mode = "down" => faults.crashes < MaxCrashes
    /\ mode # "down" => MemoryIsOpenRows
    /\ faults.crashes = MaxCrashes =>
          queue.withdrawCount + queue.withdraws = Cardinality(VerifiedRows)
    /\ ContractFollows

SafeInv == Inv /\ (NothingLost => Safe)

-----------------------------------------------------------------------------
(* A nonce has one operation *)

\* The rows, with the one that is just being stored.
Bound == IF mode = "sent" THEN Stored(Last(ongoing)) ELSE ethOps

\* The operation of a transaction is bound to its nonce.
IsBound(tx) == tx.nonce + 1 \in 1 .. Len(Bound) /\ Bound[tx.nonce + 1].op = tx.op

LEMMA BoundRows ==
  ASSUME Inv
  PROVE  /\ Bound \in Seq(Rows) /\ Len(Bound) \in Nat /\ Len(ethOps) <= Len(Bound)
         /\ ethOps \in Seq(Rows) /\ Len(ethOps) \in Nat
         /\ \A i \in 1 .. Len(ethOps) : Bound[i] = ethOps[i]
         /\ mode = "sent" =>
               /\ Len(Bound) = Len(ethOps) + 1 /\ Last(ongoing) \in Entries
               /\ Last(ongoing).nonce = Len(ethOps)
               /\ Bound[Len(ethOps) + 1].op = Last(ongoing).op
               /\ Bound[Len(ethOps) + 1].txs = Last(ongoing).txs
               /\ Bound[Len(ethOps) + 1].confirmed = FALSE
         /\ \E c, v \in Nat : Enumerates(Bound, "Commit", c) /\ Enumerates(Bound, "Verify", v)
         /\ CommittedFirst(Bound)
<1>1. Types /\ Counts /\ Queued
  BY DEF Inv
<1>2. /\ ethOps \in Seq(Rows) /\ Len(ethOps) \in Nat
      /\ params \in [nonce : Nat, commit : Nat, verify : Nat, withdraw : Nat]
  BY <1>1, LenProperties DEF Types, TableTypes
<1>3. CASE mode # "sent"
  BY <1>1, <1>2, <1>3 DEF Bound, Counts, TableCounts
<1>4. CASE mode = "sent"
  <2> DEFINE e == Last(ongoing)
             row == [op |-> e.op, nonce |-> e.nonce, txs |-> e.txs, confirmed |-> FALSE]
  <2>1. e \in Entries /\ e.nonce = params.nonce
    <3>1. ongoing \in Seq(Entries) /\ ongoing # <<>> /\ e.nonce = params.nonce
      BY <1>1, <1>4 DEF Types, MemoryTypes, Queued
    <3> QED BY <3>1, LastTyped
  <2>2. params.nonce = Len(ethOps)
    BY <1>1 DEF Counts, TableCounts
  <2>3. Bound = Append(ethOps, row)
    BY <1>4 DEF Bound, Stored
  <2>4. TableCounts(Bound, Counted(e.op))
    BY <1>4, StoredCounts DEF Bound
  <2> HIDE DEF e
  <2>5. row \in Rows /\ row.op = e.op /\ row.txs = e.txs /\ row.confirmed = FALSE
    BY <2>1 DEF Rows, Entries
  <2> HIDE DEF row
  <2>6. /\ Bound \in Seq(Rows) /\ Len(Bound) = Len(ethOps) + 1
        /\ Bound[Len(ethOps) + 1] = row
        /\ \A i \in 1 .. Len(ethOps) : Bound[i] = ethOps[i]
    BY <1>2, <2>3, <2>5, AppendProperties
  <2>7. Counted(e.op).commit \in Nat /\ Counted(e.op).verify \in Nat
    <3>1. Counted(e.op) \in [nonce : Nat, commit : Nat, verify : Nat, withdraw : Nat]
      BY <1>2, CountedFields
    <3> QED BY <3>1
  <2>8. /\ \E c, v \in Nat : Enumerates(Bound, "Commit", c) /\ Enumerates(Bound, "Verify", v)
        /\ CommittedFirst(Bound)
    BY <2>4, <2>7 DEF TableCounts
  <2>9. Len(Bound) \in Nat /\ Len(ethOps) <= Len(Bound)
    BY <1>2, <2>6
  <2> QED BY <1>2, <2>1, <2>2, <2>5, <2>6, <2>8, <2>9 DEF e
<1> QED BY <1>3, <1>4

\* The transaction being stored is bound, as are those of the table: so all that were sent.
LEMMA SentIsBound ==
  ASSUME Inv, \A tx \in sent \ Unsaved : Recorded(tx)
  PROVE  \A tx \in sent : IsBound(tx)
<1> SUFFICES ASSUME NEW tx \in sent
             PROVE  IsBound(tx)
  OBVIOUS
<1>1. Types /\ Remembered
  BY DEF Inv
<1>2. CASE tx \notin Unsaved
  <2>1. Recorded(tx)
    BY <1>2
  <2>2. /\ tx.nonce + 1 \in 1 .. Len(ethOps) /\ ethOps[tx.nonce + 1].op = tx.op
    BY <2>1 DEF Recorded
  <2>3. tx.nonce + 1 \in 1 .. Len(Bound)
    BY <2>2, BoundRows
  <2> QED BY <2>2, <2>3, BoundRows DEF IsBound
<1>3. CASE tx \in Unsaved /\ mode = "sent"
  <2>1. tx.nonce = Last(ongoing).nonce /\ tx.op = Last(ongoing).op
    BY <1>3 DEF Unsaved, Tx
  <2>2. /\ Len(Bound) = Len(ethOps) + 1 /\ tx.nonce = Len(ethOps) /\ Len(ethOps) \in Nat
        /\ Bound[Len(ethOps) + 1].op = Last(ongoing).op
    BY <1>3, <2>1, BoundRows
  <2> QED BY <2>1, <2>2 DEF IsBound
<1>4. CASE tx \in Unsaved /\ mode = "resent"
  <2>1. tx.nonce = Current.nonce /\ tx.op = Current.op
    BY <1>4 DEF Unsaved, Tx
  <2>2. /\ Current.row \in 1 .. Len(ethOps) /\ Current.nonce = Current.row - 1
        /\ Current.op = ethOps[Current.row].op
    BY <1>1, <1>4, ResentHasRow
  <2>3. tx.nonce + 1 = Current.row /\ Bound = ethOps
    BY <1>4, <2>1, <2>2 DEF Bound
  <2> QED BY <2>1, <2>2, <2>3 DEF IsBound
<1> QED BY <1>2, <1>3, <1>4 DEF Unsaved

\* A commit or a verification is bound once.
LEMMA BoundOnce ==
  ASSUME Inv, NEW i \in 1 .. Len(Bound), NEW j \in 1 .. Len(Bound),
         Bound[i].op = Bound[j].op, Bound[i].op # WithdrawOp
  PROVE  i = j
<1>1. Bound[i] \in Rows
  BY BoundRows, ElementOfSeq
<1>2. Bound[i].op \in Ops
  BY <1>1 DEF Rows
<1>3. Bound[i].op.type \in {"Commit", "Verify"} /\ Bound[i].op.block \in Int
  BY <1>2, OpTypes
<1>4. PICK c \in Nat, v \in Nat : Enumerates(Bound, "Commit", c) /\ Enumerates(Bound, "Verify", v)
  BY BoundRows
<1>5. ~ (i < j) /\ ~ (j < i)
  BY <1>3, <1>4 DEF Enumerates
<1> QED BY <1>5, BoundRows

LEMMA OneNonce ==
  ASSUME Inv, \A tx \in sent \ Unsaved : Recorded(tx)
  PROVE  OneOperationPerNonce
<1> SUFFICES ASSUME NEW s \in sent, NEW t \in sent
             PROVE  /\ s.nonce = t.nonce => s.op = t.op
                    /\ s.op = t.op /\ s.op # WithdrawOp => s.nonce = t.nonce
  BY DEF OneOperationPerNonce
<1>1. IsBound(s) /\ IsBound(t)
  BY SentIsBound
<1>2. s.nonce \in Nat /\ t.nonce \in Nat
  BY DEF Inv, Types, ChainTypes, Txs
<1>3. s.nonce = t.nonce => s.op = t.op
  BY <1>1 DEF IsBound
<1>4. ASSUME s.op = t.op, s.op # WithdrawOp
      PROVE  s.nonce = t.nonce
  <2>1. s.nonce + 1 = t.nonce + 1
    BY <1>1, <1>4, BoundOnce DEF IsBound
  <2> QED BY <1>2, <2>1
<1> QED BY <1>3, <1>4

-----------------------------------------------------------------------------
(* The contract accepts what is mined *)

\* The last block of a type among the first n rows is count.
IsLast(rows, n, type, count) ==
    /\ \A i \in 1 .. n : rows[i].op.type = type => rows[i].op.block <= count
    /\ count # 0 => \E i \in 1 .. n : rows[i].op = Op(type, count)

\* The next row of a type has the block after the last one counted.
LEMMA NextBlock ==
  ASSUME NEW rows \in Seq(Rows), NEW type, NEW last \in Nat, Enumerates(rows, type, last),
         NEW n \in Nat, n + 1 <= Len(rows), rows[n + 1].op.type = type, NEW count \in Nat,
         IsLast(rows, n, type, count)
  PROVE  rows[n + 1].op.block = count + 1
<1> DEFINE b == rows[n + 1].op.block
<1>1. Len(rows) \in Nat
  BY LenProperties
<1>2. n + 1 \in 1 .. Len(rows) /\ \A i \in 1 .. n : i \in 1 .. Len(rows) /\ i < n + 1
  BY <1>1
<1>3. b \in 1 .. last
  BY <1>2 DEF Enumerates
<1>4. count # 0 => count < b
  <2> SUFFICES ASSUME count # 0
               PROVE  count < b
    OBVIOUS
  <2>1. PICK i \in 1 .. n : rows[i].op = Op(type, count)
    BY DEF IsLast
  <2>2. rows[i].op.type = type /\ rows[i].op.block = count
    BY <2>1, OpFields
  <2> QED BY <1>2, <2>2 DEF Enumerates
<1>5. b # 1 => b - 1 <= count
  <2> SUFFICES ASSUME b # 1
               PROVE  b - 1 <= count
    OBVIOUS
  <2>1. b - 1 \in 1 .. last
    BY <1>3
  <2>2. PICK j \in 1 .. Len(rows) : rows[j].op = Op(type, b - 1)
    BY <2>1 DEF Enumerates
  <2>3. rows[j].op.type = type /\ rows[j].op.block = b - 1
    BY <2>2, OpFields
  <2>4. ~ (n + 1 < j)
    <3>1. n + 1 < j => b < rows[j].op.block
      BY <1>2, <2>3 DEF Enumerates
    <3> QED BY <1>3, <2>3, <3>1
  <2>5. j # n + 1
    BY <1>3, <2>3
  <2>6. j \in 1 .. n
    BY <1>1, <2>4, <2>5
  <2> QED BY <2>3, <2>6 DEF IsLast
<1> QED BY <1>3, <1>4, <1>5

LEMMA ContractTyped ==
  ASSUME Inv, NEW n \in 0 .. Len(mined)
  PROVE  ContractAfter(n) \in Contracts
<1>1. mined \in Seq(Included)
  BY DEF Inv, Types, ChainTypes
<1>2. CASE n = 0
  BY <1>2 DEF ContractAfter, Contracts
<1>3. CASE n # 0
  <2>1. mined[n] \in Included
    BY <1>1, <1>3, ElementOfSeq
  <2> QED BY <1>3, <2>1 DEF ContractAfter, Included
<1> QED BY <1>2, <1>3

\* Every transaction that was sent is accepted, whenever its nonce is the next one.
LEMMA SentIsAccepted ==
  ASSUME Inv, \A tx \in sent \ Unsaved : Recorded(tx), ContractFollows,
         NEW tx \in sent, tx.nonce \in 0 .. Len(mined)
  PROVE  Accepts(ContractAfter(tx.nonce), tx.op)
<1> DEFINE n == tx.nonce
           c == ContractAfter(n)
<1>1. n \in Nat /\ Len(mined) \in Nat
  BY LenProperties DEF Inv, Types, ChainTypes
<1>2. c \in Contracts
  BY ContractTyped
<1>3. n + 1 \in 1 .. Len(Bound) /\ Bound[n + 1].op = tx.op
  BY SentIsBound DEF IsBound
<1>4. \A i \in 1 .. n : mined[i].tx.op = Bound[i].op
  <2> SUFFICES ASSUME NEW i \in 1 .. n
               PROVE  mined[i].tx.op = Bound[i].op
    OBVIOUS
  <2>1. i \in 1 .. Len(mined)
    BY <1>1
  <2>2. mined[i].tx \in sent /\ mined[i].tx.nonce = i - 1
    BY <2>1 DEF Inv, InOrder
  <2>3. IsBound(mined[i].tx)
    BY <2>2, SentIsBound
  <2>4. mined[i].tx.nonce + 1 = i
    BY <2>2
  <2> QED BY <2>3, <2>4 DEF IsBound
<1>5. CountsMined(n, "Commit", c.committed) /\ CountsMined(n, "Verify", c.verified)
  BY DEF ContractFollows
<1> HIDE DEF c
<1>6. /\ Bound \in Seq(Rows) /\ CommittedFirst(Bound) /\ Len(Bound) \in Nat
      /\ \E k, v \in Nat : Enumerates(Bound, "Commit", k) /\ Enumerates(Bound, "Verify", v)
  BY BoundRows
<1>7. PICK k \in Nat, v \in Nat : Enumerates(Bound, "Commit", k) /\ Enumerates(Bound, "Verify", v)
  BY <1>6
<1>8. n + 1 <= Len(Bound) /\ c.committed \in Nat /\ c.verified \in Nat
  BY <1>2, <1>3 DEF Contracts
<1>9. CASE tx.op.type = "Commit"
  <2>1. IsLast(Bound, n, "Commit", c.committed)
    BY <1>4, <1>5 DEF CountsMined, IsLast
  <2>2. Bound[n + 1].op.type = "Commit"
    BY <1>3, <1>9
  <2>3. tx.op.block = c.committed + 1
    <3> HIDE DEF n
    <3>1. Bound[n + 1].op.block = c.committed + 1
      BY <1>1, <1>6, <1>7, <1>8, <2>1, <2>2, NextBlock
    <3> QED BY <1>3, <3>1
  <2> QED BY <1>9, <2>3 DEF Accepts, c
<1>10. CASE tx.op.type = "Verify"
  <2>1. IsLast(Bound, n, "Verify", c.verified)
    BY <1>4, <1>5 DEF CountsMined, IsLast
  <2>2. Bound[n + 1].op.type = "Verify"
    BY <1>3, <1>10
  <2>3. tx.op.block = c.verified + 1
    <3> HIDE DEF n
    <3>1. Bound[n + 1].op.block = c.verified + 1
      BY <1>1, <1>6, <1>7, <1>8, <2>1, <2>2, NextBlock
    <3> QED BY <1>3, <3>1
  <2>4. PICK j \in 1 .. (n + 1) - 1 : Bound[j].op = Op("Commit", tx.op.block)
    BY <1>3, <1>6, <2>2 DEF CommittedFirst
  <2>5. j \in 1 .. n /\ Bound[j].op.type = "Commit" /\ Bound[j].op.block = tx.op.block
    BY <1>1, <2>4, OpFields
  <2>6. tx.op.block <= c.committed
    BY <1>4, <1>5, <2>5 DEF CountsMined
  <2> QED BY <1>10, <2>3, <2>6 DEF Accepts, c
<1>11. CASE tx.op.type = "Withdraw"
  BY <1>11 DEF Accepts
<1>12. tx.op \in Ops
  BY DEF Inv, Types, ChainTypes, Txs
<1> QED BY <1>9, <1>10, <1>11, <1>12, OpTypes

LEMMA ChainAccepted ==
  ASSUME Inv, \A tx \in sent \ Unsaved : Recorded(tx), ContractFollows
  PROVE  NothingReverts
<1> SUFFICES ASSUME NEW i \in DOMAIN mined
             PROVE  Accepts(ContractAfter(mined[i].tx.nonce), mined[i].tx.op)
  BY DEF NothingReverts, Reverted
<1>1. DOMAIN mined = 1 .. Len(mined) /\ Len(mined) \in Nat
  BY LenProperties DEF Inv, Types, ChainTypes
<1>2. mined[i].tx \in sent /\ mined[i].tx.nonce = i - 1
  BY <1>1 DEF Inv, InOrder
<1>3. mined[i].tx.nonce \in 0 .. Len(mined)
  BY <1>1, <1>2
<1> QED BY <1>2, <1>3, SentIsAccepted

-----------------------------------------------------------------------------
(* Faults *)

\* What a step may use up: a failed commit loses what was sent, as does a crash or a
\* failed replacement while the transaction is not stored.
LEMMA FaultsUsed ==
  ASSUME Inv, Next
  PROVE  /\ faults'.lost <= faults.lost /\ faults'.crashes <= faults.crashes
         /\ SaveNewOperationFails => faults'.lost < faults.lost
         /\ SaveSupplementFails /\ Losing => faults'.lost < faults.lost
         /\ Crash /\ Losing => faults'.lost < faults.lost
         /\ Crash => faults'.crashes < faults.crashes
<1>1. /\ faults \in Faults /\ faults.lost \in Int /\ faults.crashes \in Int
  BY SenderAssumption DEF Inv, Types, Faults
<1>2. ASSUME UNCHANGED faults
      PROVE  /\ faults'.lost <= faults.lost /\ faults'.crashes <= faults.crashes
  BY <1>1, <1>2
<1>3. /\ [faults EXCEPT !.lost = @ - 1].lost = faults.lost - 1
      /\ [faults EXCEPT !.lost = @ - 1].crashes = faults.crashes
      /\ [faults EXCEPT !.errors = @ - 1].lost = faults.lost
      /\ [faults EXCEPT !.errors = @ - 1].crashes = faults.crashes
      /\ [faults EXCEPT !.raises = @ - 1].lost = faults.lost
      /\ [faults EXCEPT !.raises = @ - 1].crashes = faults.crashes
      /\ [faults EXCEPT !.reorgs = @ - 1].lost = faults.lost
      /\ [faults EXCEPT !.reorgs = @ - 1].crashes = faults.crashes
  BY <1>1 DEF Faults
<1>4. SaveNewOperationFails =>
        faults'.lost = faults.lost - 1 /\ faults'.crashes = faults.crashes
  BY <1>3 DEF SaveNewOperationFails
<1>5. SaveSupplementFails =>
        /\ faults'.lost = IF Losing THEN faults.lost - 1 ELSE faults.lost
        /\ faults'.crashes = faults.crashes
  BY <1>3 DEF SaveSupplementFails
<1>6. Crash => /\ faults'.lost = IF Losing THEN faults.lost - 1 ELSE faults.lost
               /\ faults'.crashes = faults.crashes - 1
  <2> SUFFICES ASSUME Crash
               PROVE  /\ faults'.lost = IF Losing THEN faults.lost - 1 ELSE faults.lost
                      /\ faults'.crashes = faults.crashes - 1
    OBVIOUS
  <2>1. faults' = [faults EXCEPT !.crashes = @ - 1, !.lost = IF Losing THEN @ - 1 ELSE @]
    BY DEF Crash
  <2> QED BY <1>1, <2>1 DEF Faults
<1>7. CASE \/ LoadNewOperations \/ InitializeOperation \/ SaveNewOperation \/ AllSent
           \/ ConfirmOperation \/ FailureHandler \/ WaitForTransaction
           \/ CheckNextTransaction \/ SaveSupplement \/ EndOfRound \/ LoadingFails \/ Restart
  <2>1. UNCHANGED faults
    BY <1>7 DEF LoadNewOperations, InitializeOperation, SaveNewOperation, AllSent,
       ConfirmOperation, FailureHandler, WaitForTransaction, CheckNextTransaction,
       SaveSupplement, EndOfRound, LoadingFails, Restart
  <2> QED BY <1>1, <1>2, <1>4, <1>5, <1>6, <2>1
<1>8. CASE NewCommitOperation \/ NewVerifyOperation \/ (\E tx \in sent : Mine(tx)) \/ Deepen
  <2>1. UNCHANGED faults
    BY <1>8 DEF NewCommitOperation, NewVerifyOperation, Mine, Deepen
  <2> QED BY <1>1, <1>2, <1>4, <1>5, <1>6, <2>1
<1>9. CASE SkipOperation \/ SupplementNotStored \/ Reorg
           \/ \E nonce \in 0 .. params.nonce : SendSupplement(nonce, BOOLEAN)
  <2>1. faults'.lost = faults.lost /\ faults'.crashes = faults.crashes
    BY <1>3, <1>9 DEF SkipOperation, SupplementNotStored, Reorg, SendSupplement, RaiseTo
  <2> QED BY <1>1, <1>4, <1>5, <1>6, <2>1
<1>10. CASE SaveNewOperationFails \/ SaveSupplementFails \/ Crash
  BY <1>1, <1>4, <1>5, <1>6, <1>10
<1> QED BY <1>7, <1>8, <1>9, <1>10 DEF Next, SenderStep, Failure, Environment

\* As long as nothing is lost, nothing was.
LEMMA StillNothingLost ==
  ASSUME Inv, Next, NothingLost'
  PROVE  /\ NothingLost /\ ~ SaveNewOperationFails
         /\ SaveSupplementFails \/ Crash => ~ Losing
<1>1. faults.lost \in 0 .. MaxLost /\ MaxLost \in Nat /\ faults'.lost = MaxLost
  BY SenderAssumption DEF Inv, Types, Faults, NothingLost
<1>2. faults'.lost \in Int /\ faults.lost \in Int
  BY <1>1
<1>3. faults'.lost <= faults.lost
  BY FaultsUsed
<1>4. faults.lost = MaxLost
  BY <1>1, <1>3
<1>5. ~ (faults'.lost < faults.lost)
  BY <1>1, <1>4
<1> QED BY <1>4, <1>5, FaultsUsed DEF NothingLost

-----------------------------------------------------------------------------
(* The table has what was sent *)

LEMMA RecordedStays ==
  ASSUME Inv, RowsKept, Inv', NEW tx, Recorded(tx)
  PROVE  Recorded(tx)'
<1>1. Len(ethOps) \in Nat /\ Len(ethOps') \in Nat /\ Len(ethOps) <= Len(ethOps')
  BY LenProperties DEF Inv, Types, TableTypes, RowsKept
<1>2. tx.nonce + 1 \in 1 .. Len(ethOps)
  BY DEF Recorded
<1>3. tx.nonce + 1 \in 1 .. Len(ethOps')
  BY <1>1, <1>2
<1> QED BY <1>2, <1>3 DEF Recorded, RowsKept

\* A hash the table has is that of a row with this operation and this nonce.
LEMMA RowsOfRecorded ==
  ASSUME Inv, NEW tx, RowsOf(tx) # {}
  PROVE  Recorded(tx)
BY OneRow DEF Inv, Recorded

\* Prices are remembered in ascending order.
LEMMA RememberLargest ==
  ASSUME NEW txs \in Seq(Prices), NEW price \in Prices, LastIsLargest(txs),
         \A k \in 1 .. Len(txs) : txs[k] <= price
  PROVE  /\ LastIsLargest(Remember(txs, price))
         /\ Last(Remember(txs, price)) = price
<1>1. /\ Len(txs) \in Nat /\ DOMAIN txs = 1 .. Len(txs)
      /\ \A k \in 1 .. Len(txs) : txs[k] \in Prices
  BY LenProperties, ElementOfSeq
<1>2. \A p \in Prices : p \in Int
  BY SenderAssumption DEF Prices
<1>3. CASE price \in Range(txs)
  <2>1. PICK k \in 1 .. Len(txs) : txs[k] = price
    BY <1>1, <1>3 DEF Range
  <2>2. Len(txs) \in 1 .. Len(txs)
    BY <1>1
  <2>3. price <= txs[Len(txs)] /\ txs[Len(txs)] <= price /\ txs[Len(txs)] \in Prices
    BY <1>1, <2>1, <2>2 DEF LastIsLargest
  <2>4. txs[Len(txs)] = price
    BY <1>2, <2>3
  <2> QED BY <1>3, <2>4 DEF Remember, Last
<1>4. CASE price \notin Range(txs)
  <2> DEFINE s == Append(txs, price)
  <2>1. /\ Len(s) = Len(txs) + 1 /\ s[Len(txs) + 1] = price
        /\ \A k \in 1 .. Len(txs) : s[k] = txs[k]
    BY AppendProperties
  <2> HIDE DEF s
  <2>2. ASSUME NEW k \in 1 .. Len(s)
        PROVE  s[k] <= s[Len(s)]
    <3>1. CASE k = Len(txs) + 1
      BY <1>2, <2>1, <3>1
    <3>2. CASE k # Len(txs) + 1
      <4>1. k \in 1 .. Len(txs)
        BY <1>1, <2>1, <3>2
      <4> QED BY <2>1, <4>1
    <3> QED BY <3>1, <3>2
  <2>3. LastIsLargest(s) /\ Last(s) = price
    BY <2>1, <2>2 DEF LastIsLargest, Last
  <2> QED BY <1>4, <2>3 DEF Remember, s
<1> QED BY <1>3, <1>4

\* The price of a replacement is at least that of the transaction it replaces, and is
\* remembered last.
LEMMA ReplacementIsLast ==
  ASSUME Inv, IsStuck, MemoryIsOpenRows, NEW price \in RetryPrices(CurrentTx.price)
  PROVE  /\ LastIsLargest(Remember(Current.txs, price))
         /\ Last(Remember(Current.txs, price)) = price
<1>1. /\ cursor \in 1 .. Len(ongoing) /\ Current.txs \in Seq(Prices)
      /\ Last(Current.txs) \in Prices /\ price \in Prices /\ Last(Current.txs) <= price
  BY StuckTyped DEF Inv
<1>2. LastIsLargest(Current.txs)
  BY <1>1 DEF MemoryIsOpenRows, OpenEntry, Current
<1>3. \A p \in Prices : p \in Int
  BY SenderAssumption DEF Prices
<1>4. \A k \in 1 .. Len(Current.txs) : Current.txs[k] <= price
  <2> TAKE k \in 1 .. Len(Current.txs)
  <2>1. Current.txs[k] \in Prices /\ Current.txs[k] <= Last(Current.txs)
    BY <1>1, <1>2, ElementOfSeq DEF LastIsLargest, Last
  <2> QED BY <1>1, <1>3, <2>1
<1> QED BY <1>1, <1>2, <1>4, RememberLargest

\* What is sent is being stored, and stored before anything else is sent.
LEMMA RecordedNext ==
  ASSUME Inv, Inv', Next, Safe, NothingLost'
  PROVE  (\A tx \in sent \ Unsaved : Recorded(tx))'
<1> SUFFICES ASSUME NEW tx \in sent', tx \notin Unsaved'
             PROVE  Recorded(tx)'
  OBVIOUS
<1>1. RowsKept
  BY RowsKeptNext
<1>2. \A t \in sent \ Unsaved : Recorded(t)
  BY DEF Safe
<1>3. ASSUME tx \in sent \ Unsaved
      PROVE  Recorded(tx)'
  <2>1. Recorded(tx)
    BY <1>2, <1>3
  <2> QED BY <1>1, <2>1, RecordedStays
<1>4. ASSUME sent' = sent, mode \notin {"sent", "resent"}
      PROVE  Recorded(tx)'
  <2>1. Unsaved = {}
    BY <1>4 DEF Unsaved
  <2> QED BY <1>3, <1>4, <2>1
<1>5. CASE \/ LoadNewOperations \/ LoadingFails \/ AllSent \/ ConfirmOperation
           \/ FailureHandler \/ WaitForTransaction \/ CheckNextTransaction \/ SkipOperation
           \/ SupplementNotStored \/ EndOfRound \/ Restart
  BY <1>4, <1>5 DEF LoadNewOperations, LoadingFails, AllSent, ConfirmOperation,
     FailureHandler, WaitForTransaction, CheckNextTransaction, SkipOperation,
     SupplementNotStored, EndOfRound, Restart, Checking, IsStuck, ethereum
<1>6. CASE NewCommitOperation \/ NewVerifyOperation \/ (\E t \in sent : Mine(t)) \/ Deepen
           \/ Reorg
  <2>1. UNCHANGED <<mode, ongoing, cursor, sent>>
    BY <1>6 DEF NewCommitOperation, NewVerifyOperation, Mine, Deepen, Reorg, memory, ethereum
  <2>2. Unsaved' = Unsaved
    BY <2>1 DEF Unsaved, Last, Current
  <2> QED BY <1>3, <2>1, <2>2
<1>7. CASE InitializeOperation
  <2>1. PICK op \in NextOperation(queue), price \in Prices, arrives \in BOOLEAN :
          /\ ongoing' = Append(ongoing, [row |-> 0, op |-> op, nonce |-> params.nonce,
                                         txs |-> <<price>>])
          /\ sent' = IF arrives THEN sent \cup {Tx(params.nonce, op, price)} ELSE sent
    BY <1>7 DEF InitializeOperation
  <2>2. mode = "sending" /\ mode' = "sent"
    BY <1>7 DEF InitializeOperation
  <2> DEFINE e == [row |-> 0, op |-> op, nonce |-> params.nonce, txs |-> <<price>>]
  <2>3. e.nonce = params.nonce /\ e.op = op /\ e.txs[1] = price
    OBVIOUS
  <2>4. IsSeq(ongoing)
    <3>1. ongoing \in Seq(Entries)
      BY DEF Inv, Types, MemoryTypes
    <3>2. Len(ongoing) \in Nat /\ ongoing \in [1 .. Len(ongoing) -> Entries]
      BY <3>1, LenProperties
    <3> QED BY <3>2, FunctionIsSeq
  <2>5. ongoing' = Append(ongoing, e)
    BY <2>1
  <2> HIDE DEF e
  <2>6. Last(ongoing') = e
    BY <2>4, <2>5, AppendKeeps DEF Last
  <2>7. Unsaved' = {Tx(params.nonce, op, price)}
    BY <2>2, <2>3, <2>6 DEF Unsaved
  <2>8. Unsaved = {}
    BY <2>2 DEF Unsaved
  <2> QED BY <1>3, <2>1, <2>7, <2>8
<1>8. CASE SaveNewOperation
  <2> DEFINE e == Last(ongoing)
             n == Len(ethOps)
  <2>1. mode = "sent" /\ sent' = sent /\ ethOps' = Stored(e)
    BY <1>8 DEF SaveNewOperation, ethereum
  <2>2. ethOps' = Bound /\ Unsaved = {Tx(e.nonce, e.op, e.txs[1])}
    BY <2>1 DEF Bound, Unsaved
  <2>3. /\ n \in Nat /\ Len(ethOps') = n + 1 /\ e \in Entries /\ e.nonce = n
        /\ ethOps'[n + 1].op = e.op /\ ethOps'[n + 1].txs = e.txs
    BY <2>1, <2>2, BoundRows
  <2>4. e.txs # <<>>
    <3>1. ongoing \in Seq(Entries) /\ ongoing # <<>>
      BY <2>1 DEF Inv, Queued, Types, MemoryTypes
    <3>2. Len(ongoing) \in 1 .. Len(ongoing)
      BY <3>1, LastTyped
    <3> QED BY <3>2 DEF Inv, Remembered, Agrees, Last
  <2>5. e.txs[1] \in Range(e.txs)
    <3>1. e.txs \in Seq(Prices)
      BY <2>3 DEF Entries
    <3>2. Len(e.txs) \in Nat \ {0} /\ DOMAIN e.txs = 1 .. Len(e.txs)
      BY <2>4, <3>1, EmptySeq, LenProperties
    <3> QED BY <3>2 DEF Range
  <2> HIDE DEF e
  <2>6. CASE tx = Tx(e.nonce, e.op, e.txs[1])
    <3>1. tx.nonce = n /\ tx.op = e.op /\ tx.price = e.txs[1]
      BY <2>3, <2>6 DEF Tx
    <3> QED BY <2>3, <2>5, <3>1 DEF Recorded
  <2> QED BY <1>3, <2>1, <2>2, <2>6
<1>9. CASE \E nonce \in 0 .. params.nonce : SendSupplement(nonce, BOOLEAN)
  <2>1. PICK nonce \in 0 .. params.nonce : SendSupplement(nonce, BOOLEAN)
    BY <1>9
  <2>2. PICK price \in RetryPrices(CurrentTx.price), arrives \in BOOLEAN :
          /\ ongoing' = [ongoing EXCEPT ![cursor].txs = Remember(@, price)]
          /\ sent' = IF arrives THEN sent \cup {Tx(nonce, Current.op, price)} ELSE sent
    BY <2>1 DEF SendSupplement
  <2>3. /\ IsStuck /\ Current.nonce = nonce /\ mode = "checking" /\ mode' = "resent"
        /\ cursor' = cursor
    BY <2>1 DEF SendSupplement, IsStuck, Checking
  <2>4. Last(Remember(Current.txs, price)) = price
    BY <2>3, ReplacementIsLast DEF Safe
  <2>5. cursor \in 1 .. Len(ongoing) /\ Current \in Entries /\ ongoing \in Seq(Entries)
    BY <2>3, StuckTyped DEF Inv, Types, MemoryTypes
  <2> DEFINE e == [Current EXCEPT !.txs = Remember(Current.txs, price)]
  <2>6. /\ e.nonce = nonce /\ e.op = Current.op /\ Last(e.txs) = price
    BY <2>3, <2>4, <2>5 DEF Entries
  <2>7. ongoing' = [ongoing EXCEPT ![cursor] = e]
    BY <2>2 DEF Current
  <2> HIDE DEF e
  <2>8. Current' = e
    <3>1. DOMAIN ongoing = 1 .. Len(ongoing)
      BY <2>5, LenProperties
    <3> QED BY <2>3, <2>5, <2>7, <3>1 DEF Current
  <2>9. Unsaved' = {Tx(nonce, Current.op, price)}
    <3>1. Unsaved' = {Tx(Current'.nonce, Current'.op, Last(Current'.txs))}
      BY <2>3 DEF Unsaved
    <3> QED BY <2>6, <2>8, <3>1
  <2>10. Unsaved = {}
    BY <2>3 DEF Unsaved
  <2> QED BY <1>3, <2>2, <2>9, <2>10
<1>10. CASE SaveSupplement
  <2>1. mode = "resent" /\ sent' = sent
    BY <1>10 DEF SaveSupplement, ethereum
  <2>2. Unsaved = {Tx(Current.nonce, Current.op, Last(Current.txs))}
    BY <2>1 DEF Unsaved
  <2>3. /\ Current.row \in 1 .. Len(ethOps) /\ Current.nonce = Current.row - 1
        /\ Current.op = ethOps[Current.row].op /\ Last(Current.txs) \in Prices
    BY <2>1, ResentHasRow DEF Inv
  <2> DEFINE r == Current.row
  <2>4. /\ Len(ethOps') = Len(ethOps) /\ ethOps'[r].op = ethOps[r].op
        /\ ethOps'[r].txs = Remember(ethOps[r].txs, Last(Current.txs))
    BY <1>10, <2>3, SupplementKeepsRows DEF Inv
  <2>5. Last(Current.txs) \in Range(ethOps'[r].txs)
    <3>1. ethOps \in Seq(Rows)
      BY DEF Inv, Types, TableTypes
    <3>2. ethOps[r] \in Rows
      BY <2>3, <3>1, ElementOfSeq
    <3>3. ethOps[r].txs \in Seq(Prices)
      BY <3>2 DEF Rows
    <3> QED BY <2>3, <2>4, <3>3, RememberTyped
  <2>6. CASE tx = Tx(Current.nonce, Current.op, Last(Current.txs))
    <3>1. tx.nonce + 1 = r /\ tx.op = Current.op /\ tx.price = Last(Current.txs)
      BY <2>3, <2>6 DEF Tx
    <3> QED BY <2>3, <2>4, <2>5, <3>1 DEF Recorded
  <2> QED BY <1>3, <2>1, <2>2, <2>6
<1>11. CASE SaveSupplementFails \/ Crash
  <2>1. sent' = sent /\ ~ Losing
    BY <1>11, StillNothingLost DEF SaveSupplementFails, Crash, ethereum
  <2>2. CASE tx \in Unsaved
    <3>1. RowsOf(tx) # {}
      BY <2>1, <2>2 DEF Losing
    <3>2. Recorded(tx)
      BY <3>1, RowsOfRecorded
    <3> QED BY <1>1, <3>2, RecordedStays
  <2> QED BY <1>3, <2>1, <2>2
<1>12. ~ SaveNewOperationFails
  BY StillNothingLost
<1> QED BY <1>5, <1>6, <1>7, <1>8, <1>9, <1>10, <1>11, <1>12
        DEF Next, SenderStep, Failure, Environment

-----------------------------------------------------------------------------
(* The open rows *)

LEMMA OpenFinite ==
  ASSUME Inv
  PROVE  IsFiniteSet(Open) /\ Cardinality(Open) \in Nat /\ Open \subseteq 1 .. Len(ethOps)
BY UnconfirmedRows DEF Inv, Types, TableTypes, Open

LEMMA InFlightTyped == Inv => InFlight \in Nat
  BY OpenFinite DEF InFlight

LEMMA InFlightTypedNext == Inv' => (InFlight \in Nat)'
  BY InFlightTyped, PTL

\* A stored row is open.
LEMMA OpenAppend ==
  ASSUME Inv, SaveNewOperation
  PROVE  /\ Len(ethOps) + 1 \notin Open /\ Open' = Open \cup {Len(ethOps) + 1}
         /\ Cardinality(Open') = Cardinality(Open) + 1
<1>1. mode = "sent" /\ ethOps' = Bound
  BY DEF SaveNewOperation, Bound
<1>2. /\ Len(ethOps) \in Nat /\ Len(ethOps') = Len(ethOps) + 1
      /\ ethOps'[Len(ethOps) + 1].confirmed = FALSE
      /\ \A i \in 1 .. Len(ethOps) : ethOps'[i] = ethOps[i]
  BY <1>1, BoundRows
<1>3. \A i : i \in 1 .. Len(ethOps) + 1 <=> i \in 1 .. Len(ethOps) \/ i = Len(ethOps) + 1
  BY <1>2
<1>4. Open' = Open \cup {Len(ethOps) + 1}
  BY <1>2, <1>3 DEF Open
<1>5. Len(ethOps) + 1 \notin Open
  BY <1>2 DEF Open
<1> QED BY <1>4, <1>5, OpenFinite, FS_AddElement

\* Of those in memory it is the one looked at that is confirmed, and there is a slot
\* to free.
LEMMA ConfirmsCurrent ==
  ASSUME Inv, MemoryIsOpenRows, ConfirmOperation
  PROVE  /\ cursor \in 1 .. Len(ongoing) /\ Len(ongoing) \in Nat /\ mode = "checking"
         /\ Current.row \in Open /\ Current.op = ethOps[Current.row].op
         /\ queue.pending = Len(ongoing) /\ queue.pending # 0
         /\ Len(ethOps') = Len(ethOps)
         /\ \A i \in 1 .. Len(ethOps) :
               /\ ethOps'[i].op = ethOps[i].op /\ ethOps'[i].txs = ethOps[i].txs
               /\ ethOps'[i].confirmed = IF i = Current.row THEN TRUE ELSE ethOps[i].confirmed
         /\ Open' = Open \ {Current.row} /\ Cardinality(Open') = Cardinality(Open) - 1
<1>1. Checking
  BY DEF ConfirmOperation
<1>2. mode = "checking" /\ cursor \in 1 .. Len(ongoing) /\ Len(ongoing) \in Nat
  BY <1>1, LenProperties DEF Checking, Inv, Types, MemoryTypes
<1>3. Current.row # 0 /\ Current.row \in Open
  BY <1>2 DEF MemoryIsOpenRows, OpenEntry, Current
<1>4. Agrees(Current, ethOps)
  BY <1>2 DEF Inv, Remembered, Current
<1>5. /\ Current.row \in 1 .. Len(ethOps) /\ Current.nonce = Current.row - 1
      /\ Current.op = ethOps[Current.row].op
  BY <1>3, <1>4 DEF Agrees
<1>6. PICK r \in 1 .. Len(ethOps) :
         /\ r = CurrentTx.nonce + 1
         /\ Len(ethOps') = Len(ethOps)
         /\ \A i \in 1 .. Len(ethOps) :
               /\ ethOps'[i].op = ethOps[i].op /\ ethOps'[i].txs = ethOps[i].txs
               /\ ethOps'[i].confirmed = IF i = r THEN TRUE ELSE ethOps[i].confirmed
  BY ConfirmMarksRow DEF Inv
<1>7. CurrentTx.nonce = Current.nonce
  BY DEF CurrentTx, Tx
<1>8. r = Current.row
  BY <1>5, <1>6, <1>7
<1>9. Open' = Open \ {Current.row}
  <2> DEFINE row == Current.row
  <2>1. /\ Len(ethOps') = Len(ethOps)
        /\ \A i \in 1 .. Len(ethOps) :
              ethOps'[i].confirmed = IF i = row THEN TRUE ELSE ethOps[i].confirmed
    BY <1>6, <1>8
  <2> HIDE DEF row
  <2>2. \A i : i \in Open' <=> i \in Open /\ i # row
    BY <2>1 DEF Open
  <2>3. Open' = Open \ {row}
    BY <2>2
  <2> QED BY <2>3 DEF row
<1>10. Cardinality(Open') = Cardinality(Open) - 1
  BY <1>3, <1>9, OpenFinite, FS_RemoveElement
<1>11. queue.pending = Len(ongoing) /\ queue.pending # 0
  BY <1>2 DEF MemoryIsOpenRows
<1> QED BY <1>2, <1>3, <1>5, <1>6, <1>8, <1>9, <1>10, <1>11

\* Neither another hash nor anything else changes which rows are open.
LEMMA OpenSame ==
  ASSUME Inv, UNCHANGED ethOps \/ SaveSupplement
  PROVE  Open' = Open
<1>1. CASE UNCHANGED ethOps
  BY <1>1 DEF Open
<1>2. CASE SaveSupplement
  <2>1. /\ Len(ethOps') = Len(ethOps)
        /\ \A i \in 1 .. Len(ethOps) : ethOps'[i].confirmed = ethOps[i].confirmed
    BY <1>2, SupplementKeepsRows DEF Inv
  <2> QED BY <2>1 DEF Open
<1> QED BY <1>1, <1>2

\* Steps that leave the table alone, by what they do to the memory.
LEMMA TableUnchanged ==
  ASSUME Next, ~ SaveNewOperation, ~ ConfirmOperation, ~ SaveSupplement
  PROVE  UNCHANGED ethOps
<1>1. CASE \/ LoadNewOperations \/ InitializeOperation \/ AllSent
           \/ FailureHandler \/ WaitForTransaction \/ CheckNextTransaction
           \/ \E nonce \in 0 .. params.nonce : SendSupplement(nonce, BOOLEAN)
           \/ EndOfRound
  BY <1>1 DEF LoadNewOperations, InitializeOperation, AllSent, FailureHandler,
     WaitForTransaction, CheckNextTransaction, SendSupplement, EndOfRound, database
<1>2. CASE \/ LoadingFails \/ SaveNewOperationFails \/ SkipOperation
           \/ SupplementNotStored \/ SaveSupplementFails \/ Crash \/ Restart
  BY <1>2 DEF LoadingFails, SaveNewOperationFails, SkipOperation, SupplementNotStored,
     SaveSupplementFails, Crash, Restart, database
<1>3. CASE (\E tx \in sent : Mine(tx)) \/ Deepen \/ Reorg
           \/ NewCommitOperation \/ NewVerifyOperation
  BY <1>3 DEF Mine, Deepen, Reorg, NewCommitOperation, NewVerifyOperation, database
<1> QED BY <1>1, <1>2, <1>3 DEF Next, SenderStep, Failure, Environment

-----------------------------------------------------------------------------
(* The operations in memory are the open rows *)

\* Prices of a row are stored in ascending order, too.
LEMMA LargestNext ==
  ASSUME Inv, Inv', Next, Safe
  PROVE  \A i \in 1 .. Len(ethOps') : LastIsLargest(ethOps'[i].txs)
<1>1. \A i \in 1 .. Len(ethOps) : LastIsLargest(ethOps[i].txs)
  BY DEF Safe
<1>2. CASE UNCHANGED ethOps
  BY <1>1, <1>2
<1>3. CASE SaveNewOperation
  <2>1. mode = "sent" /\ ethOps' = Bound
    BY <1>3 DEF SaveNewOperation, Bound
  <2>2. /\ Len(ethOps) \in Nat /\ Len(ethOps') = Len(ethOps) + 1
        /\ ethOps'[Len(ethOps) + 1].txs = Last(ongoing).txs
        /\ \A i \in 1 .. Len(ethOps) : ethOps'[i] = ethOps[i]
    BY <2>1, BoundRows
  <2>3. \A i : i \in 1 .. Len(ethOps) + 1 <=> i \in 1 .. Len(ethOps) \/ i = Len(ethOps) + 1
    BY <2>2
  <2>4. LastIsLargest(Last(ongoing).txs)
    <3>1. ongoing # <<>> /\ ongoing \in Seq(Entries)
      BY <2>1 DEF Inv, Queued, Types, MemoryTypes
    <3>2. Len(ongoing) \in 1 .. Len(ongoing)
      BY <3>1, LastTyped
    <3> QED BY <2>1, <3>2 DEF Safe, MemoryIsOpenRows, OpenEntry, Last
  <2> QED BY <1>1, <2>2, <2>3, <2>4
<1>4. CASE ConfirmOperation
  BY <1>1, <1>4, ConfirmMarksRow DEF Inv
<1>5. CASE SaveSupplement
  <2> DEFINE r == Current.row
             p == Last(Current.txs)
  <2>1. mode = "resent"
    BY <1>5 DEF SaveSupplement
  <2>2. /\ r \in 1 .. Len(ethOps) /\ p \in Prices /\ cursor \in 1 .. Len(ongoing)
        /\ Len(ongoing) \in Nat
    BY <2>1, ResentHasRow DEF Inv
  <2>3. /\ Len(ethOps') = Len(ethOps)
        /\ \A i \in 1 .. Len(ethOps) : ethOps'[i].txs = IF i = r THEN Remember(ethOps[i].txs, p)
                                                        ELSE ethOps[i].txs
    BY <1>5, SupplementKeepsRows DEF Inv
  <2>4. Current \in Entries
    BY <2>2, CurrentTyped DEF Inv
  <2>5. ethOps[r].txs \in Seq(Prices) /\ Current.txs \in Seq(Prices)
    <3>1. ethOps[r] \in Rows
      BY <2>2, ElementOfSeq DEF Inv, Types, TableTypes
    <3> QED BY <2>4, <3>1 DEF Rows, Entries
  <2>6. /\ Range(ethOps[r].txs) \subseteq Range(Current.txs) /\ LastIsLargest(Current.txs)
    <3>1. mode # "down" /\ Current.row # 0
      BY <2>1, <2>2
    <3> QED BY <2>2, <3>1 DEF Safe, MemoryIsOpenRows, OpenEntry, Current
  <2>7. \A k \in 1 .. Len(ethOps[r].txs) : ethOps[r].txs[k] <= p
    <3> TAKE k \in 1 .. Len(ethOps[r].txs)
    <3>1. ethOps[r].txs[k] \in Range(ethOps[r].txs)
      BY <2>5, LenProperties DEF Range
    <3>2. PICK l \in DOMAIN Current.txs : Current.txs[l] = ethOps[r].txs[k]
      BY <2>6, <3>1 DEF Range
    <3>3. DOMAIN Current.txs = 1 .. Len(Current.txs)
      BY <2>5, LenProperties
    <3> QED BY <2>6, <3>2, <3>3 DEF LastIsLargest, Last
  <2>8. LastIsLargest(Remember(ethOps[r].txs, p))
    BY <1>1, <2>2, <2>5, <2>7, RememberLargest
  <2> HIDE DEF r, p
  <2> QED BY <1>1, <2>3, <2>8
<1> QED BY <1>2, <1>3, <1>4, <1>5, TableUnchanged

\* Steps of the database and of the chain, and those that only look.
LEMMA SameMemory ==
  ASSUME Inv, MemoryIsOpenRows, UNCHANGED <<ethOps, ongoing>>,
         mode' = "sent" <=> mode = "sent", queue'.pending = queue.pending
  PROVE  MemoryIsOpenRows' /\ InFlight' = InFlight
<1>1. Open' = Open
  BY DEF Open
<1>2. InFlight' = InFlight
  BY <1>1 DEF InFlight
<1>3. \A k \in 1 .. Len(ongoing) : OpenEntry(ongoing[k])'
  BY <1>1 DEF MemoryIsOpenRows, OpenEntry
<1> QED BY <1>2, <1>3 DEF MemoryIsOpenRows

\* An operation that is sent has no row before it is stored, and takes a free slot.
LEMMA MemoryInitialize ==
  ASSUME Inv, Inv', MemoryIsOpenRows, InitializeOperation
  PROVE  MemoryIsOpenRows' /\ InFlight' <= MaxInFlight
<1>1. PICK op \in NextOperation(queue), price \in Prices :
        /\ queue' = Popped(queue, op)
        /\ ongoing' = Append(ongoing, [row |-> 0, op |-> op, nonce |-> params.nonce,
                                       txs |-> <<price>>])
  BY DEF InitializeOperation
<1>2. mode = "sending" /\ mode' = "sent" /\ ethOps' = ethOps
  BY DEF InitializeOperation, database
<1> DEFINE e == [row |-> 0, op |-> op, nonce |-> params.nonce, txs |-> <<price>>]
<1>3. e.row = 0 /\ LastIsLargest(e.txs)
  <2>1. price \in Int /\ e.txs = <<price>>
    BY SenderAssumption DEF Prices
  <2> QED BY <2>1 DEF LastIsLargest
<1>4. ongoing' = Append(ongoing, e)
  BY <1>1
<1> HIDE DEF e
<1>5. queue.pending < MaxInFlight /\ queue'.pending = queue.pending + 1
  <2>1. queue \in Queues /\ Continues(queue, params)
    BY <1>2 DEF Inv, Types, MemoryTypes, Queued
  <2> QED BY <1>1, <2>1, PoppedContinues DEF Inv
<1>6. /\ Len(ongoing) \in Nat /\ Len(ongoing') = Len(ongoing) + 1
      /\ \A k \in 1 .. Len(ongoing) : ongoing'[k] = ongoing[k]
      /\ ongoing'[Len(ongoing) + 1] = e
  <2>1. ongoing \in Seq(Entries)
    BY DEF Inv, Types, MemoryTypes
  <2>2. Len(ongoing) \in Nat /\ ongoing \in [1 .. Len(ongoing) -> Entries]
    BY <2>1, LenProperties
  <2>3. IsSeq(ongoing)
    BY <2>2, FunctionIsSeq
  <2> QED BY <1>4, <2>3, AppendKeeps
<1>7. \A k : k \in 1 .. Len(ongoing) + 1 <=> k \in 1 .. Len(ongoing) \/ k = Len(ongoing) + 1
  BY <1>6
<1>8. Open' = Open /\ InFlight' = InFlight + 1
  <2>1. Open' = Open
    BY <1>2 DEF Open
  <2> QED BY <1>2, <2>1, OpenFinite DEF InFlight
<1>9. \A k \in 1 .. Len(ongoing) : ongoing[k].row # 0 /\ OpenEntry(ongoing[k])
  BY <1>2 DEF MemoryIsOpenRows
<1>10. \A k \in 1 .. Len(ongoing) + 1 :
          /\ ongoing'[k].row = 0 <=> k = Len(ongoing) + 1
          /\ OpenEntry(ongoing[k])'
  <2> TAKE k \in 1 .. Len(ongoing) + 1
  <2>1. CASE k \in 1 .. Len(ongoing)
    <3>1. k # Len(ongoing) + 1
      BY <1>6, <2>1
    <3> QED BY <1>2, <1>6, <1>8, <1>9, <2>1, <3>1 DEF OpenEntry
  <2>2. CASE k = Len(ongoing) + 1
    BY <1>3, <1>6, <2>2 DEF OpenEntry
  <2> QED BY <1>7, <2>1, <2>2
<1>11. \A k, l \in 1 .. Len(ongoing) + 1 : ongoing'[k].row = ongoing'[l].row => k = l
  <2>1. \A k, l \in 1 .. Len(ongoing) : ongoing[k].row = ongoing[l].row => k = l
    BY DEF MemoryIsOpenRows
  <2> QED BY <1>3, <1>6, <1>7, <1>9, <2>1
<1>12. queue.pending = Len(ongoing) /\ Len(ongoing) = InFlight
  BY DEF MemoryIsOpenRows
<1>13. MemoryIsOpenRows'
  BY <1>2, <1>5, <1>6, <1>8, <1>10, <1>11, <1>12 DEF MemoryIsOpenRows
<1>14. InFlight' <= MaxInFlight
  BY <1>5, <1>6, <1>8, <1>12, SenderAssumption
<1> QED BY <1>13, <1>14

\* The row of an operation just stored is open and has its hash.
LEMMA MemorySave ==
  ASSUME Inv, Inv', MemoryIsOpenRows, SaveNewOperation
  PROVE  MemoryIsOpenRows' /\ InFlight' = InFlight
<1> DEFINE n == Len(ongoing)
           m == Len(ethOps)
           e == [ongoing[n] EXCEPT !.row = m + 1]
<1>1. /\ mode = "sent" /\ mode' = "sending" /\ queue' = queue /\ ethOps' = Bound
      /\ ongoing' = [ongoing EXCEPT ![n].row = m + 1]
  BY DEF SaveNewOperation, Bound
<1>2. ongoing \in Seq(Entries) /\ ongoing # <<>>
  BY <1>1 DEF Inv, Types, MemoryTypes, Queued
<1>3. n \in Nat \ {0} /\ n \in 1 .. n /\ Last(ongoing) \in Entries /\ ongoing[n] = Last(ongoing)
  BY <1>2, LastTyped DEF Last
<1>4. DOMAIN ongoing = 1 .. n /\ ongoing \in [1 .. n -> Entries]
  BY <1>2, LenProperties
<1>5. e.row = m + 1 /\ e.txs = Last(ongoing).txs
  BY <1>3 DEF Entries
<1>6. ongoing' = [ongoing EXCEPT ![n] = e]
  BY <1>1
<1> HIDE DEF e
<1>7. /\ Len(ongoing') = n
      /\ \A k \in 1 .. n : ongoing'[k] = IF k = n THEN e ELSE ongoing[k]
  <2>1. Len(ongoing') = n
    <3>1. ongoing' \in Seq(Entries)
      BY DEF Inv, Types, MemoryTypes
    <3>2. DOMAIN ongoing' = 1 .. n
      BY <1>4, <1>6
    <3>3. Len(ongoing') \in Nat /\ DOMAIN ongoing' = 1 .. Len(ongoing')
      BY <3>1, LenProperties
    <3> QED BY <1>3, <3>2, <3>3
  <2> QED BY <1>4, <1>6, <2>1
<1> HIDE DEF n
<1>8. /\ m \in Nat /\ Len(ethOps') = m + 1 /\ ethOps'[m + 1].txs = e.txs
      /\ ethOps'[m + 1].confirmed = FALSE
      /\ \A i \in 1 .. m : ethOps'[i] = ethOps[i]
  BY <1>1, <1>5, BoundRows
<1>9. /\ m + 1 \notin Open /\ Open' = Open \cup {m + 1}
      /\ Cardinality(Open') = Cardinality(Open) + 1 /\ Open \subseteq 1 .. m
      /\ Cardinality(Open) \in Nat
  BY OpenAppend, OpenFinite
<1>10. \A k \in 1 .. n : OpenEntry(ongoing[k]) /\ (ongoing[k].row = 0 <=> k = n)
  BY <1>1 DEF MemoryIsOpenRows, n
<1>11. \A k \in 1 .. n : OpenEntry(ongoing[k])' /\ ongoing'[k].row # 0
  <2> TAKE k \in 1 .. n
  <2>1. CASE k = n
    <3>1. ongoing'[k] = e
      BY <1>7, <2>1
    <3>2. LastIsLargest(e.txs)
      BY <1>3, <1>5, <1>10 DEF OpenEntry
    <3>3. e.row \in Open' /\ ethOps'[e.row].txs = e.txs /\ e.row # 0
      BY <1>5, <1>8, <1>9
    <3> QED BY <3>1, <3>2, <3>3 DEF OpenEntry
  <2>2. CASE k # n
    <3>1. ongoing'[k] = ongoing[k] /\ ongoing[k].row # 0 /\ OpenEntry(ongoing[k])
      BY <1>7, <1>10, <2>2
    <3>2. ongoing[k].row \in Open /\ ongoing[k].row \in 1 .. m /\ ongoing[k].row \in Open'
      BY <1>9, <3>1 DEF OpenEntry
    <3>3. ethOps'[ongoing[k].row] = ethOps[ongoing[k].row]
      BY <1>8, <3>2
    <3> QED BY <3>1, <3>2, <3>3 DEF OpenEntry
  <2> QED BY <2>1, <2>2
<1>12. \A k, l \in 1 .. n : ongoing'[k].row = ongoing'[l].row => k = l
  <2>1. \A k, l \in 1 .. n : ongoing[k].row = ongoing[l].row => k = l
    BY DEF MemoryIsOpenRows, n
  <2>2. \A k \in 1 .. n : k # n => ongoing[k].row # m + 1
    <3> SUFFICES ASSUME NEW k \in 1 .. n, k # n
                 PROVE  ongoing[k].row # m + 1
      OBVIOUS
    <3>1. ongoing[k].row \in Open
      BY <1>10 DEF OpenEntry
    <3> QED BY <1>9, <3>1
  <2> QED BY <1>5, <1>7, <2>1, <2>2
<1>13. InFlight' = InFlight
  BY <1>1, <1>9 DEF InFlight
<1>14. queue.pending = n /\ n = InFlight
  BY DEF MemoryIsOpenRows, n
<1> QED BY <1>1, <1>7, <1>11, <1>12, <1>13, <1>14 DEF MemoryIsOpenRows

\* What is confirmed leaves the memory and frees its slot.
LEMMA MemoryConfirm ==
  ASSUME Inv, MemoryIsOpenRows, ConfirmOperation
  PROVE  MemoryIsOpenRows' /\ InFlight' <= InFlight
<1> DEFINE n == Len(ongoing)
           Source(k) == IF k < cursor THEN k ELSE k + 1
<1>1. /\ cursor \in 1 .. n /\ n \in Nat /\ mode = "checking"
      /\ Current.row \in Open
      /\ queue.pending = n /\ queue.pending # 0
      /\ Len(ethOps') = Len(ethOps)
      /\ \A i \in 1 .. Len(ethOps) : ethOps'[i].txs = ethOps[i].txs
      /\ Open' = Open \ {Current.row} /\ Cardinality(Open') = Cardinality(Open) - 1
  BY ConfirmsCurrent
<1>2. /\ ongoing' = RemoveAt(ongoing, cursor) /\ mode' = "checking"
      /\ queue' = AfterConfirmation(queue, Current.op)
  BY <1>1 DEF ConfirmOperation
<1>3. Len(ongoing') = n - 1 /\ \A k \in 1 .. n - 1 : ongoing'[k] = ongoing[Source(k)]
  <2>1. ongoing \in Seq(Entries)
    BY DEF Inv, Types, MemoryTypes
  <2>2. /\ Len(RemoveAt(ongoing, cursor)) = n - 1
        /\ \A k \in 1 .. n - 1 : RemoveAt(ongoing, cursor)[k]
               = IF k < cursor THEN ongoing[k] ELSE ongoing[k + 1]
    BY <1>1, <2>1, RemoveAtKeeps
  <2> QED BY <1>2, <2>2
<1>4. /\ \A k \in 1 .. n - 1 : Source(k) \in 1 .. n /\ Source(k) # cursor
      /\ \A k, l \in 1 .. n - 1 : Source(k) = Source(l) => k = l
  BY <1>1
<1> HIDE DEF Source
<1>5. queue'.pending = queue.pending - 1
  BY <1>1, <1>2, ConfirmedTyped DEF Inv, Types, MemoryTypes
<1>6. /\ \A k \in 1 .. n : ongoing[k].row # 0 /\ OpenEntry(ongoing[k])
      /\ \A k, l \in 1 .. n : ongoing[k].row = ongoing[l].row => k = l
      /\ n = InFlight
  BY <1>1 DEF MemoryIsOpenRows
<1>7. \A k \in 1 .. n - 1 : OpenEntry(ongoing[k])' /\ ongoing'[k].row # 0
  <2> TAKE k \in 1 .. n - 1
  <2> PICK e : e = ongoing'[k]
    OBVIOUS
  <2>1. e = ongoing[Source(k)] /\ Source(k) \in 1 .. n /\ Source(k) # cursor
    BY <1>3, <1>4
  <2>2. e.row # 0 /\ OpenEntry(e) /\ e.row # Current.row
    BY <1>1, <1>6, <2>1 DEF Current
  <2>3. e.row \in Open' /\ e.row \in 1 .. Len(ethOps)
    BY <1>1, <2>2, OpenFinite DEF OpenEntry
  <2>4. ethOps'[e.row].txs = ethOps[e.row].txs
    BY <1>1, <2>3
  <2>5. OpenEntry(e)'
    BY <2>2, <2>3, <2>4 DEF OpenEntry
  <2> QED BY <2>2, <2>5
<1>8. \A k, l \in 1 .. n - 1 : ongoing'[k].row = ongoing'[l].row => k = l
  BY <1>3, <1>4, <1>6
<1>9. InFlight = Cardinality(Open) /\ InFlight' = InFlight - 1 /\ InFlight \in Nat
  <2>1. mode # "sent" /\ mode' # "sent"
    BY <1>1, <1>2
  <2>2. InFlight = Cardinality(Open) + 0 /\ InFlight' = Cardinality(Open') + 0
    BY <2>1 DEF InFlight
  <2> QED BY <1>1, <2>2, OpenFinite
<1>10. MemoryIsOpenRows'
  <2>1. Len(ongoing') = InFlight' /\ queue'.pending = Len(ongoing')
    BY <1>1, <1>3, <1>5, <1>6, <1>9
  <2> QED BY <1>2, <1>3, <1>7, <1>8, <2>1 DEF MemoryIsOpenRows
<1> QED BY <1>9, <1>10

\* A replacement is remembered with what it replaces.
LEMMA MemoryReplace ==
  ASSUME Inv, Inv', MemoryIsOpenRows,
         SupplementNotStored \/ \E nonce \in 0 .. params.nonce : SendSupplement(nonce, BOOLEAN)
  PROVE  MemoryIsOpenRows' /\ InFlight' = InFlight
<1> DEFINE n == Len(ongoing)
<1>1. /\ IsStuck /\ mode = "checking" /\ mode' # "sent" /\ UNCHANGED <<ethOps, queue>>
      /\ \E price \in RetryPrices(CurrentTx.price) :
            ongoing' = [ongoing EXCEPT ![cursor].txs = Remember(@, price)]
  BY DEF SupplementNotStored, SendSupplement, IsStuck, Checking, database
<1>2. PICK price \in RetryPrices(CurrentTx.price) :
            ongoing' = [ongoing EXCEPT ![cursor].txs = Remember(@, price)]
  BY <1>1
<1> DEFINE e == [Current EXCEPT !.txs = Remember(Current.txs, price)]
<1>3. /\ cursor \in 1 .. n /\ n \in Nat /\ Current \in Entries /\ Current.txs \in Seq(Prices)
      /\ price \in Prices
  BY <1>1, StuckTyped DEF Inv
<1>4. DOMAIN ongoing = 1 .. n /\ ongoing \in [1 .. n -> Entries]
  BY LenProperties DEF Inv, Types, MemoryTypes
<1>5. /\ e.row = Current.row /\ e.txs = Remember(Current.txs, price)
  BY <1>3 DEF Entries
<1>6. ongoing' = [ongoing EXCEPT ![cursor] = e]
  BY <1>2 DEF Current
<1> HIDE DEF e
<1>7. Len(ongoing') = n /\ \A k \in 1 .. n : ongoing'[k] = IF k = cursor THEN e ELSE ongoing[k]
  <2>1. Len(ongoing') \in Nat /\ DOMAIN ongoing' = 1 .. Len(ongoing')
    BY LenProperties DEF Inv, Types, MemoryTypes
  <2>2. DOMAIN ongoing' = 1 .. n
    BY <1>4, <1>6
  <2>3. Len(ongoing') = n
    BY <1>3, <2>1, <2>2
  <2> QED BY <1>4, <1>6, <2>3
<1>8. \A k \in 1 .. n : ongoing[k].row # 0 /\ OpenEntry(ongoing[k])
  BY <1>1 DEF MemoryIsOpenRows
<1>9. Open' = Open /\ InFlight' = InFlight
  <2>1. Open' = Open
    BY <1>1 DEF Open
  <2> QED BY <1>1, <2>1 DEF InFlight
<1>10. \A k \in 1 .. n : OpenEntry(ongoing[k])' /\ ongoing'[k].row # 0
                            /\ ongoing'[k].row = ongoing[k].row
  <2> TAKE k \in 1 .. n
  <2>1. CASE k = cursor
    <3>1. ongoing'[k] = e /\ ongoing[k] = Current
      BY <1>7, <2>1 DEF Current
    <3>2. LastIsLargest(e.txs)
      BY <1>1, <1>5, ReplacementIsLast
    <3>3. Range(e.txs) = Range(Current.txs) \cup {price}
      BY <1>3, <1>5, RememberTyped
    <3>4. Current.row # 0 /\ OpenEntry(Current)
      BY <1>8, <3>1
    <3>5. e.row # 0 /\ e.row \in Open /\ Range(ethOps[e.row].txs) \subseteq Range(e.txs)
      BY <1>5, <3>3, <3>4 DEF OpenEntry
    <3>6. PICK f : f = e
      OBVIOUS
    <3>7. OpenEntry(f)'
      BY <1>1, <1>9, <3>2, <3>5, <3>6 DEF OpenEntry
    <3> QED BY <1>5, <3>1, <3>4, <3>6, <3>7
  <2>2. CASE k # cursor
    <3> PICK f : f = ongoing[k]
      OBVIOUS
    <3>1. ongoing'[k] = f /\ OpenEntry(f) /\ f.row # 0
      BY <1>7, <1>8, <2>2
    <3>2. OpenEntry(f)'
      BY <1>1, <1>9, <3>1 DEF OpenEntry
    <3> QED BY <3>1, <3>2
  <2> QED BY <2>1, <2>2
<1>11. /\ \A k, l \in 1 .. n : ongoing[k].row = ongoing[l].row => k = l
       /\ queue.pending = n /\ n = InFlight
  BY DEF MemoryIsOpenRows
<1>12. \A k, l \in 1 .. n : ongoing'[k].row = ongoing'[l].row => k = l
  BY <1>10, <1>11
<1> QED BY <1>1, <1>7, <1>9, <1>10, <1>11, <1>12 DEF MemoryIsOpenRows

\* The hash that is stored is one the memory has.
LEMMA MemorySupplement ==
  ASSUME Inv, Inv', MemoryIsOpenRows, SaveSupplement
  PROVE  MemoryIsOpenRows' /\ InFlight' = InFlight
<1> DEFINE n == Len(ongoing)
           p == Last(Current.txs)
<1>1. mode = "resent" /\ mode' = "checking" /\ UNCHANGED <<ongoing, queue>>
  BY DEF SaveSupplement
<1>2. /\ cursor \in 1 .. n /\ n \in Nat /\ p \in Prices /\ Current.row \in 1 .. Len(ethOps)
  BY <1>1, ResentHasRow DEF Inv
<1>3. /\ \A i \in 1 .. Len(ethOps) : ethOps'[i].txs
             = IF i = Current.row THEN Remember(ethOps[i].txs, p) ELSE ethOps[i].txs
  BY SupplementKeepsRows DEF Inv
<1>4. Open' = Open /\ InFlight' = InFlight
  <2>1. Open' = Open
    BY OpenSame
  <2> QED BY <1>1, <2>1 DEF InFlight
<1>5. p \in Range(Current.txs)
  <2>1. Current \in Entries /\ Len(Current.txs) \in Nat \ {0}
    BY <1>2, CurrentTyped DEF Inv
  <2>2. Current.txs \in Seq(Prices) /\ Len(Current.txs) \in DOMAIN Current.txs
    BY <2>1, LenProperties DEF Entries
  <2> QED BY <2>2 DEF Range, Last
<1>6. /\ \A k \in 1 .. n : ongoing[k].row # 0 /\ OpenEntry(ongoing[k])
      /\ \A k, l \in 1 .. n : ongoing[k].row = ongoing[l].row => k = l
      /\ queue.pending = n /\ n = InFlight
  BY <1>1 DEF MemoryIsOpenRows
<1>7. \A k \in 1 .. n : OpenEntry(ongoing[k])'
  <2> TAKE k \in 1 .. n
  <2> PICK e : e = ongoing[k]
    OBVIOUS
  <2>1. OpenEntry(e) /\ e.row # 0 /\ e.row \in Open /\ e.row \in 1 .. Len(ethOps)
    BY <1>6, OpenFinite DEF OpenEntry
  <2>2. Range(ethOps'[e.row].txs) \subseteq Range(e.txs)
    <3>1. CASE e.row = Current.row
      <4>1. k = cursor
        BY <1>2, <1>6, <3>1 DEF Current
      <4>2. e = Current
        BY <4>1 DEF Current
      <4>3. ethOps'[e.row].txs = Remember(ethOps[e.row].txs, p)
        BY <1>3, <2>1, <3>1
      <4>4. ethOps[e.row].txs \in Seq(Prices)
        <5>1. ethOps[e.row] \in Rows
          BY <2>1, ElementOfSeq DEF Inv, Types, TableTypes
        <5> QED BY <5>1 DEF Rows
      <4>5. Range(ethOps'[e.row].txs) = Range(ethOps[e.row].txs) \cup {p}
        BY <1>2, <4>3, <4>4, RememberTyped
      <4> QED BY <1>5, <2>1, <4>2, <4>5 DEF OpenEntry
    <3>2. CASE e.row # Current.row
      BY <1>3, <2>1, <3>2 DEF OpenEntry
    <3> QED BY <3>1, <3>2
  <2>3. OpenEntry(e)'
    BY <1>4, <2>1, <2>2 DEF OpenEntry
  <2> QED BY <1>1, <2>3
<1> QED BY <1>1, <1>4, <1>6, <1>7 DEF MemoryIsOpenRows

\* ETHSender::new loads the open rows, and each takes a slot.
LEMMA MemoryRestart ==
  ASSUME Inv, \A i \in 1 .. Len(ethOps) : LastIsLargest(ethOps[i].txs), Restart
  PROVE  MemoryIsOpenRows' /\ InFlight' = InFlight /\ mode' = "idle"
<1> DEFINE built == NewQueue(Len(Unconfirmed), params)
           n == Len(Unconfirmed)
<1>1. /\ ethOps \in Seq(Rows) /\ n = Cardinality(Open) /\ Cardinality(Open) \in Nat
      /\ Open \subseteq 1 .. Len(ethOps)
      /\ \A k \in 1 .. n : /\ Unconfirmed[k].row \in Open
                           /\ Unconfirmed[k].txs = ethOps[Unconfirmed[k].row].txs
      /\ \A k, l \in 1 .. n : Unconfirmed[k].row = Unconfirmed[l].row => k = l
  BY UnconfirmedRows DEF Inv, Types, TableTypes, Open
<1>2. built \in Queues /\ Continues(built, params) /\ built.pending = n
  BY <1>1, NewTyped, NewContinues DEF Inv, NewQueue
<1>3. ~ LoadPanics(built) /\ Loaded(built).pending = n
  BY <1>2, LoadedContinues DEF Inv
<1>4. /\ mode' = "idle" /\ mode # "sent" /\ ongoing' = Unconfirmed /\ queue' = Loaded(built)
      /\ ethOps' = ethOps
  BY <1>3 DEF Restart, database
<1>5. Open' = Open /\ InFlight' = InFlight /\ InFlight = n
  <2>1. Open' = Open
    BY <1>4 DEF Open
  <2> QED BY <1>1, <1>4, <2>1 DEF InFlight
<1> HIDE DEF n
<1>6. \A k \in 1 .. n : OpenEntry(ongoing[k])' /\ ongoing'[k].row # 0
  <2> TAKE k \in 1 .. n
  <2> PICK e : e = Unconfirmed[k]
    OBVIOUS
  <2>1. e.row \in Open /\ e.row \in 1 .. Len(ethOps) /\ e.txs = ethOps[e.row].txs
    BY <1>1
  <2>2. LastIsLargest(e.txs) /\ e.row # 0
    BY <2>1
  <2>3. OpenEntry(e)'
    BY <1>4, <1>5, <2>1, <2>2 DEF OpenEntry
  <2> QED BY <1>4, <2>2, <2>3
<1>7. Len(ongoing') = n /\ queue'.pending = n
  BY <1>3, <1>4 DEF n
<1> QED BY <1>1, <1>4, <1>5, <1>6, <1>7 DEF MemoryIsOpenRows

\* Every step that the sender survives, and its restart.
LEMMA MemoryNext ==
  ASSUME Inv, Inv', Next, Safe, NothingLost', mode' # "panicked"
  PROVE  /\ mode' # "down" => MemoryIsOpenRows'
         /\ InFlight' <= MaxInFlight
<1>1. /\ mode # "panicked" /\ InFlight <= MaxInFlight
      /\ mode # "down" => MemoryIsOpenRows
      /\ \A i \in 1 .. Len(ethOps) : LastIsLargest(ethOps[i].txs)
  BY DEF Safe
<1>2. InFlight \in Int /\ InFlight' \in Int /\ MaxInFlight \in Int
  BY InFlightTyped, InFlightTypedNext, SenderAssumption
<1>3. CASE \/ LoadNewOperations \/ LoadingFails \/ AllSent \/ FailureHandler \/ WaitForTransaction
           \/ CheckNextTransaction \/ SkipOperation \/ EndOfRound \/ SaveSupplementFails
  <2>1. UNCHANGED <<ethOps, ongoing>> /\ mode # "down" /\ mode # "sent" /\ mode' # "sent"
    BY <1>3 DEF LoadNewOperations, LoadingFails, AllSent, FailureHandler, WaitForTransaction,
       CheckNextTransaction, SkipOperation, EndOfRound, SaveSupplementFails, NextOngoing,
       Checking, database, memory
  <2>2. queue'.pending = queue.pending
    <3>1. CASE LoadNewOperations
      <4>1. queue \in Queues /\ Continues(queue, params)
        BY <2>1 DEF Inv, Types, MemoryTypes, Queued
      <4>2. Loaded(queue).pending = queue.pending
        BY <4>1, LoadedContinues DEF Inv
      <4> QED BY <3>1, <4>2 DEF LoadNewOperations
    <3>2. CASE ~ LoadNewOperations
      BY <1>3, <3>2 DEF LoadingFails, AllSent, FailureHandler, WaitForTransaction,
         CheckNextTransaction, SkipOperation, EndOfRound, SaveSupplementFails, memory
    <3> QED BY <3>1, <3>2
  <2> QED BY <1>1, <2>1, <2>2, SameMemory
<1>4. CASE NewCommitOperation \/ NewVerifyOperation \/ (\E tx \in sent : Mine(tx)) \/ Deepen
           \/ Reorg
  <2>1. UNCHANGED <<mode, ethOps, ongoing, queue>>
    BY <1>4 DEF NewCommitOperation, NewVerifyOperation, Mine, Deepen, Reorg, database, memory
  <2>2. CASE mode = "down"
    <3>1. InFlight' = InFlight
      BY <2>1 DEF InFlight, Open
    <3> QED BY <1>1, <2>1, <2>2, <3>1
  <2>3. CASE mode # "down"
    BY <1>1, <2>1, <2>3, SameMemory
  <2> QED BY <2>2, <2>3
<1>5. CASE Crash
  <2>1. mode' = "down" /\ ethOps' = ethOps
    BY <1>5 DEF Crash, database
  <2>2. Open' = Open /\ Cardinality(Open) \in Nat
    BY <2>1, OpenFinite DEF Open
  <2>3. InFlight' <= InFlight
    BY <2>1, <2>2 DEF InFlight
  <2> QED BY <1>1, <1>2, <2>1, <2>3
<1>6. CASE InitializeOperation
  BY <1>1, <1>6, MemoryInitialize DEF InitializeOperation
<1>7. CASE SaveNewOperation
  BY <1>1, <1>7, MemorySave DEF SaveNewOperation
<1>8. CASE ConfirmOperation
  <2>1. mode # "down"
    BY <1>8 DEF ConfirmOperation, Checking
  <2>2. MemoryIsOpenRows' /\ InFlight' <= InFlight
    BY <1>1, <1>8, <2>1, MemoryConfirm
  <2> QED BY <1>1, <1>2, <2>2
<1>9. CASE SupplementNotStored \/ \E nonce \in 0 .. params.nonce : SendSupplement(nonce, BOOLEAN)
  <2>1. mode # "down"
    BY <1>9 DEF SupplementNotStored, SendSupplement, IsStuck, Checking
  <2>2. MemoryIsOpenRows' /\ InFlight' = InFlight
    BY <1>1, <1>9, <2>1, MemoryReplace
  <2> QED BY <1>1, <2>2
<1>10. CASE SaveSupplement
  BY <1>1, <1>10, MemorySupplement DEF SaveSupplement
<1>11. CASE Restart
  BY <1>1, <1>11, MemoryRestart
<1>12. ~ SaveNewOperationFails
  BY StillNothingLost
<1> QED BY <1>3, <1>4, <1>5, <1>6, <1>7, <1>8, <1>9, <1>10, <1>11, <1>12
        DEF Next, SenderStep, Failure, Environment

-----------------------------------------------------------------------------
(* The process does not end itself *)

\* Neither the assertions of the queue nor failure_handler stop the process.
LEMMA NoPanicNext ==
  ASSUME Inv, Next, Safe
  PROVE  mode' # "panicked"
<1>1. /\ mode # "panicked"
      /\ mode # "down" => MemoryIsOpenRows
      /\ \A tx \in sent \ Unsaved : Recorded(tx)
      /\ ContractFollows /\ \A i \in 1 .. Len(ethOps) : LastIsLargest(ethOps[i].txs)
  BY DEF Safe
<1>2. CASE LoadNewOperations
  <2>1. mode = "idle"
    BY <1>2 DEF LoadNewOperations
  <2>2. queue \in Queues /\ Continues(queue, params)
    BY <2>1 DEF Inv, Types, MemoryTypes, Queued
  <2>3. ~ LoadPanics(queue)
    BY <2>2, LoadedContinues DEF Inv
  <2> QED BY <1>2, <2>3 DEF LoadNewOperations
<1>3. CASE ConfirmOperation
  <2>1. mode = "checking"
    BY <1>3 DEF ConfirmOperation, Checking
  <2>2. queue.pending # 0
    BY <1>1, <1>3, <2>1, ConfirmsCurrent
  <2> QED BY <1>3, <2>1, <2>2 DEF ConfirmOperation
<1>4. ~ FailureHandler
  <2> SUFFICES ASSUME FailureHandler
               PROVE  FALSE
    OBVIOUS
  <2>1. Reverted(CurrentTx)
    BY DEF FailureHandler
  <2>2. PICK i \in DOMAIN mined : mined[i].tx = CurrentTx
    BY <2>1 DEF Reverted, IsMined
  <2>3. NothingReverts
    BY <1>1, ChainAccepted
  <2> QED BY <2>1, <2>2, <2>3 DEF NothingReverts
<1>5. CASE Restart
  BY <1>1, <1>5, MemoryRestart
<1>6. CASE \/ InitializeOperation \/ SaveNewOperation \/ AllSent \/ WaitForTransaction
           \/ CheckNextTransaction \/ SaveSupplement \/ EndOfRound
           \/ \E nonce \in 0 .. params.nonce : SendSupplement(nonce, BOOLEAN)
  BY <1>1, <1>6 DEF InitializeOperation, SaveNewOperation, AllSent, WaitForTransaction,
     CheckNextTransaction, SaveSupplement, EndOfRound, SendSupplement
<1>7. CASE \/ LoadingFails \/ SaveNewOperationFails \/ SkipOperation \/ SupplementNotStored
           \/ SaveSupplementFails \/ Crash
  BY <1>1, <1>7 DEF LoadingFails, SaveNewOperationFails, SkipOperation, SupplementNotStored,
     SaveSupplementFails, Crash
<1>8. CASE NewCommitOperation \/ NewVerifyOperation \/ (\E tx \in sent : Mine(tx)) \/ Deepen
           \/ Reorg
  BY <1>1, <1>8 DEF NewCommitOperation, NewVerifyOperation, Mine, Deepen, Reorg
<1> QED BY <1>2, <1>3, <1>4, <1>5, <1>6, <1>7, <1>8
        DEF Next, SenderStep, Failure, Environment

\* Only a crash takes it down.
LEMMA DownNext ==
  ASSUME Inv, Next, Safe, mode' = "down"
  PROVE  faults'.crashes < MaxCrashes
<1>1. /\ faults.crashes \in 0 .. MaxCrashes /\ MaxCrashes \in Int
      /\ mode = "down" => faults.crashes < MaxCrashes
  BY SenderAssumption DEF Safe, Inv, Types, Faults
<1>2. /\ faults'.crashes <= faults.crashes
      /\ Crash => faults'.crashes < faults.crashes
      /\ faults'.crashes \in 0 .. MaxCrashes
  BY FaultsUsed, FaultTypesNext DEF Faults
<1>3. CASE Crash
  BY <1>1, <1>2, <1>3
<1>4. CASE NewCommitOperation \/ NewVerifyOperation \/ (\E tx \in sent : Mine(tx)) \/ Deepen
           \/ Reorg
  <2>1. mode = "down"
    BY <1>4 DEF NewCommitOperation, NewVerifyOperation, Mine, Deepen, Reorg
  <2> QED BY <1>1, <1>2, <2>1
<1>5. ~ (\/ LoadNewOperations \/ InitializeOperation \/ SaveNewOperation \/ AllSent
         \/ FailureHandler \/ EndOfRound \/ LoadingFails \/ SaveNewOperationFails
         \/ SaveSupplement \/ SaveSupplementFails \/ Restart)
  BY DEF LoadNewOperations, InitializeOperation, SaveNewOperation, AllSent, FailureHandler,
     EndOfRound, LoadingFails, SaveNewOperationFails, SaveSupplement, SaveSupplementFails, Restart
<1>6. ~ (\/ ConfirmOperation \/ WaitForTransaction \/ CheckNextTransaction \/ SkipOperation
         \/ SupplementNotStored \/ \E nonce \in 0 .. params.nonce : SendSupplement(nonce, BOOLEAN))
  BY DEF ConfirmOperation, WaitForTransaction, CheckNextTransaction, SkipOperation,
     SupplementNotStored, SendSupplement, IsStuck, Checking
<1> QED BY <1>3, <1>4, <1>5, <1>6 DEF Next, SenderStep, Failure, Environment

-----------------------------------------------------------------------------
(* Withdrawals follow verifications *)

\* Only confirm_operation changes which verifications are confirmed.
LEMMA VerifiedSame ==
  ASSUME Inv, UNCHANGED ethOps \/ SaveNewOperation \/ SaveSupplement
  PROVE  VerifiedRows' = VerifiedRows
<1>1. CASE UNCHANGED ethOps
  BY <1>1 DEF VerifiedRows
<1>2. CASE SaveNewOperation
  <2>1. mode = "sent" /\ ethOps' = Bound
    BY <1>2 DEF SaveNewOperation, Bound
  <2>2. /\ Len(ethOps) \in Nat /\ Len(ethOps') = Len(ethOps) + 1
        /\ ethOps'[Len(ethOps) + 1].confirmed = FALSE
        /\ \A i \in 1 .. Len(ethOps) : ethOps'[i] = ethOps[i]
    BY <2>1, BoundRows
  <2>3. \A i : i \in 1 .. Len(ethOps) + 1 <=> i \in 1 .. Len(ethOps) \/ i = Len(ethOps) + 1
    BY <2>2
  <2> QED BY <2>2, <2>3 DEF VerifiedRows
<1>3. CASE SaveSupplement
  <2>1. /\ Len(ethOps') = Len(ethOps)
        /\ \A i \in 1 .. Len(ethOps) :
              /\ ethOps'[i].op = ethOps[i].op /\ ethOps'[i].confirmed = ethOps[i].confirmed
    BY <1>3, SupplementKeepsRows DEF Inv
  <2> QED BY <2>1 DEF VerifiedRows
<1> QED BY <1>1, <1>2, <1>3

LEMMA VerifiedFinite ==
  ASSUME Inv
  PROVE  IsFiniteSet(VerifiedRows) /\ Cardinality(VerifiedRows) \in Nat
<1>1. Len(ethOps) \in Nat
  BY LenProperties DEF Inv, Types, TableTypes
<1>2. IsFiniteSet(1 .. Len(ethOps)) /\ VerifiedRows \subseteq 1 .. Len(ethOps)
  BY <1>1, FS_Interval DEF VerifiedRows
<1> QED BY <1>2, FS_Subset, FS_CardinalityType

\* proceed_next_operations adds a withdrawal for a verification that brings one.
LEMMA WithdrawsConfirm ==
  ASSUME Inv, MemoryIsOpenRows, ConfirmOperation,
         queue.withdrawCount + queue.withdraws = Cardinality(VerifiedRows)
  PROVE  queue'.withdrawCount + queue'.withdraws = Cardinality(VerifiedRows')
<1> DEFINE row == Current.row
           op == Current.op
           brings == op.type = "Verify" /\ op.block \in WithdrawalBlocks
<1>1. /\ mode = "checking" /\ row \in Open /\ op = ethOps[row].op /\ queue.pending # 0
      /\ Len(ethOps') = Len(ethOps)
      /\ \A i \in 1 .. Len(ethOps) :
            /\ ethOps'[i].op = ethOps[i].op
            /\ ethOps'[i].confirmed = IF i = row THEN TRUE ELSE ethOps[i].confirmed
  BY ConfirmsCurrent
<1>2. row \in 1 .. Len(ethOps) /\ ~ ethOps[row].confirmed
  BY <1>1 DEF Open
<1>3. queue' = AfterConfirmation(queue, op) /\ queue \in Queues
  BY <1>1 DEF ConfirmOperation, Inv, Types, MemoryTypes
<1> HIDE DEF row, op
<1>4. /\ queue'.withdrawCount = queue.withdrawCount
      /\ queue'.withdraws = IF brings THEN queue.withdraws + 1 ELSE queue.withdraws
      /\ queue.withdrawCount \in Nat /\ queue.withdraws \in Nat
  <2>1. /\ AfterConfirmation(queue, op).withdrawCount = queue.withdrawCount
        /\ AfterConfirmation(queue, op).withdraws
              = IF brings THEN queue.withdraws + 1 ELSE queue.withdraws
    BY <1>1, <1>3, ConfirmedTyped
  <2>2. queue.withdrawCount \in Nat /\ queue.withdraws \in Nat
    BY <1>3 DEF Queues
  <2> HIDE DEF brings
  <2> QED BY <1>3, <2>1, <2>2
<1>5. VerifiedRows' = IF brings THEN VerifiedRows \cup {row} ELSE VerifiedRows
  <2>1. \A i \in 1 .. Len(ethOps) :
            i # row => (i \in VerifiedRows' <=> i \in VerifiedRows)
    BY <1>1 DEF VerifiedRows
  <2>2. row \in VerifiedRows' <=> brings
    BY <1>1, <1>2 DEF VerifiedRows
  <2>3. row \notin VerifiedRows
    BY <1>2 DEF VerifiedRows
  <2>4. VerifiedRows \subseteq 1 .. Len(ethOps) /\ VerifiedRows' \subseteq 1 .. Len(ethOps)
    BY <1>1 DEF VerifiedRows
  <2> HIDE DEF brings
  <2>5. \A i : i \in VerifiedRows' <=> i \in VerifiedRows \/ (brings /\ i = row)
    BY <1>2, <2>1, <2>2, <2>3, <2>4
  <2> QED BY <2>5
<1>6. row \notin VerifiedRows
  BY <1>2 DEF VerifiedRows
<1>7. Cardinality(VerifiedRows')
          = IF brings THEN Cardinality(VerifiedRows) + 1 ELSE Cardinality(VerifiedRows)
  BY <1>5, <1>6, VerifiedFinite, FS_AddElement
<1>8. Cardinality(VerifiedRows) \in Nat
  BY VerifiedFinite
<1> HIDE DEF brings
<1> QED BY <1>4, <1>7, <1>8

LEMMA WithdrawsNext ==
  ASSUME Inv, Next, Safe, NothingLost', faults'.crashes = MaxCrashes
  PROVE  queue'.withdrawCount + queue'.withdraws = Cardinality(VerifiedRows')
<1>1. faults.crashes = MaxCrashes /\ ~ Crash
  <2>1. faults.crashes \in 0 .. MaxCrashes /\ MaxCrashes \in Int
    BY SenderAssumption DEF Inv, Types, Faults
  <2>2. faults'.crashes <= faults.crashes
    BY FaultsUsed
  <2>3. Crash => faults'.crashes < faults.crashes
    BY FaultsUsed
  <2> QED BY <2>1, <2>2, <2>3
<1>2. queue.withdrawCount + queue.withdraws = Cardinality(VerifiedRows)
  BY <1>1 DEF Safe
<1>3. mode \notin {"down", "panicked"}
  <2>1. mode = "down" => faults.crashes < MaxCrashes
    BY DEF Safe
  <2>2. mode # "panicked"
    BY DEF Safe
  <2>3. MaxCrashes \in Int
    BY SenderAssumption
  <2> QED BY <1>1, <2>1, <2>2, <2>3
<1>4. MemoryIsOpenRows
  BY <1>3 DEF Safe
<1>5. ~ Restart
  BY <1>3 DEF Restart
<1>6. CASE ConfirmOperation
  BY <1>2, <1>4, <1>6, WithdrawsConfirm
<1>7. CASE ~ ConfirmOperation
  <2>1. VerifiedRows' = VerifiedRows
    BY <1>7, VerifiedSame, TableUnchanged
  <2>2. CASE LoadNewOperations
    <3>1. mode = "idle"
      BY <2>2 DEF LoadNewOperations
    <3>2. queue \in Queues /\ Continues(queue, params)
      BY <3>1 DEF Inv, Types, MemoryTypes, Queued
    <3>3. queue' = Loaded(queue)
      BY <2>2, <3>2, LoadedContinues DEF LoadNewOperations, Inv
    <3> QED BY <1>2, <2>1, <3>2, <3>3, LoadedContinues DEF Inv
  <2>3. CASE InitializeOperation
    <3>1. PICK op \in NextOperation(queue) : queue' = Popped(queue, op)
      BY <2>3 DEF InitializeOperation
    <3>2. mode # "sent"
      BY <2>3 DEF InitializeOperation
    <3>3. queue \in Queues /\ Continues(queue, params)
      BY <3>2 DEF Inv, Types, MemoryTypes, Queued
    <3> QED BY <1>2, <2>1, <3>1, <3>3, PoppedContinues DEF Inv
  <2>4. CASE \/ LoadingFails \/ SkipOperation \/ SupplementNotStored \/ SaveSupplementFails
             \/ SaveNewOperation \/ AllSent \/ FailureHandler \/ WaitForTransaction
             \/ CheckNextTransaction \/ SaveSupplement \/ EndOfRound
             \/ \E nonce \in 0 .. params.nonce : SendSupplement(nonce, BOOLEAN)
    <3>1. queue' = queue
      BY <2>4 DEF LoadingFails, SkipOperation, SupplementNotStored, SaveSupplementFails,
         SaveNewOperation, AllSent, FailureHandler, WaitForTransaction, CheckNextTransaction,
         SaveSupplement, EndOfRound, SendSupplement, memory
    <3> QED BY <1>2, <2>1, <3>1
  <2>5. CASE NewCommitOperation \/ NewVerifyOperation \/ (\E tx \in sent : Mine(tx)) \/ Deepen
             \/ Reorg
    <3>1. queue' = queue
      BY <2>5 DEF NewCommitOperation, NewVerifyOperation, Mine, Deepen, Reorg, memory
    <3> QED BY <1>2, <2>1, <3>1
  <2>6. ~ SaveNewOperationFails
    BY StillNothingLost
  <2> QED BY <1>1, <1>5, <1>7, <2>2, <2>3, <2>4, <2>5, <2>6
          DEF Next, SenderStep, Failure, Environment
<1> QED BY <1>6, <1>7

-----------------------------------------------------------------------------
(* The contract counts the blocks in the chain *)

\* The next transaction in the chain has the next block of its type, or no block.
LEMMA CountsMinedNext ==
  ASSUME NEW n \in Nat, n + 1 \in 1 .. Len(mined'), NEW type, NEW count \in Nat,
         NEW new \in Nat, NEW op, op = mined'[n + 1].tx.op,
         \A i \in 1 .. n : mined'[i] = mined[i] /\ mined[i].tx.op.block \in Int,
         CountsMined(n, type, count),
         op.type = type => op = Op(type, count + 1) /\ new = count + 1,
         op.type # type => new = count
  PROVE  CountsMined(n + 1, type, new)'
<1>1. \A i : i \in 1 .. n + 1 <=> i \in 1 .. n \/ i = n + 1
  OBVIOUS
<1>2. /\ \A i \in 1 .. n : mined'[i].tx.op.type = type => mined'[i].tx.op.block <= count
      /\ count # 0 => \E i \in 1 .. n : mined'[i].tx.op = Op(type, count)
  BY DEF CountsMined
<1>3. CASE op.type = type
  <2>1. op = Op(type, count + 1) /\ new = count + 1 /\ op.block = count + 1
    BY <1>3, OpFields
  <2>2. ASSUME NEW i \in 1 .. n + 1, mined'[i].tx.op.type = type
        PROVE  mined'[i].tx.op.block <= new
    <3>1. CASE i = n + 1
      <4>1. mined'[i].tx.op = op
        BY <3>1
      <4> QED BY <2>1, <4>1
    <3>2. CASE i \in 1 .. n
      <4>1. mined'[i].tx.op.block <= count /\ mined'[i].tx.op.block \in Int
        BY <1>2, <2>2, <3>2
      <4> QED BY <2>1, <4>1
    <3> QED BY <1>1, <3>1, <3>2
  <2>3. \E i \in 1 .. n + 1 : mined'[i].tx.op = Op(type, new)
    BY <1>1, <2>1
  <2> QED BY <2>2, <2>3 DEF CountsMined
<1>4. CASE op.type # type
  BY <1>1, <1>2, <1>4 DEF CountsMined
<1> QED BY <1>3, <1>4

\* What an accepted transaction does to the contract.
LEMMA ExecuteCounts ==
  ASSUME NEW c \in Contracts, NEW tx, tx.op \in Ops, Accepts(c, tx.op)
  PROVE  /\ tx.op.type = "Commit" =>
               tx.op = Op("Commit", c.committed + 1) /\ Execute(c, tx).committed = c.committed + 1
         /\ tx.op.type # "Commit" => Execute(c, tx).committed = c.committed
         /\ tx.op.type = "Verify" =>
               tx.op = Op("Verify", c.verified + 1) /\ Execute(c, tx).verified = c.verified + 1
         /\ tx.op.type # "Verify" => Execute(c, tx).verified = c.verified
<1>1. /\ tx.op.type \in {"Commit", "Verify", "Withdraw"}
      /\ tx.op.type \in {"Commit", "Verify"} => tx.op = Op(tx.op.type, tx.op.block)
      /\ tx.op.type = "Withdraw" <=> tx.op = WithdrawOp
  BY OpTypes
<1>2. c.committed \in Nat /\ c.verified \in Nat
  BY DEF Contracts
<1>3. CASE tx.op.type = "Commit"
  <2>1. tx.op.block = c.committed + 1
    BY <1>3 DEF Accepts
  <2>2. Execute(c, tx) = [c EXCEPT !.committed = @ + 1]
    BY <1>1, <1>3 DEF Execute
  <2> QED BY <1>1, <1>2, <1>3, <2>1, <2>2 DEF Contracts
<1>4. CASE tx.op.type = "Verify"
  <2>1. tx.op.block = c.verified + 1
    BY <1>4 DEF Accepts
  <2>2. Execute(c, tx) = [c EXCEPT !.verified = @ + 1]
    BY <1>1, <1>4 DEF Execute
  <2> QED BY <1>1, <1>2, <1>4, <2>1, <2>2 DEF Contracts
<1>5. CASE tx.op.type = "Withdraw"
  <2>1. Execute(c, tx) = c
    BY <1>1, <1>5 DEF Execute
  <2> QED BY <1>5, <2>1
<1> QED BY <1>1, <1>3, <1>4, <1>5

\* The chain is extended by a transaction the contract accepts, or loses its end.
LEMMA ContractFollowsNext ==
  ASSUME Inv, Inv', Next, Safe
  PROVE  ContractFollows'
<1>1. /\ mined \in Seq(Included) /\ Len(mined) \in Nat /\ Len(mined') \in Nat
      /\ sent \subseteq Txs
  BY LenProperties DEF Inv, Types, ChainTypes
<1>2. ContractFollows /\ \A tx \in sent \ Unsaved : Recorded(tx)
  BY DEF Safe
<1>3. \A i \in 1 .. Len(mined') :
         \/ i \in 1 .. Len(mined) /\ mined'[i] = mined[i]
         \/ /\ i = Len(mined) + 1 /\ mined'[i].tx \in sent /\ mined'[i].tx.nonce = Len(mined)
            /\ mined'[i].contract = Execute(ContractAfter(mined'[i].tx.nonce), mined'[i].tx)
  BY ChainNext
<1>4. ASSUME NEW n \in 0 .. Len(mined'), n <= Len(mined)
      PROVE  /\ CountsMined(n, "Commit", ContractAfter(n).committed)'
             /\ CountsMined(n, "Verify", ContractAfter(n).verified)'
  <2>1. \A i \in 1 .. n : mined'[i] = mined[i]
    <3> TAKE i \in 1 .. n
    <3>1. i \in 1 .. Len(mined') /\ i # Len(mined) + 1
      BY <1>1, <1>4
    <3> QED BY <1>3, <3>1
  <2>2. ContractAfter(n)' = ContractAfter(n)
    BY <2>1 DEF ContractAfter
  <2>3. n \in 0 .. Len(mined)
    BY <1>1, <1>4
  <2>4. /\ CountsMined(n, "Commit", ContractAfter(n).committed)
        /\ CountsMined(n, "Verify", ContractAfter(n).verified)
    BY <1>2, <2>3 DEF ContractFollows
  <2> QED BY <2>1, <2>2, <2>4 DEF CountsMined
<1>5. ASSUME NEW m \in 0 .. Len(mined'), ~ (m <= Len(mined))
      PROVE  /\ CountsMined(m, "Commit", ContractAfter(m).committed)'
             /\ CountsMined(m, "Verify", ContractAfter(m).verified)'
  <2> PICK n : n = Len(mined)
    OBVIOUS
  <2>1. n \in Nat /\ m = n + 1 /\ m \in 1 .. Len(mined')
    <3>1. m \in 1 .. Len(mined') /\ m \notin 1 .. Len(mined)
      BY <1>1, <1>5
    <3> QED BY <1>1, <1>3, <3>1
  <2> PICK tx : tx = mined'[m].tx
    OBVIOUS
  <2>2. /\ tx \in sent /\ tx.nonce = n
        /\ ContractAfter(m)' = Execute(ContractAfter(n), tx)
    <3>1. m \notin 1 .. Len(mined)
      BY <1>1, <1>5
    <3>2. m # 0
      BY <2>1
    <3> QED BY <1>3, <2>1, <3>1, <3>2 DEF ContractAfter
  <2> PICK c : c = ContractAfter(n)
    OBVIOUS
  <2>3. tx.op \in Ops /\ n \in 0 .. Len(mined)
    BY <1>1, <2>1, <2>2 DEF Txs
  <2>4. c \in Contracts /\ Accepts(c, tx.op)
    <3>1. Accepts(ContractAfter(tx.nonce), tx.op)
      BY <1>2, <2>2, <2>3, SentIsAccepted
    <3> QED BY <2>2, <2>3, <3>1, ContractTyped
  <2>5. \A i \in 1 .. n : mined'[i] = mined[i] /\ mined[i].tx.op.block \in Int
    <3> TAKE i \in 1 .. n
    <3>1. i \in 1 .. Len(mined') /\ i # Len(mined) + 1 /\ i \in 1 .. Len(mined)
      BY <1>1, <2>1
    <3>2. mined[i].tx.op \in Ops
      <4>1. mined[i] \in Included
        BY <1>1, <3>1, ElementOfSeq
      <4> QED BY <4>1 DEF Included, Txs
    <3>3. mined[i].tx.op.block \in Int
      BY <3>2, SenderAssumption, SMTT(20) DEF Ops, WithdrawOp, Op
    <3> QED BY <1>3, <3>1, <3>3
  <2>6. CountsMined(n, "Commit", c.committed) /\ CountsMined(n, "Verify", c.verified)
    BY <1>2, <2>3 DEF ContractFollows
  <2> PICK d : d = Execute(c, tx)
    OBVIOUS
  <2>7. /\ tx.op.type = "Commit" => tx.op = Op("Commit", c.committed + 1)
                                    /\ d.committed = c.committed + 1
        /\ tx.op.type # "Commit" => d.committed = c.committed
        /\ tx.op.type = "Verify" => tx.op = Op("Verify", c.verified + 1)
                                    /\ d.verified = c.verified + 1
        /\ tx.op.type # "Verify" => d.verified = c.verified
    BY <2>3, <2>4, ExecuteCounts
  <2>8. c.committed \in Nat /\ c.verified \in Nat
    BY <2>4 DEF Contracts
  <2>9. d.committed \in Nat /\ d.verified \in Nat
    BY <2>7, <2>8
  <2> PICK op : op = tx.op
    OBVIOUS
  <2>10. op = mined'[n + 1].tx.op /\ n + 1 \in 1 .. Len(mined')
    BY <2>1
  <2>11. CountsMined(n + 1, "Commit", d.committed)'
    BY <2>1, <2>5, <2>6, <2>7, <2>8, <2>9, <2>10, CountsMinedNext
  <2>12. CountsMined(n + 1, "Verify", d.verified)'
    BY <2>1, <2>5, <2>6, <2>7, <2>8, <2>9, <2>10, CountsMinedNext
  <2> QED BY <2>1, <2>2, <2>11, <2>12
<1> QED BY <1>4, <1>5 DEF ContractFollows

-----------------------------------------------------------------------------
(* The invariant *)

LEMMA SafeInit ==
  ASSUME Init
  PROVE  Safe
<1>1. /\ ethOps = <<>> /\ Len(ethOps) = 0 /\ ongoing = <<>> /\ Len(ongoing) = 0
      /\ mined = <<>> /\ Len(mined) = 0 /\ sent = {} /\ mode = "idle"
      /\ queue = NewQueue(0, params) /\ params.withdraw = 0
  BY EmptyIsSeq DEF Init
<1>2. Open = {} /\ VerifiedRows = {}
  BY <1>1 DEF Open, VerifiedRows
<1>3. InFlight = 0 /\ Cardinality(VerifiedRows) = 0
  BY <1>1, <1>2, FS_EmptySet DEF InFlight
<1>4. MemoryIsOpenRows
  BY <1>1, <1>3 DEF MemoryIsOpenRows, NewQueue
<1>5. queue.withdrawCount + queue.withdraws = 0
  BY <1>1 DEF NewQueue
<1>6. ContractFollows
  <2>1. \A n \in 0 .. Len(mined) : n = 0
    BY <1>1
  <2> QED BY <2>1 DEF ContractFollows, CountsMined, ContractAfter
<1>7. InFlight <= MaxInFlight
  BY <1>3, SenderAssumption
<1> QED BY <1>1, <1>3, <1>4, <1>5, <1>6, <1>7 DEF Safe

LEMMA SafeNext ==
  ASSUME Inv, Inv', Next, Safe, NothingLost'
  PROVE  Safe'
<1>1. mode' # "panicked"
  BY NoPanicNext
<1>2. (\A tx \in sent \ Unsaved : Recorded(tx))'
  BY RecordedNext
<1>3. \A i \in 1 .. Len(ethOps') : LastIsLargest(ethOps'[i].txs)
  BY LargestNext
<1>4. mode' # "down" => MemoryIsOpenRows'
  BY <1>1, MemoryNext
<1>5. mode' = "down" => faults'.crashes < MaxCrashes
  BY DownNext
<1>6. faults'.crashes = MaxCrashes =>
          queue'.withdrawCount + queue'.withdraws = Cardinality(VerifiedRows')
  BY WithdrawsNext
<1>7. ContractFollows'
  BY ContractFollowsNext
<1>8. InFlight' <= MaxInFlight
  BY <1>1, MemoryNext
<1> QED BY <1>1, <1>2, <1>3, <1>4, <1>5, <1>6, <1>7, <1>8 DEF Safe

LEMMA SafeStutter ==
  ASSUME UNCHANGED vars, Safe
  PROVE  Safe'
<1>1. /\ UNCHANGED <<ethOps, params, mode, queue, ongoing, cursor, at>>
      /\ UNCHANGED <<sent, mined, deep, faults>>
  BY DEF vars, database, memory, ethereum
<1>2. Unsaved' = Unsaved /\ Open' = Open
  BY <1>1 DEF Unsaved, Last, Current, Open
<1>3. InFlight' = InFlight /\ VerifiedRows' = VerifiedRows
  BY <1>1, <1>2 DEF InFlight, VerifiedRows
<1>4. MemoryIsOpenRows' <=> MemoryIsOpenRows
  BY <1>1, <1>2, <1>3 DEF MemoryIsOpenRows, OpenEntry
<1>5. ContractFollows' <=> ContractFollows
  BY <1>1 DEF ContractFollows, CountsMined, ContractAfter
<1> QED BY <1>1, <1>2, <1>3, <1>4, <1>5 DEF Safe, Recorded

LEMMA SafeInvNext == SafeInv /\ [Next]_vars => SafeInv'
<1> SUFFICES ASSUME SafeInv, [Next]_vars
             PROVE  SafeInv'
  OBVIOUS
<1>1. Inv /\ Inv'
  BY InvNext DEF SafeInv
<1>2. ASSUME NothingLost'
      PROVE  Safe'
  <2>1. CASE Next
    <3>1. NothingLost
      BY <1>1, <1>2, <2>1, StillNothingLost
    <3> QED BY <1>1, <1>2, <2>1, <3>1, SafeNext DEF SafeInv
  <2>2. CASE UNCHANGED vars
    <3>1. NothingLost
      BY <1>2, <2>2 DEF NothingLost, vars
    <3> QED BY <2>2, <3>1, SafeStutter DEF SafeInv
  <2> QED BY <2>1, <2>2
<1> QED BY <1>1, <1>2 DEF SafeInv

LEMMA SafeInvariant == Spec => []SafeInv
<1>1. Init => SafeInv
  BY InitInv, SafeInit DEF SafeInv
<1> QED BY <1>1, SafeInvNext, PTL DEF Spec

-----------------------------------------------------------------------------
(* Theorems *)

LEMMA SafeHolds ==
  ASSUME SafeInv, NothingLost
  PROVE  NeverFails /\ OneOperationPerNonce /\ QueueMatches
<1>1. Inv /\ Safe
  BY DEF SafeInv
<1>2. /\ \A tx \in sent \ Unsaved : Recorded(tx)
      /\ ContractFollows
  BY <1>1 DEF Safe
<1>3. NeverFails
  BY <1>1, <1>2, ChainAccepted, TypesHold DEF NeverFails, NeverPanics, Safe
<1>4. OneOperationPerNonce
  BY <1>1, <1>2, OneNonce
<1>5. QueueMatches
  <2>1. SlotsMatchOngoing
    BY <1>1 DEF Safe, MemoryIsOpenRows, SlotsMatchOngoing, Running
  <2>2. WithdrawalsFollow
    <3>1. DOMAIN ethOps = 1 .. Len(ethOps)
      BY <1>1, LenProperties DEF Inv, Types, TableTypes
    <3> QED BY <1>1, <3>1 DEF Safe, VerifiedRows, WithdrawalsFollow
  <2> QED BY <2>1, <2>2 DEF QueueMatches
<1> QED BY <1>3, <1>4, <1>5

\* The sender never ends itself: no assertion of the queue fails and no transaction
\* reverts, so that failure_handler (zksync_eth_sender/src/lib.rs) is never called,
\* whatever crashes, is refused by the node or is reorganised.
THEOREM SenderNeverFails == Spec => [](NothingLost => NeverFails)
<1>1. SafeInv => (NothingLost => NeverFails)
  BY SafeHolds
<1> QED BY <1>1, SafeInvariant, PTL

\* A nonce is that of one operation, and a block's commit or verification has one
\* nonce: however often it is sent, Ethereum executes it once (get_next_nonce and
\* the rows of eth_ops_binding in one database transaction).
THEOREM OperationsHaveOneNonce == Spec => [](NothingLost => OneOperationPerNonce)
<1>1. SafeInv => (NothingLost => OneOperationPerNonce)
  BY SafeHolds
<1> QED BY <1>1, SafeInvariant, PTL

\* Slots and withdrawals are counted right: sent_pending_txs is the number of
\* operations under way and within max_pending_txs, and each confirmed verification
\* that brings withdrawals has its completeWithdrawals (TxQueue).
THEOREM QueueCountsWhatIsUnderWay == Spec => [](NothingLost => QueueMatches)
<1>1. SafeInv => (NothingLost => QueueMatches)
  BY SafeHolds
<1> QED BY <1>1, SafeInvariant, PTL
=============================================================================
