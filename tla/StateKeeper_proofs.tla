-------------------------- MODULE StateKeeper_proofs --------------------------
(***************************************************************************)
(* Theorems about block production, for every genesis state, every set of  *)
(* transactions and priority operations, and all sizes and limits: the     *)
(* control state and the types of all data.  Part two is Blocks_proofs.    *)
(***************************************************************************)
EXTENDS StateKeeper, DataFacts, TLAPS

-----------------------------------------------------------------------------
(* The channel to the committer and the table of blocks *)

\* Position k of channel q holds a sealed block.
Sealed(q, k) == k \in 1 .. Len(q) /\ q[k].type = "Block"

\* Where the priority operations of block n of table b end.
EndOf(b, n) == IF n = 0 THEN 0 ELSE b[n].after

\* The priority operations of block n end before operation v: the block waits in
\* the channel, or it is committed and no newer block of its number waits.
EndsBefore(q, b, n, v) ==
    \/ \E k \in 1 .. Len(q) : Sealed(q, k) /\ q[k].number = n /\ q[k].after = v
    \/ /\ n \in 0 .. Len(b)
       /\ v = EndOf(b, n)
       /\ \A k \in 1 .. Len(q) : Sealed(q, k) => q[k].number # n

\* A sealed block in the channel begins where its predecessor ends.
Begins(q, b, k) ==
    /\ q[k].before \in Nat /\ q[k].after \in Nat /\ q[k].before <= q[k].after
    /\ EndsBefore(q, b, q[k].number - 1, q[k].before)

\* The numbers in the channel are at most that of the open block, and those of
\* the sealed blocks grow.
Numbered(q, top) ==
    \A k \in 1 .. Len(q) :
        /\ q[k].number \in 1 .. top
        /\ Sealed(q, k) => q[k].number < top
        /\ \A j \in 1 .. k - 1 :
              Sealed(q, j) /\ Sealed(q, k) => q[j].number < q[k].number

Channel(q, b, top) ==
    Numbered(q, top) /\ \A k \in 1 .. Len(q) : Sealed(q, k) => Begins(q, b, k)

\* A sealed block enters the channel, and the next one opens where it ends.
LEMMA PushSealed ==
  ASSUME NEW q, IsSeq(q), NEW b, IsSeq(b), NEW top \in Nat \ {0}, Channel(q, b, top),
         NEW r, r.type = "Block", r.number = top,
         r.before \in Nat, r.after \in Nat, r.before <= r.after,
         EndsBefore(q, b, top - 1, r.before)
  PROVE  /\ Channel(Append(q, r), b, top + 1)
         /\ EndsBefore(Append(q, r), b, top, r.after)
<1> DEFINE n == Len(q)
           p == Append(q, r)
<1>1. /\ n \in Nat /\ Len(p) = n + 1 /\ p[n + 1] = r
      /\ \A k \in 1 .. n : p[k] = q[k]
  BY AppendKeeps
<1> HIDE DEF p, n
<1>2. /\ \A k \in 1 .. n : Sealed(p, k) <=> Sealed(q, k)
      /\ Sealed(p, n + 1)
  BY <1>1 DEF Sealed, n
<1>3. ASSUME NEW m \in Int, m < top, NEW v, EndsBefore(q, b, m, v)
      PROVE  EndsBefore(p, b, m, v)
  <2>1. CASE \E k \in 1 .. n : Sealed(q, k) /\ q[k].number = m /\ q[k].after = v
    <3>1. PICK k \in 1 .. n : Sealed(q, k) /\ q[k].number = m /\ q[k].after = v
      BY <2>1
    <3>2. k \in 1 .. Len(p) /\ Sealed(p, k) /\ p[k].number = m /\ p[k].after = v
      BY <1>1, <1>2, <3>1
    <3> QED BY <3>2 DEF EndsBefore
  <2>2. CASE /\ m \in 0 .. Len(b) /\ v = EndOf(b, m)
             /\ \A k \in 1 .. n : Sealed(q, k) => q[k].number # m
    <3>1. \A k \in 1 .. n : Sealed(p, k) => p[k].number # m
      BY <1>1, <1>2, <2>2
    <3>2. p[n + 1].number # m
      BY <1>1, <1>3
    <3>3. \A k \in 1 .. Len(p) : Sealed(p, k) => p[k].number # m
      BY <1>1, <3>1, <3>2
    <3> QED BY <2>2, <3>3 DEF EndsBefore
  <2> QED BY <1>3, <2>1, <2>2 DEF EndsBefore, n
<1>4. Numbered(p, top + 1)
  <2>1. \A k \in 1 .. n : /\ q[k].number \in 1 .. top
                          /\ Sealed(q, k) => q[k].number < top
                          /\ \A j \in 1 .. k - 1 :
                                Sealed(q, j) /\ Sealed(q, k) => q[j].number < q[k].number
    BY DEF Channel, Numbered, n
  <2> SUFFICES ASSUME NEW k \in 1 .. n + 1
               PROVE  /\ p[k].number \in 1 .. top + 1
                      /\ Sealed(p, k) => p[k].number < top + 1
                      /\ \A j \in 1 .. k - 1 :
                            Sealed(p, j) /\ Sealed(p, k) => p[j].number < p[k].number
    BY <1>1 DEF Numbered
  <2>2. CASE k \in 1 .. n
    <3>1. p[k] = q[k] /\ (Sealed(p, k) => Sealed(q, k))
      BY <1>1, <1>2, <2>2
    <3>2. \A j \in 1 .. k - 1 : j \in 1 .. n /\ p[j] = q[j] /\ (Sealed(p, j) => Sealed(q, j))
      BY <1>1, <1>2, <2>2
    <3>3. p[k].number \in 1 .. top + 1 /\ (Sealed(p, k) => p[k].number < top + 1)
      BY <2>1, <2>2, <3>1
    <3> QED BY <2>1, <2>2, <3>1, <3>2, <3>3
  <2>3. CASE k = n + 1
    <3>1. \A j \in 1 .. n : p[j] = q[j] /\ Sealed(q, j) => p[j].number < top
      BY <2>1
    <3> QED BY <1>1, <1>2, <2>3, <3>1
  <2> QED BY <1>1, <2>2, <2>3
<1>5. ASSUME NEW k \in 1 .. n + 1, Sealed(p, k)
      PROVE  Begins(p, b, k)
  <2>1. CASE k \in 1 .. n
    <3>1. Begins(q, b, k) /\ q[k].number \in 1 .. top /\ q[k].number < top
      BY <1>2, <1>5, <2>1 DEF Channel, Numbered, n
    <3> QED BY <1>1, <1>3, <2>1, <3>1 DEF Begins
  <2>2. CASE k = n + 1
    BY <1>1, <1>3, <2>2 DEF Begins
  <2> QED BY <1>1, <2>1, <2>2
<1>6. EndsBefore(p, b, top, r.after)
  BY <1>1, <1>2 DEF EndsBefore
<1> QED BY <1>1, <1>4, <1>5, <1>6 DEF Channel, p

\* The pending block enters the channel.
LEMMA PushPending ==
  ASSUME NEW q, IsSeq(q), NEW b, NEW top \in Nat \ {0}, Channel(q, b, top),
         NEW r, r.type = "PendingBlock", r.number = top
  PROVE  /\ Channel(Append(q, r), b, top)
         /\ \A m, v : EndsBefore(q, b, m, v) => EndsBefore(Append(q, r), b, m, v)
<1> DEFINE n == Len(q)
           p == Append(q, r)
<1>1. /\ n \in Nat /\ Len(p) = n + 1 /\ p[n + 1] = r
      /\ \A k \in 1 .. n : p[k] = q[k]
  BY AppendKeeps
<1> HIDE DEF p, n
<1>2. /\ \A k \in 1 .. n : Sealed(p, k) <=> Sealed(q, k)
      /\ ~ Sealed(p, n + 1)
  BY <1>1 DEF Sealed, n
<1>3. ASSUME NEW m, NEW v, EndsBefore(q, b, m, v)
      PROVE  EndsBefore(p, b, m, v)
  BY <1>1, <1>2, <1>3 DEF EndsBefore, n
<1>4. Numbered(p, top)
  <2>1. \A k \in 1 .. n : /\ q[k].number \in 1 .. top
                          /\ Sealed(q, k) => q[k].number < top
                          /\ \A j \in 1 .. k - 1 :
                                Sealed(q, j) /\ Sealed(q, k) => q[j].number < q[k].number
    BY DEF Channel, Numbered, n
  <2> QED BY <1>1, <1>2, <2>1 DEF Numbered
<1>5. ASSUME NEW k \in 1 .. n + 1, Sealed(p, k)
      PROVE  Begins(p, b, k)
  <2>1. k \in 1 .. n /\ Begins(q, b, k)
    BY <1>1, <1>2, <1>5 DEF Channel, n
  <2> QED BY <1>1, <1>3, <2>1 DEF Begins
<1> QED BY <1>1, <1>3, <1>4, <1>5 DEF Channel, p

\* The stored pending block leaves the channel.
LEMMA PopPending ==
  ASSUME NEW q, IsSeq(q), q # <<>>, Head(q).type # "Block",
         NEW b, NEW top \in Nat, Channel(q, b, top)
  PROVE  /\ Channel(Tail(q), b, top)
         /\ \A m, v : EndsBefore(q, b, m, v) => EndsBefore(Tail(q), b, m, v)
<1> DEFINE n == Len(q)
           p == Tail(q)
<1>1. /\ n \in Nat \ {0} /\ Len(p) = n - 1 /\ Head(q) = q[1]
      /\ \A k \in 1 .. n - 1 : p[k] = q[k + 1]
  BY TailKeeps
<1> HIDE DEF p, n
<1>2. /\ \A k \in 1 .. n - 1 : Sealed(p, k) <=> Sealed(q, k + 1)
      /\ ~ Sealed(q, 1)
  BY <1>1 DEF Sealed, n
<1>3. ASSUME NEW m, NEW v, EndsBefore(q, b, m, v)
      PROVE  EndsBefore(p, b, m, v)
  <2>1. CASE \E k \in 1 .. n : Sealed(q, k) /\ q[k].number = m /\ q[k].after = v
    <3>1. PICK k \in 1 .. n : Sealed(q, k) /\ q[k].number = m /\ q[k].after = v
      BY <2>1
    <3>2. k - 1 \in 1 .. n - 1 /\ p[k - 1] = q[k]
      BY <1>1, <1>2, <3>1
    <3> QED BY <1>1, <1>2, <3>1, <3>2 DEF EndsBefore
  <2>2. CASE ~ \E k \in 1 .. n : Sealed(q, k) /\ q[k].number = m /\ q[k].after = v
    <3>1. /\ m \in 0 .. Len(b) /\ v = EndOf(b, m)
          /\ \A k \in 1 .. n : Sealed(q, k) => q[k].number # m
      BY <1>3, <2>2 DEF EndsBefore, n
    <3>2. \A k \in 1 .. n - 1 : k + 1 \in 1 .. n
      BY <1>1
    <3>3. \A k \in 1 .. Len(p) : Sealed(p, k) => p[k].number # m
      BY <1>1, <1>2, <3>1, <3>2
    <3> QED BY <3>1, <3>3 DEF EndsBefore
  <2> QED BY <2>1, <2>2
<1>4. Numbered(p, top)
  <2>1. \A k \in 1 .. n : /\ q[k].number \in 1 .. top
                          /\ Sealed(q, k) => q[k].number < top
                          /\ \A j \in 1 .. k - 1 :
                                Sealed(q, j) /\ Sealed(q, k) => q[j].number < q[k].number
    BY DEF Channel, Numbered, n
  <2> SUFFICES ASSUME NEW k \in 1 .. n - 1
               PROVE  /\ p[k].number \in 1 .. top
                      /\ Sealed(p, k) => p[k].number < top
                      /\ \A j \in 1 .. k - 1 :
                            Sealed(p, j) /\ Sealed(p, k) => p[j].number < p[k].number
    BY <1>1 DEF Numbered
  <2>2. k + 1 \in 1 .. n /\ \A j \in 1 .. k - 1 : j \in 1 .. n - 1 /\ j + 1 \in 1 .. (k + 1) - 1
    BY <1>1
  <2> QED BY <1>1, <1>2, <2>1, <2>2
<1>5. ASSUME NEW k \in 1 .. n - 1, Sealed(p, k)
      PROVE  Begins(p, b, k)
  <2>1. k + 1 \in 1 .. n /\ Begins(q, b, k + 1)
    BY <1>1, <1>2, <1>5 DEF Channel, n
  <2> QED BY <1>1, <1>3, <2>1 DEF Begins
<1> QED BY <1>1, <1>3, <1>4, <1>5 DEF Channel, p

\* The head of the channel is committed: its number is the next one, it begins
\* where the table ends, and what began after it still does.
LEMMA PopSealed ==
  ASSUME NEW q, IsSeq(q), q # <<>>, Head(q).type = "Block",
         NEW b, IsSeq(b), NEW top \in Nat, Channel(q, b, top), Head(q).number > Len(b),
         NEW e, e.before = Head(q).before, e.after = Head(q).after
  PROVE  /\ Head(q).number = Len(b) + 1
         /\ e.before \in Nat /\ e.after \in Nat /\ e.before <= e.after
         /\ e.before = EndOf(b, Len(b))
         /\ Channel(Tail(q), Append(b, e), top)
         /\ \A v : \A m \in Int : EndsBefore(q, b, m, v) => EndsBefore(Tail(q), Append(b, e), m, v)
<1> DEFINE n == Len(q)
           p == Tail(q)
           c == Append(b, e)
<1>1. /\ n \in Nat \ {0} /\ Len(p) = n - 1 /\ Head(q) = q[1]
      /\ \A k \in 1 .. n - 1 : p[k] = q[k + 1]
  BY TailKeeps
<1>2. /\ Len(b) \in Nat /\ Len(c) = Len(b) + 1 /\ c[Len(b) + 1] = e
      /\ \A k \in 1 .. Len(b) : c[k] = b[k]
  BY AppendKeeps
<1> HIDE DEF p, n, c
<1>3. /\ \A k \in 1 .. n - 1 : Sealed(p, k) <=> Sealed(q, k + 1)
      /\ Sealed(q, 1)
  BY <1>1 DEF Sealed, n
<1>4. \A k \in 1 .. n : /\ q[k].number \in 1 .. top
                        /\ Sealed(q, k) => q[k].number < top
                        /\ \A j \in 1 .. k - 1 :
                              Sealed(q, j) /\ Sealed(q, k) => q[j].number < q[k].number
  BY DEF Channel, Numbered, n
<1>5. /\ q[1].before \in Nat /\ q[1].after \in Nat /\ q[1].before <= q[1].after
      /\ EndsBefore(q, b, q[1].number - 1, q[1].before)
  BY <1>1, <1>3 DEF Channel, Begins, n
<1>6. \A k \in 2 .. n : Sealed(q, k) => q[1].number < q[k].number
  <2>1. \A k \in 2 .. n : k \in 1 .. n /\ 1 \in 1 .. k - 1
    BY <1>1
  <2> QED BY <1>3, <1>4, <2>1
<1>7. q[1].number = Len(b) + 1 /\ q[1].before = EndOf(b, Len(b))
  <2>1. ~ \E k \in 1 .. n : Sealed(q, k) /\ q[k].number = q[1].number - 1
    BY <1>1, <1>4, <1>6
  <2>2. /\ q[1].number - 1 \in 0 .. Len(b)
        /\ q[1].before = EndOf(b, q[1].number - 1)
    BY <1>5, <2>1 DEF EndsBefore, n
  <2> QED BY <1>1, <1>2, <1>4, <2>2
<1>8. ASSUME NEW m \in Int, NEW v, EndsBefore(q, b, m, v)
      PROVE  EndsBefore(p, c, m, v)
  <2>1. CASE \E k \in 2 .. n : Sealed(q, k) /\ q[k].number = m /\ q[k].after = v
    <3>1. PICK k \in 2 .. n : Sealed(q, k) /\ q[k].number = m /\ q[k].after = v
      BY <2>1
    <3>2. k - 1 \in 1 .. n - 1 /\ p[k - 1] = q[k] /\ Sealed(p, k - 1)
      BY <1>1, <1>3, <3>1
    <3> QED BY <1>1, <3>1, <3>2 DEF EndsBefore
  <2>2. CASE m = q[1].number /\ v = q[1].after
    <3>1. \A k \in 1 .. n - 1 : Sealed(p, k) => p[k].number # m
      BY <1>1, <1>3, <1>6, <2>2
    <3>2. m \in 0 .. Len(c) /\ v = EndOf(c, m)
      BY <1>1, <1>2, <1>7, <2>2 DEF EndOf
    <3> QED BY <1>1, <3>1, <3>2 DEF EndsBefore
  <2>3. CASE /\ m \in 0 .. Len(b) /\ v = EndOf(b, m)
             /\ \A k \in 1 .. n : Sealed(q, k) => q[k].number # m
    <3>1. \A k \in 1 .. n - 1 : Sealed(p, k) => p[k].number # m
      BY <1>1, <1>3, <2>3
    <3>2. m \in 0 .. Len(c) /\ v = EndOf(c, m)
      BY <1>2, <2>3 DEF EndOf
    <3> QED BY <1>1, <3>1, <3>2 DEF EndsBefore
  <2> QED
    <3>1. \A k \in 1 .. n : k = 1 \/ k \in 2 .. n
      BY <1>1
    <3> QED BY <1>8, <2>1, <2>2, <2>3, <3>1 DEF EndsBefore, n
<1>9. Numbered(p, top)
  <2> SUFFICES ASSUME NEW k \in 1 .. n - 1
               PROVE  /\ p[k].number \in 1 .. top
                      /\ Sealed(p, k) => p[k].number < top
                      /\ \A j \in 1 .. k - 1 :
                            Sealed(p, j) /\ Sealed(p, k) => p[j].number < p[k].number
    BY <1>1 DEF Numbered
  <2>1. k + 1 \in 1 .. n /\ \A j \in 1 .. k - 1 : j \in 1 .. n - 1 /\ j + 1 \in 1 .. (k + 1) - 1
    BY <1>1
  <2>2. p[k] = q[k + 1] /\ (Sealed(p, k) => Sealed(q, k + 1))
    BY <1>1, <1>3
  <2>3. \A j \in 1 .. k - 1 : p[j] = q[j + 1] /\ (Sealed(p, j) => Sealed(q, j + 1))
    BY <1>1, <1>3, <2>1
  <2>4. \A j \in 1 .. k - 1 : Sealed(p, j) /\ Sealed(p, k) => p[j].number < p[k].number
    BY <1>4, <2>1, <2>2, <2>3
  <2>5. p[k].number \in 1 .. top /\ (Sealed(p, k) => p[k].number < top)
    BY <1>4, <2>1, <2>2
  <2> QED BY <2>4, <2>5
<1>10. ASSUME NEW k \in 1 .. n - 1, Sealed(p, k)
       PROVE  Begins(p, c, k)
  <2>1. k + 1 \in 1 .. n /\ Begins(q, b, k + 1) /\ q[k + 1].number \in Int
    BY <1>1, <1>3, <1>4, <1>10 DEF Channel, n
  <2>2. p[k] = q[k + 1] /\ p[k].number - 1 \in Int
    BY <1>1, <2>1
  <2>3. EndsBefore(q, b, p[k].number - 1, p[k].before)
    BY <2>1, <2>2 DEF Begins
  <2>4. EndsBefore(p, c, p[k].number - 1, p[k].before)
    BY <1>8, <2>2, <2>3
  <2> QED BY <2>1, <2>2, <2>4 DEF Begins
<1> QED BY <1>1, <1>5, <1>7, <1>8, <1>9, <1>10 DEF Channel, p, c

-----------------------------------------------------------------------------
(* The inductive invariant *)

SequencesOK ==
    /\ IsSeq(commitQ) /\ IsSeq(blocks)
    /\ "before" \in DOMAIN pending
    /\ mode = "down" => commitQ = <<>>
    /\ mode # "down" => blockNumber # 0

\* The open block begins where its predecessor ends.
OpenOK ==
    mode # "down" =>
        /\ pending.before <= currentPriorityOp
        /\ EndsBefore(commitQ, blocks, blockNumber - 1, pending.before)

\* Why the ranges of the blocks are contiguous: each block, from the open one
\* back over the channel to the table, begins where its predecessor ends.
IInv ==
    /\ ControlTypeOK
    /\ SequencesOK
    /\ Channel(commitQ, blocks, blockNumber)
    /\ OpenOK
    /\ RangesContiguous

\* The server starts on an empty database with the block after genesis open.
LEMMA InitIInv == Init => IInv
<1> SUFFICES ASSUME Init PROVE IInv
  OBVIOUS
<1>1. IsSeq(<<>>) /\ Len(<<>>) = 0 /\ DOMAIN <<>> = {}
  BY EmptyIsSeq
<1>2. Len(PriorityOps) \in Nat
  BY BoundsAssumption, LenProperties
<1>3. ControlTypeOK /\ SequencesOK
  BY <1>1, <1>2, BoundsAssumption DEF Init, NewPending, ControlTypeOK, SequencesOK
<1>4. Channel(commitQ, blocks, blockNumber)
  BY <1>1 DEF Init, Channel, Numbered
<1>5. OpenOK
  BY <1>1 DEF Init, NewPending, OpenOK, EndsBefore, EndOf
<1>6. RangesContiguous
  BY <1>1 DEF Init, RangesContiguous
<1> QED BY <1>3, <1>4, <1>5, <1>6 DEF IInv

\* A step of the keeper or the environment that neither seals nor commits keeps
\* the invariant, if it takes no priority operation back.
LEMMA Aside ==
  ASSUME IInv, mode # "down", mode' \in {"idle", "executing", "restoring"},
         UNCHANGED <<blockNumber, commitQ, blocks, pendingRows>>,
         currentPriorityOp' \in Nat, currentPriorityOp' >= currentPriorityOp,
         "before" \in DOMAIN pending', pending'.before = pending.before,
         verified' \in 0 .. Len(blocks), known' \in 0 .. Len(PriorityOps),
         submitted' \in 0 .. MaxSubmitted, crashes' \in 0 .. MaxCrashes
  PROVE  IInv'
<1>1. ControlTypeOK' /\ SequencesOK'
  BY DEF IInv, ControlTypeOK, SequencesOK
<1>2. OpenOK'
  <2>1. /\ pending.before <= currentPriorityOp
        /\ EndsBefore(commitQ, blocks, blockNumber - 1, pending.before)
    BY DEF IInv, OpenOK
  <2>2. pending.before \in Nat /\ currentPriorityOp \in Nat
    BY DEF IInv, ControlTypeOK
  <2>3. pending'.before <= currentPriorityOp'
    BY <2>1, <2>2
  <2>4. EndsBefore(commitQ, blocks, blockNumber - 1, pending.before)'
    BY <2>1
  <2> QED BY <2>3, <2>4 DEF OpenOK
<1>3. Channel(commitQ, blocks, blockNumber)' /\ RangesContiguous'
  BY DEF IInv, RangesContiguous, UnprocessedPriorityOp
<1> QED BY <1>1, <1>2, <1>3 DEF IInv

\* A crash or a panic empties the memory and keeps the table of blocks.
LEMMA StopKeeps ==
  ASSUME IInv, Stop, UNCHANGED <<blocks, pendingRows, verified, known, submitted>>,
         crashes' \in 0 .. MaxCrashes
  PROVE  IInv'
<1>1. IsSeq(<<>>) /\ Len(<<>>) = 0
  BY EmptyIsSeq
<1>2. ControlTypeOK' /\ SequencesOK'
  BY <1>1 DEF IInv, ControlTypeOK, SequencesOK, Stop, FreshPending, NewPending
<1>3. Channel(commitQ, blocks, blockNumber)'
  BY <1>1 DEF Stop, Channel, Numbered
<1>4. OpenOK' /\ RangesContiguous'
  BY DEF IInv, OpenOK, Stop, RangesContiguous, UnprocessedPriorityOp
<1> QED BY <1>2, <1>3, <1>4 DEF IInv

\* A panic in a task keeps the table of blocks.
LEMMA PanicKeeps ==
  ASSUME IInv, Panic
  PROVE  IInv'
BY StopKeeps DEF Panic, database, IInv, ControlTypeOK

\* Sealing the open block opens the one that begins where it ends.
LEMMA SealKeeps ==
  ASSUME IInv, mode # "down", Seal, mode' \in {"idle", "executing", "restoring"},
         UNCHANGED <<database, known, submitted, crashes, wentBack>>
  PROVE  IInv'
<1>1. PICK r : /\ commitQ' = Append(commitQ, r)
               /\ r.type = "Block" /\ r.number = blockNumber
               /\ r.before = pending.before /\ r.after = currentPriorityOp
  BY DEF Seal
<1>2. /\ blockNumber' = blockNumber + 1 /\ currentPriorityOp' = currentPriorityOp
      /\ "before" \in DOMAIN pending' /\ pending'.before = currentPriorityOp
      /\ UNCHANGED <<blocks, pendingRows, verified>>
  BY DEF Seal, FreshPending, NewPending, database
<1>3. /\ blockNumber \in Nat \ {0} /\ currentPriorityOp \in Nat /\ pending.before \in Nat
      /\ IsSeq(commitQ) /\ IsSeq(blocks)
  BY DEF IInv, ControlTypeOK, SequencesOK
<1>4. /\ Channel(commitQ', blocks, blockNumber + 1)
      /\ EndsBefore(commitQ', blocks, blockNumber, currentPriorityOp)
  BY <1>1, <1>3, PushSealed DEF IInv, OpenOK
<1>5. ControlTypeOK' /\ SequencesOK'
  BY <1>1, <1>2, <1>3, AppendKeeps DEF IInv, ControlTypeOK, SequencesOK
<1>6. OpenOK'
  BY <1>2, <1>3, <1>4 DEF OpenOK
<1>7. Channel(commitQ, blocks, blockNumber)' /\ RangesContiguous'
  BY <1>2, <1>4 DEF IInv, RangesContiguous, UnprocessedPriorityOp
<1> QED BY <1>5, <1>6, <1>7 DEF IInv

\* Storing the pending block leaves it open.
LEMMA StoreKeeps ==
  ASSUME IInv, mode # "down", NEW iteration, StorePending(iteration), mode' = "idle",
         UNCHANGED <<database, known, submitted, crashes, wentBack>>
  PROVE  IInv'
<1>1. PICK r : /\ commitQ' = Append(commitQ, r)
               /\ r.type = "PendingBlock" /\ r.number = blockNumber
  BY DEF StorePending
<1>2. /\ UNCHANGED <<blockNumber, currentPriorityOp, blocks, pendingRows, verified>>
      /\ "before" \in DOMAIN pending' /\ pending'.before = pending.before
  BY DEF StorePending, database, IInv, SequencesOK
<1>3. blockNumber \in Nat \ {0} /\ IsSeq(commitQ)
  BY DEF IInv, ControlTypeOK, SequencesOK
<1>4. /\ Channel(commitQ', blocks, blockNumber)
      /\ \A m, v : EndsBefore(commitQ, blocks, m, v) => EndsBefore(commitQ', blocks, m, v)
  BY <1>1, <1>3, PushPending DEF IInv
<1>5. ControlTypeOK' /\ SequencesOK'
  BY <1>1, <1>2, <1>3, AppendKeeps DEF IInv, ControlTypeOK, SequencesOK
<1>6. OpenOK'
  BY <1>2, <1>4 DEF IInv, OpenOK
<1>7. Channel(commitQ, blocks, blockNumber)' /\ RangesContiguous'
  BY <1>2, <1>4 DEF IInv, RangesContiguous, UnprocessedPriorityOp
<1> QED BY <1>5, <1>6, <1>7 DEF IInv

-----------------------------------------------------------------------------
(* The actions *)

\* Executing transactions or a priority operation leaves the block open, and the
\* next priority operation never goes back.
LEMMA ApplyKeepsOpen ==
  ASSUME IInv, NEW txs, NEW id, ApplyTxs(txs) \/ ApplyPriorityOp(id)
  PROVE  /\ blockNumber' = blockNumber
         /\ currentPriorityOp' \in Nat /\ currentPriorityOp' >= currentPriorityOp
         /\ "before" \in DOMAIN pending' /\ pending'.before = pending.before
<1>1. "before" \in DOMAIN pending /\ currentPriorityOp \in Nat
  BY DEF IInv, ControlTypeOK, SequencesOK
<1>2. CASE ApplyTxs(txs)
  <2>1. /\ UNCHANGED <<blockNumber, currentPriorityOp>>
        /\ \E results, chunks : Count(txs, results, chunks)
    BY <1>2 DEF ApplyTxs
  <2> QED BY <1>1, <2>1 DEF Count
<1>3. CASE ApplyPriorityOp(id)
  BY <1>1, <1>3 DEF ApplyPriorityOp
<1> QED BY <1>2, <1>3

\* Executing an operation, or sealing the block it does not fit in.
LEMMA ExecuteKeeps ==
  ASSUME IInv, ExecutePriority \/ ExecuteTxs
  PROVE  IInv'
<1>1. mode = "executing" /\ UNCHANGED <<known, submitted, crashes>>
  BY DEF ExecutePriority, ExecuteTxs, Executing, SealAndRetry, Panic
<1>2. CASE SealAndRetry
  <2>1. CASE Panic
    BY <2>1, PanicKeeps
  <2>2. CASE Seal /\ UNCHANGED <<mode, database, known, submitted, crashes, wentBack>>
    BY <1>1, <2>2, SealKeeps
  <2> QED BY <1>2, <2>1, <2>2 DEF SealAndRetry
<1>3. ASSUME NEW txs, NEW id, ApplyTxs(txs) \/ ApplyPriorityOp(id),
             UNCHANGED <<mode, commitQ, database>>
      PROVE  IInv'
  BY <1>1, <1>3, ApplyKeepsOpen, Aside DEF database, IInv, ControlTypeOK
<1> QED BY <1>2, <1>3 DEF ExecutePriority, ExecuteTxs

\* The end of a mini-block.
LEMMA FinishKeeps ==
  ASSUME IInv, FinishMiniBlock
  PROVE  IInv'
<1>1. CASE Panic
  BY <1>1, PanicKeeps
<1>2. CASE ~ Panic
  <2>1. /\ mode # "down" /\ mode' = "idle"
        /\ UNCHANGED <<database, known, submitted, crashes, wentBack>>
        /\ Seal \/ StorePending(NextIteration)
    BY <1>2 DEF FinishMiniBlock, Executing
  <2> QED BY <2>1, SealKeeps, StoreKeeps
<1> QED BY <1>1, <1>2

\* The committer stores the pending block.
LEMMA SavePendingBlockKeeps ==
  ASSUME IInv, SavePendingBlock
  PROVE  IInv'
<1>1. /\ commitQ # <<>> /\ Head(commitQ).type # "Block" /\ commitQ' = Tail(commitQ)
      /\ pendingRows' = pendingRows \cup {Head(commitQ).number}
      /\ UNCHANGED <<mode, blockNumber, currentPriorityOp, pending,
                     blocks, verified, known, submitted, crashes>>
  BY DEF SavePendingBlock, Memory
<1>2. blockNumber \in Nat /\ IsSeq(commitQ) /\ mode # "down"
  BY <1>1 DEF IInv, ControlTypeOK, SequencesOK
<1>3. /\ Channel(commitQ', blocks, blockNumber)
      /\ \A m, v : EndsBefore(commitQ, blocks, m, v) => EndsBefore(commitQ', blocks, m, v)
  BY <1>1, <1>2, PopPending DEF IInv
<1>4. Head(commitQ).number \in Nat
  <2>1. 1 \in 1 .. Len(commitQ) /\ Head(commitQ) = commitQ[1]
    BY <1>1, <1>2, TailKeeps
  <2> QED BY <1>2, <2>1 DEF IInv, Channel, Numbered
<1>5. ControlTypeOK' /\ SequencesOK'
  BY <1>1, <1>2, <1>4, TailKeeps DEF IInv, ControlTypeOK, SequencesOK
<1>6. OpenOK'
  BY <1>1, <1>3 DEF IInv, OpenOK
<1>7. Channel(commitQ, blocks, blockNumber)' /\ RangesContiguous'
  BY <1>1, <1>3 DEF IInv, RangesContiguous, UnprocessedPriorityOp
<1> QED BY <1>5, <1>6, <1>7 DEF IInv

\* The committer stores a sealed block under the number that follows the last
\* one, with the operations that follow its operations.
LEMMA CommitBlockKeeps ==
  ASSUME IInv, CommitBlock
  PROVE  /\ IInv'
         /\ blocks' # blocks => /\ commitQ[1].number = Len(blocks) + 1
                                /\ Len(blocks') = Len(blocks) + 1
<1>1. CASE Panic
  BY <1>1, PanicKeeps DEF Panic, database
<1>2. CASE ~ Panic
  <2> DEFINE req == Head(commitQ)
             e == [before |-> req.before, after |-> req.after, root |-> req.root]
  <2>1. /\ commitQ # <<>> /\ req.type = "Block" /\ ~ (req.number <= Len(blocks))
        /\ commitQ' = Tail(commitQ)
        /\ pendingRows' = pendingRows \ {req.number}
        /\ blocks' = Append(blocks, e)
        /\ UNCHANGED <<mode, blockNumber, currentPriorityOp, pending,
                       verified, known, submitted, crashes>>
    BY <1>2 DEF CommitBlock, Memory
  <2>2. blockNumber \in Nat /\ IsSeq(commitQ) /\ IsSeq(blocks) /\ mode # "down"
    BY <2>1 DEF IInv, ControlTypeOK, SequencesOK
  <2>3. /\ commitQ[1] = req /\ req.number > Len(blocks)
    <3>1. 1 \in 1 .. Len(commitQ) /\ req = commitQ[1]
      BY <2>1, <2>2, TailKeeps
    <3>2. req.number \in Nat /\ Len(blocks) \in Nat
      BY <2>2, <3>1, AppendKeeps DEF IInv, Channel, Numbered
    <3> QED BY <2>1, <3>1, <3>2
  <2>4. e.before = req.before /\ e.after = req.after
    OBVIOUS
  <2> HIDE DEF e
  <2>5. /\ req.number = Len(blocks) + 1
        /\ e.before \in Nat /\ e.after \in Nat /\ e.before <= e.after
        /\ e.before = EndOf(blocks, Len(blocks))
        /\ Channel(commitQ', blocks', blockNumber)
        /\ \A v : \A m \in Int :
              EndsBefore(commitQ, blocks, m, v) => EndsBefore(commitQ', blocks', m, v)
    BY <2>1, <2>2, <2>3, <2>4, PopSealed DEF IInv
  <2>6. /\ IsSeq(blocks') /\ Len(blocks) \in Nat /\ Len(blocks') = Len(blocks) + 1
        /\ DOMAIN blocks = 1 .. Len(blocks) /\ DOMAIN blocks' = 1 .. Len(blocks')
        /\ \A k \in 1 .. Len(blocks) : blocks'[k] = blocks[k]
        /\ blocks'[Len(blocks) + 1] = e
    BY <2>1, <2>2, AppendKeeps, LenProperties DEF IsSeq
  <2>7. SequencesOK'
    BY <2>1, <2>2, <2>6, TailKeeps DEF IInv, SequencesOK
  <2>8. ControlTypeOK'
    <3>1. \A n \in DOMAIN blocks' : blocks'[n].before \in Nat /\ blocks'[n].after \in Nat
      BY <2>5, <2>6 DEF IInv, ControlTypeOK
    <3>2. verified' \in 0 .. Len(blocks')
      BY <2>1, <2>6 DEF IInv, ControlTypeOK
    <3> QED BY <2>1, <3>1, <3>2 DEF IInv, ControlTypeOK
  <2>9. OpenOK'
    BY <2>1, <2>2, <2>5 DEF IInv, OpenOK
  <2>10. RangesContiguous'
    <3> SUFFICES ASSUME NEW n \in 1 .. Len(blocks) + 1
                 PROVE  /\ blocks'[n].before = EndOf(blocks', n - 1)
                        /\ blocks'[n].before <= blocks'[n].after
      BY <2>6 DEF RangesContiguous, UnprocessedPriorityOp, EndOf
    <3>1. CASE n \in 1 .. Len(blocks)
      BY <2>6, <3>1 DEF IInv, RangesContiguous, UnprocessedPriorityOp, EndOf
    <3>2. CASE n = Len(blocks) + 1
      BY <2>5, <2>6, <3>2 DEF EndOf
    <3> QED BY <2>6, <3>1, <3>2
  <2>11. Channel(commitQ, blocks, blockNumber)'
    BY <2>1, <2>5
  <2> QED BY <2>3, <2>5, <2>6, <2>7, <2>8, <2>9, <2>10, <2>11 DEF IInv
<1> QED BY <1>1, <1>2

\* The restart goes back to a block of the table and opens the next one where
\* it ends.
LEMMA RestartKeeps ==
  ASSUME IInv, Restart
  PROVE  IInv'
<1>1. /\ blockNumber' = LastUpdated + 1
      /\ currentPriorityOp' = UnprocessedPriorityOp(LastUpdated)
      /\ "before" \in DOMAIN pending' /\ pending'.before = UnprocessedPriorityOp(LastUpdated)
      /\ mode = "down" /\ mode' = "restoring"
      /\ UNCHANGED <<commitQ, blocks, pendingRows, verified, known, submitted, crashes>>
  BY DEF Restart, FreshPending, NewPending
<1>2. /\ commitQ = <<>> /\ Len(commitQ) = 0
      /\ Len(blocks) \in Nat /\ DOMAIN blocks = 1 .. Len(blocks)
      /\ verified \in 0 .. Len(blocks)
  BY <1>1, EmptyIsSeq, LenProperties DEF IInv, ControlTypeOK, SequencesOK, IsSeq
<1>3. LastUpdated \in 0 .. Len(blocks)
  <2> DEFINE updated == {n \in verified + 1 .. Len(blocks) : StoredFor(n) # <<>>}
  <2>1. updated \subseteq 0 .. Len(blocks)
    BY <1>2
  <2>2. updated # {} => Max(updated) \in updated
    BY <1>2, <2>1, MaxIsMember
  <2> QED BY <1>2, <2>1, <2>2 DEF LastUpdated
<1> DEFINE last == LastUpdated
<1> HIDE DEF last
<1>4. /\ UnprocessedPriorityOp(last) = EndOf(blocks, last)
      /\ UnprocessedPriorityOp(last) \in Nat /\ last \in 0 .. Len(blocks)
  BY <1>2, <1>3 DEF last, UnprocessedPriorityOp, EndOf, IInv, ControlTypeOK
<1>5. /\ blockNumber' = last + 1 /\ currentPriorityOp' = UnprocessedPriorityOp(last)
      /\ pending'.before = UnprocessedPriorityOp(last)
  BY <1>1 DEF last
<1>6. ControlTypeOK' /\ SequencesOK'
  BY <1>1, <1>2, <1>4, <1>5 DEF IInv, ControlTypeOK, SequencesOK
<1>7. OpenOK'
  <2>1. EndsBefore(commitQ', blocks', blockNumber' - 1, pending'.before)
    BY <1>1, <1>2, <1>4, <1>5 DEF EndsBefore, Sealed
  <2> QED BY <1>4, <1>5, <2>1 DEF OpenOK
<1>8. Channel(commitQ, blocks, blockNumber)'
  BY <1>1, <1>2 DEF Channel, Numbered
<1>9. RangesContiguous'
  BY <1>1 DEF IInv, RangesContiguous, UnprocessedPriorityOp
<1> QED BY <1>6, <1>7, <1>8, <1>9 DEF IInv

\* Every step of the server and of its environment keeps the invariant, and
\* commits under the next number if it commits.
LEMMA NextKeeps ==
  ASSUME IInv, [Next]_vars
  PROVE  /\ IInv'
         /\ blocks' # blocks => /\ commitQ[1].number = Len(blocks) + 1
                                /\ Len(blocks') = Len(blocks) + 1
<1> USE DEF process, database
<1>0. /\ "before" \in DOMAIN pending /\ currentPriorityOp \in Nat
      /\ mode \in {"idle", "executing", "restoring", "down"}
      /\ verified \in 0 .. Len(blocks) /\ known \in 0 .. Len(PriorityOps)
      /\ submitted \in 0 .. MaxSubmitted /\ crashes \in 0 .. MaxCrashes
      /\ Len(PriorityOps) \in Nat /\ MaxSubmitted \in Nat /\ MaxCrashes \in Nat
      /\ Len(blocks) \in Nat
  BY BoundsAssumption, LenProperties DEF IInv, ControlTypeOK, SequencesOK, IsSeq
<1>1. CASE Propose
  <2>1. /\ mode = "idle" /\ mode' = "executing"
        /\ UNCHANGED <<blockNumber, currentPriorityOp, pending, commitQ, database,
                       known, submitted, crashes>>
    BY <1>1 DEF Propose, ProposeMiniBlock
  <2> QED BY <1>0, <2>1, Aside
<1>2. CASE ExecutePriority \/ ExecuteTxs
  <2>1. blocks' = blocks
    BY <1>2 DEF ExecutePriority, ExecuteTxs, SealAndRetry, Panic
  <2> QED BY <1>2, <2>1, ExecuteKeeps
<1>3. CASE FinishMiniBlock
  <2>1. blocks' = blocks
    BY <1>3 DEF FinishMiniBlock, Panic
  <2> QED BY <1>3, <2>1, FinishKeeps
<1>4. CASE SavePendingBlock
  <2>1. blocks' = blocks
    BY <1>4 DEF SavePendingBlock
  <2> QED BY <1>4, <2>1, SavePendingBlockKeeps
<1>5. CASE CommitBlock
  BY <1>5, CommitBlockKeeps
<1>6. CASE VerifyBlock
  <2>1. /\ mode # "down" /\ mode' = mode /\ verified' \in 0 .. Len(blocks)
        /\ UNCHANGED <<blockNumber, currentPriorityOp, pending, commitQ, blocks, pendingRows,
                       known, submitted, crashes>>
    BY <1>0, <1>6 DEF VerifyBlock
  <2> QED BY <1>0, <2>1, Aside
<1>7. CASE Crash
  <2>1. /\ Stop /\ UNCHANGED <<database, known, submitted>>
        /\ crashes' \in 0 .. MaxCrashes
    BY <1>0, <1>7 DEF Crash
  <2> QED BY <2>1, StopKeeps
<1>8. CASE Restart
  <2>1. blocks' = blocks
    BY <1>8 DEF Restart
  <2> QED BY <1>8, <2>1, RestartKeeps
<1>9. CASE RestoreOp
  <2>1. CASE Panic
    BY <2>1, PanicKeeps DEF Panic
  <2>2. ASSUME ~ Panic
        PROVE  /\ mode = "restoring"
               /\ \E txs, id : ApplyTxs(txs) \/ ApplyPriorityOp(id)
               /\ UNCHANGED <<mode, commitQ, database, known, submitted, crashes, wentBack>>
    BY <1>9, <2>2 DEF RestoreOp
  <2>3. CASE ~ Panic
    BY <1>0, <2>2, <2>3, ApplyKeepsOpen, Aside
  <2> QED BY <2>1, <2>3
<1>10. CASE FinishRestore
  <2>1. /\ mode = "restoring" /\ mode' = "idle"
        /\ "before" \in DOMAIN pending' /\ pending'.before = pending.before
        /\ UNCHANGED <<blockNumber, currentPriorityOp, commitQ, database,
                       known, submitted, crashes>>
    BY <1>0, <1>10 DEF FinishRestore
  <2> QED BY <1>0, <2>1, Aside
<1>11. CASE Environment \/ UNCHANGED vars
  <2>1. /\ UNCHANGED <<Memory, commitQ, blocks, pendingRows, verified, crashes>>
        /\ known' \in 0 .. Len(PriorityOps) /\ submitted' \in 0 .. MaxSubmitted
    BY <1>0, <1>11 DEF Environment, ReportPriorityOp, Submit, vars, process, Memory
  <2>2. CASE mode # "down"
    BY <1>0, <2>1, <2>2, Aside DEF Memory
  <2>3. CASE mode = "down"
    <3>1. ControlTypeOK' /\ SequencesOK' /\ OpenOK'
      BY <2>1, <2>3 DEF Memory, IInv, ControlTypeOK, SequencesOK, OpenOK
    <3>2. Channel(commitQ, blocks, blockNumber)' /\ RangesContiguous'
      BY <2>1 DEF Memory, IInv, RangesContiguous, UnprocessedPriorityOp
    <3> QED BY <2>1, <3>1, <3>2 DEF Memory, IInv
  <2> QED BY <2>1, <2>2, <2>3
<1> QED BY <1>1, <1>2, <1>3, <1>4, <1>5, <1>6, <1>7, <1>8, <1>9, <1>10, <1>11
        DEF Next, Keeper, Committer, Recovery

-----------------------------------------------------------------------------
(* The theorems *)

\* The inductive invariant holds of block production.
THEOREM Inductive == Spec => []IInv
<1>1. IInv /\ [Next]_vars => IInv'
  BY NextKeeps
<1> QED BY <1>1, InitIInv, PTL DEF Spec

\* The counters of the process and of the tables stay in their ranges: in
\* particular the verified blocks never pass the committed ones.
THEOREM TypeCorrect == Spec => []ControlTypeOK
<1>1. IInv => ControlTypeOK
  BY DEF IInv
<1> QED BY <1>1, Inductive, PTL

\* The priority operations of the committed blocks follow each other without a
\* gap or an overlap, whatever crashes, restarts and blocks without updates happen.
THEOREM PriorityRanges == Spec => []RangesContiguous
<1>1. IInv => RangesContiguous
  BY DEF IInv
<1> QED BY <1>1, Inductive, PTL

\* The committer stores blocks under consecutive numbers, also when a restart
\* makes the keeper build a number anew.
THEOREM CommitOrder == Spec => CommitsInOrder
<1>1. IInv /\ [Next]_vars =>
        [blocks' # blocks => /\ commitQ[1].number = Len(blocks) + 1
                             /\ Len(blocks') = Len(blocks) + 1]_vars
  BY NextKeeps
<1> QED BY <1>1, Inductive, PTL DEF Spec, CommitsInOrder

\* The open block begins where the block below it ends.
LEMMA OpenContinues ==
  ASSUME IInv
  PROVE  OpenBlockContinues
<1> DEFINE n == blockNumber - 1
           before == {k \in DOMAIN commitQ : commitQ[k].type = "Block" /\ commitQ[k].number = n}
<1> SUFFICES ASSUME mode # "down"
             PROVE  \/ \E k \in before : pending.before = commitQ[k].after
                    \/ /\ before = {} /\ n \in 0 .. Len(blocks)
                       /\ pending.before = UnprocessedPriorityOp(n)
  BY DEF OpenBlockContinues
<1>1. EndsBefore(commitQ, blocks, n, pending.before)
  BY DEF IInv, OpenOK
<1>2. DOMAIN commitQ = 1 .. Len(commitQ)
  BY LenProperties DEF IInv, SequencesOK, IsSeq
<1> HIDE DEF n
<1>3. CASE \E k \in 1 .. Len(commitQ) :
              /\ Sealed(commitQ, k) /\ commitQ[k].number = n
              /\ commitQ[k].after = pending.before
  BY <1>2, <1>3 DEF Sealed
<1>4. CASE /\ n \in 0 .. Len(blocks) /\ pending.before = EndOf(blocks, n)
           /\ \A k \in 1 .. Len(commitQ) : Sealed(commitQ, k) => commitQ[k].number # n
  BY <1>2, <1>4 DEF Sealed, EndOf, UnprocessedPriorityOp
<1> QED BY <1>1, <1>3, <1>4 DEF EndsBefore

\* The block being built goes on with the priority operation at which the block of
\* the number below ends, also after a restart that went back behind the last block.
THEOREM OpenBlockFollows == Spec => []OpenBlockContinues
<1>1. IInv => OpenBlockContinues
  BY OpenContinues
<1> QED BY <1>1, Inductive, PTL

-----------------------------------------------------------------------------
(* The state library *)

\* What ZkSyncState_proofs proves of the state library, for the transactions and
\* priority operations of this component.
State == INSTANCE ZkSyncState_proofs WITH
    Txs <- {}, Batches <- Variants, PriorityOps <- Range(PriorityOps), MaxDeposited <- 0,
    deposited <- 0, withdrawn <- 0, executed <- {}

\* What the state library assumes holds here.
LEMMA StateAssumptions ==
  /\ \A tx \in {} : State!IsTransaction(tx)
  /\ \A v \in Variants :
        v \in Seq(State!Range(v)) /\ \A k \in DOMAIN v : State!IsTransaction(v[k])
  /\ \A op \in Range(PriorityOps) : State!IsPriorityOp(op)
  /\ MaxAccountId \in Nat /\ 0 \in Nat
  /\ State!IsGenesis(Genesis)
<1>1. \A tx : State!IsTransaction(tx) <=> IsTransaction(tx)
  BY DEF State!IsTransaction, IsTransaction
<1>2. \A op : State!IsPriorityOp(op) <=> IsPriorityOp(op)
  BY DEF State!IsPriorityOp, IsPriorityOp
<1>3. \A op \in Range(PriorityOps) : IsPriorityOp(op)
  BY RequestsAssumption DEF Range
<1>4. State!IsGenesis(Genesis)
  BY Zenon, GenesisAssumption DEF GenesisAssumption, IsGenesis, State!IsGenesis, State!IsFiniteSet,
     IsFiniteSet, State!Cardinality, Cardinality
<1>5. \A v : State!Range(v) = Range(v)
  BY DEF State!Range, Range
<1> QED BY <1>1, <1>2, <1>3, <1>4, <1>5, RequestsAssumption

\* Each operator of the ledger is the same on both sides.
LEMMA SameAccounts ==
  \A l, a : /\ State!Holder(l, a) = Holder(l, a) /\ State!Receiver(l, a) = Receiver(l, a)
            /\ State!TransferName(l, a) = TransferName(l, a)
BY Zenon DEF State!Holder, Holder, State!Receiver, Receiver, State!FreeId, FreeId,
   State!Cardinality, Cardinality, State!TransferName, TransferName

\* Transfers (transfer_ops.rs:61).
LEMMA SameTransfer == \A l, o : State!Transfer(l, o) = Transfer(l, o)
BY SMT DEF State!Transfer, Transfer, State!TransferToSelf, TransferToSelf, State!Failure, Failure,
   State!Success, Success, State!Insert, Insert, State!Moved, Moved, State!Target, Target,
   State!CreationOf, CreationOf, State!Spend, Spend, State!CanPay, CanPay,
   State!NewAccount, NewAccount, State!Created, Created

\* The withdrawal, the change of the key and the forced exit.
LEMMA SameExits ==
  \A l, o : /\ State!Withdraw(l, o) = Withdraw(l, o)
            /\ State!ChangePubKey(l, o) = ChangePubKey(l, o)
            /\ State!ForcedExit(l, o) = ForcedExit(l, o)
BY SMT DEF State!Withdraw, Withdraw, State!ChangePubKey, ChangePubKey, State!ForcedExit, ForcedExit,
   State!Failure, Failure, State!Success, Success, State!Insert, Insert, State!Moved, Moved,
   State!Rekeyed, Rekeyed, State!Spend, Spend, State!CanPay, CanPay

\* The priority operations (deposit_ops.rs:66, full_exit_ops.rs).
LEMMA SamePriority ==
  \A l, o : State!Deposit(l, o) = Deposit(l, o) /\ State!FullExit(l, o) = FullExit(l, o)
BY SMT, SameAccounts DEF State!Deposit, Deposit, State!FullExit, FullExit, State!Success, Success,
   State!Insert, Insert, State!Moved, Moved, State!NewAccount, NewAccount, State!Created, Created,
   State!CreationOf, CreationOf, State!Holder, Holder

\* The dispatch over the kinds of operations (apply_tx_op, state/state.rs).
LEMMA SameApply == \A l, o : State!ApplyOp(l, o) = ApplyOp(l, o)
<1> TAKE l, o
<1>1. /\ State!Transfer(l, o) = Transfer(l, o) /\ State!Withdraw(l, o) = Withdraw(l, o)
      /\ State!ChangePubKey(l, o) = ChangePubKey(l, o)
      /\ State!ForcedExit(l, o) = ForcedExit(l, o)
      /\ State!Deposit(l, o) = Deposit(l, o) /\ State!FullExit(l, o) = FullExit(l, o)
  BY SameTransfer, SameExits, SamePriority
<1> QED BY <1>1 DEF State!ApplyOp, ApplyOp

\* A transaction turned into an operation (zksync_tx_to_zksync_op).
LEMMA SameCreate == \A l, tx : State!CreateOp(l, tx) = CreateOp(l, tx)
<1> TAKE l, tx
<1>1. \A a : /\ State!Holder(l, a) = Holder(l, a) /\ State!Receiver(l, a) = Receiver(l, a)
             /\ State!TransferName(l, a) = TransferName(l, a)
  BY SameAccounts
<1>2. /\ State!CreateTransfer(l, tx) = CreateTransfer(l, tx)
      /\ State!CreateForcedExit(l, tx) = CreateForcedExit(l, tx)
  BY <1>1 DEF State!CreateTransfer, CreateTransfer, State!CreateForcedExit, CreateForcedExit,
     State!Noop, Noop
<1>3. /\ State!CreateWithdraw(l, tx) = CreateWithdraw(l, tx)
      /\ State!CreateChangePubKey(l, tx) = CreateChangePubKey(l, tx)
  BY DEF State!CreateWithdraw, CreateWithdraw, State!CreateChangePubKey, CreateChangePubKey,
     State!Noop, Noop
<1>4. State!CreateDeposit(l, tx) = CreateDeposit(l, tx)
  BY <1>1 DEF State!CreateDeposit, CreateDeposit, State!Noop, Noop
<1>5. State!CreateFullExit(l, tx) = CreateFullExit(l, tx)
  BY Zenon DEF State!CreateFullExit, CreateFullExit, State!Noop, Noop, State!Holder, Holder
<1> QED BY <1>2, <1>3, <1>4, <1>5 DEF State!CreateOp, CreateOp

\* The checks of that conversion.
LEMMA SameConvertible == \A l, tx : State!Convertible(l, tx) = Convertible(l, tx)
BY Zenon DEF State!Convertible, Convertible, State!SignedByOwner, SignedByOwner,
   State!Holder, Holder, State!Receiver, Receiver, State!FreeId, FreeId,
   State!Cardinality, Cardinality

\* A transaction executed (execute_tx, state/state.rs).
LEMMA SameTx == \A l, tx : State!ExecuteTx(l, tx) = ExecuteTx(l, tx)
BY SameApply, SameCreate, SameConvertible DEF State!ExecuteTx, ExecuteTx, State!Failure, Failure

\* A priority operation executed (execute_priority_op).
LEMMA SamePriorityOp == \A l, op : State!ExecutePriorityOp(l, op) = ExecutePriorityOp(l, op)
BY SameApply, SameCreate DEF State!ExecutePriorityOp, ExecutePriorityOp

\* Updates applied to the accounts (apply_updates).
LEMMA SameUpdates == \A l, us : State!ApplyUpdates(l, us) = ApplyUpdates(l, us)
BY Zenon DEF State!ApplyUpdates, ApplyUpdates, State!FoldLeft, FoldLeft,
   State!MapThenFoldSet, MapThenFoldSet, State!ApplyUpdate, ApplyUpdate, State!Max, Max,
   State!Insert, Insert, State!NewAccount, NewAccount, State!Without, Without

\* The fees given to the fee account (collect_fee).
LEMMA SameCollection == \A l, fs : State!CollectFees(l, fs) = CollectFees(l, fs)
BY Zenon DEF State!CollectFees, CollectFees, State!FoldLeft, FoldLeft,
   State!MapThenFoldSet, MapThenFoldSet, State!AddFee, AddFee, State!Max, Max,
   State!Insert, Insert, State!Moved, Moved

\* A batch executed (execute_txs_batch).
LEMMA SameBatch == \A l, txs : State!ExecuteBatch(l, txs) = ExecuteBatch(l, txs)
<1>1. \A acc, tx : State!BatchStep(acc, tx) = BatchStep(acc, tx)
  BY SameTx DEF State!BatchStep, BatchStep
<1>2. \A g, l, txs :
         (g = [d \in SUBSET DOMAIN txs |->
                 IF d = {} THEN l ELSE State!BatchStep(g[d \ {State!Max(d)}], txs[State!Max(d)])])
         <=> (g = [d \in SUBSET DOMAIN txs |->
                 IF d = {} THEN l ELSE BatchStep(g[d \ {Max(d)}], txs[Max(d)])])
  BY <1>1 DEF State!Max, Max
<1>3. \A l, txs : State!FoldLeft(State!BatchStep, l, txs) = FoldLeft(BatchStep, l, txs)
  <2> TAKE l, txs
  <2>1. State!FoldLeft(State!BatchStep, l, txs)
          = (CHOOSE g : g = [d \in SUBSET DOMAIN txs |->
                 IF d = {} THEN l ELSE State!BatchStep(g[d \ {State!Max(d)}], txs[State!Max(d)])])
              [DOMAIN txs]
    BY Zenon DEF State!FoldLeft, State!MapThenFoldSet
  <2>2. FoldLeft(BatchStep, l, txs)
          = (CHOOSE g : g = [d \in SUBSET DOMAIN txs |->
                 IF d = {} THEN l ELSE BatchStep(g[d \ {Max(d)}], txs[Max(d)])])[DOMAIN txs]
    BY Zenon DEF FoldLeft, MapThenFoldSet
  <2> DEFINE P(g) == g = [d \in SUBSET DOMAIN txs |->
                 IF d = {} THEN l ELSE State!BatchStep(g[d \ {State!Max(d)}], txs[State!Max(d)])]
             Q(g) == g = [d \in SUBSET DOMAIN txs |->
                 IF d = {} THEN l ELSE BatchStep(g[d \ {Max(d)}], txs[Max(d)])]
  <2>3. \A g : P(g) <=> Q(g)
    BY <1>1 DEF State!Max, Max
  <2>4. /\ State!FoldLeft(State!BatchStep, l, txs) = (CHOOSE g : P(g))[DOMAIN txs]
        /\ FoldLeft(BatchStep, l, txs) = (CHOOSE g : Q(g))[DOMAIN txs]
    BY <2>1, <2>2
  <2> HIDE DEF P, Q
  <2>5. (CHOOSE g : P(g)) = (CHOOSE g : Q(g))
    BY Zenon, <2>3
  <2> QED BY <2>4, <2>5
<1>4. \A l, txs : State!BatchPrefix(l, txs) = BatchPrefix(l, txs)
  BY <1>3 DEF State!BatchPrefix, BatchPrefix
<1>5. \A l, us : State!TakeBack(l, us) = TakeBack(l, us)
  BY SameUpdates, Zenon DEF State!TakeBack, TakeBack, State!ReverseUpdates, ReverseUpdates,
     State!Reversed, Reversed, State!Reverse, Reverse
<1>6. \A g, l, us :
         (g = [d \in SUBSET DOMAIN us |->
                 IF d = {} THEN l ELSE State!TakeBack(g[d \ {State!Max(d)}], us[State!Max(d)])])
         <=> (g = [d \in SUBSET DOMAIN us |->
                 IF d = {} THEN l ELSE TakeBack(g[d \ {Max(d)}], us[Max(d)])])
  BY <1>5 DEF State!Max, Max
<1>7. \A l, us : State!FoldLeft(State!TakeBack, l, us) = FoldLeft(TakeBack, l, us)
  <2> TAKE l, us
  <2>1. State!FoldLeft(State!TakeBack, l, us)
          = (CHOOSE g : g = [d \in SUBSET DOMAIN us |->
                 IF d = {} THEN l ELSE State!TakeBack(g[d \ {State!Max(d)}], us[State!Max(d)])])
              [DOMAIN us]
    BY Zenon DEF State!FoldLeft, State!MapThenFoldSet
  <2>2. FoldLeft(TakeBack, l, us)
          = (CHOOSE g : g = [d \in SUBSET DOMAIN us |->
                 IF d = {} THEN l ELSE TakeBack(g[d \ {Max(d)}], us[Max(d)])])[DOMAIN us]
    BY Zenon DEF FoldLeft, MapThenFoldSet
  <2> DEFINE P(g) == g = [d \in SUBSET DOMAIN us |->
                 IF d = {} THEN l ELSE State!TakeBack(g[d \ {State!Max(d)}], us[State!Max(d)])]
             Q(g) == g = [d \in SUBSET DOMAIN us |->
                 IF d = {} THEN l ELSE TakeBack(g[d \ {Max(d)}], us[Max(d)])]
  <2>3. \A g : P(g) <=> Q(g)
    BY <1>5 DEF State!Max, Max
  <2>4. /\ State!FoldLeft(State!TakeBack, l, us) = (CHOOSE g : P(g))[DOMAIN us]
        /\ FoldLeft(TakeBack, l, us) = (CHOOSE g : Q(g))[DOMAIN us]
    BY <2>1, <2>2
  <2> HIDE DEF P, Q
  <2>5. (CHOOSE g : P(g)) = (CHOOSE g : Q(g))
    BY Zenon, <2>3
  <2> QED BY <2>4, <2>5
<1>8. \A l, rs : State!Undo(l, rs) = Undo(l, rs)
  BY <1>7, Zenon DEF State!Undo, Undo, State!Reverse, Reverse
<1> QED BY <1>4, <1>8 DEF State!ExecuteBatch, ExecuteBatch

-----------------------------------------------------------------------------
(* What the keeper needs of it *)

AllTxs == State!AllTxs
Ledgers == State!Ledgers
Updates == State!Updates
OpNames == State!OpNames
UsedUp(l, tx) == State!UsedUp(l, tx)

\* The updates lead from one ledger to the other, and no nonce falls.
Leads(l, us, m) ==
  /\ l \in Ledgers /\ m \in Ledgers /\ us \in Seq(Updates)
  /\ State!Moves(l, us, m) /\ State!Grows(l, m)

\* No updates lead nowhere.
LEMMA LeadsNot ==
  ASSUME NEW l \in Ledgers
  PROVE  Leads(l, <<>>, l)
<1>1. l \in State!Trees
  BY StateAssumptions, State!LedgerFacts DEF Ledgers
<1>2. State!Moves(l, <<>>, l) /\ State!Grows(l, l)
  BY <1>1, StateAssumptions, State!MovesNot, State!GrowsNot DEF Ledgers
<1>3. <<>> \in Seq(Updates)
  BY EmptySeq
<1> QED BY <1>2, <1>3 DEF Leads

\* Updates joined lead on.
LEMMA LeadsOn ==
  ASSUME NEW l, NEW us, NEW m, NEW vs, NEW k, Leads(l, us, m), Leads(m, vs, k)
  PROVE  Leads(l, us \o vs, k)
<1>1. State!Moves(l, us \o vs, k) /\ State!Grows(l, k)
  BY StateAssumptions, State!MovesOn, State!GrowsOn DEF Leads, Ledgers
<1>2. us \o vs \in Seq(Updates)
  BY ConcatProperties DEF Leads
<1> QED BY <1>1, <1>2 DEF Leads

\* Applying the updates gives the ledger they lead to.
LEMMA LeadsApply ==
  ASSUME NEW l, NEW us, NEW m, Leads(l, us, m)
  PROVE  ApplyUpdates(l, us) = m
BY SameUpdates, StateAssumptions, State!MovesMean DEF Leads

\* A used up transaction stays used up.
LEMMA LeadsUsedUp ==
  ASSUME NEW l, NEW us, NEW m, Leads(l, us, m), NEW tx \in AllTxs, UsedUp(l, tx)
  PROVE  UsedUp(m, tx)
BY StateAssumptions, State!UsedUpStays DEF Leads, Ledgers, AllTxs, UsedUp

\* Executing a transaction: it succeeds once.
LEMMA TxLeads ==
  ASSUME NEW l \in Ledgers, NEW tx \in AllTxs
  PROVE  LET r == ExecuteTx(l, tx)
         IN  /\ Leads(l, r.updates, r.ledger) /\ r.fee \in Nat /\ r.op \in OpNames
             /\ r.ok \in BOOLEAN
             /\ r.ok => UsedUp(r.ledger, tx) /\ ~ UsedUp(l, tx)
<1> DEFINE r == ExecuteTx(l, tx)
<1>1. r = State!ExecuteTx(l, tx)
  BY SameTx
<1>2. State!Sound(l, 0, r)
  BY <1>1, StateAssumptions, State!ExecuteTxSound DEF Ledgers, AllTxs
<1>3. r.ok => State!UsedUp(r.ledger, tx) /\ ~ State!UsedUp(l, tx)
  BY <1>1, StateAssumptions, State!SuccessUsesUp, State!UsedUpFails DEF Ledgers, AllTxs
<1> HIDE DEF r
<1>4. Leads(l, r.updates, r.ledger) /\ r.fee \in Nat /\ r.op \in OpNames /\ r.ok \in BOOLEAN
  BY <1>2 DEF State!Sound, State!Results, Leads, Ledgers, Updates, OpNames
<1> QED BY <1>3, <1>4 DEF UsedUp, r

\* Executing a priority operation
LEMMA PriorityLeads ==
  ASSUME NEW l \in Ledgers, NEW k \in DOMAIN PriorityOps
  PROVE  LET r == ExecutePriorityOp(l, PriorityOps[k]) IN Leads(l, r.updates, r.ledger)
<1> DEFINE op == PriorityOps[k]
           r == ExecutePriorityOp(l, op)
<1>1. op \in Range(PriorityOps) /\ r = State!ExecutePriorityOp(l, op)
  BY SamePriorityOp DEF Range
<1>2. State!Sound(l, State!Brought(op), r)
  BY <1>1, StateAssumptions, State!PriorityOpSound DEF Ledgers
<1> HIDE DEF r
<1>3. Leads(l, r.updates, r.ledger)
  BY <1>2 DEF State!Sound, State!Results, Leads, Ledgers, Updates
<1> QED BY <1>3 DEF r

\* Collecting the fees
LEMMA FeesLead ==
  ASSUME NEW l \in Ledgers, NEW fs \in Seq(Nat)
  PROVE  LET c == CollectFees(l, fs) IN Leads(l, c.updates, c.ledger)
<1> DEFINE c == CollectFees(l, fs)
<1>1. c = State!CollectFees(l, fs)
  BY SameCollection
<1>2. c.ledger \in State!Ledgers /\ State!Moves(l, c.updates, c.ledger) /\ State!Grows(l, c.ledger)
  BY <1>1, StateAssumptions, State!CollectSound DEF Ledgers
<1> HIDE DEF c
<1>3. c.updates \in Seq(State!Updates)
  BY <1>2 DEF State!Moves
<1>4. Leads(l, c.updates, c.ledger)
  BY <1>2, <1>3 DEF Leads, Ledgers, Updates
<1> QED BY <1>4 DEF c

\* The ledgers a sequence of transactions goes through.
IsExecution(p, l, txs, run) ==
  /\ p \in [0 .. Len(txs) -> Ledgers] /\ p[0] = l /\ p[Len(txs)] = run.ledger
  /\ Len(run.results) = Len(txs) /\ DOMAIN run.results = 1 .. Len(txs)
  /\ \A k \in 1 .. Len(txs) :
        /\ run.results[k] = ExecuteTx(p[k - 1], txs[k])
        /\ run.results[k].ok /\ p[k] = run.results[k].ledger

\* Executing a batch: every transaction on the outcome of those before, or nothing.
LEMMA BatchLeads ==
  ASSUME NEW l \in Ledgers, NEW txs \in Seq(AllTxs)
  PROVE  LET run == ExecuteBatch(l, txs)
         IN  \/ \E p : IsExecution(p, l, txs, run)
             \/ /\ txs # <<>> /\ run.results = <<>> /\ run.ledger = l
                /\ Len(txs) = 1 => ~ ExecuteTx(l, txs[1]).ok
<1> DEFINE run == ExecuteBatch(l, txs)
<1>1. run = State!ExecuteBatch(l, txs)
  BY SameBatch
<1>2. \/ \E p : State!IsExecution(p, l, txs, run)
      \/ /\ txs # <<>> /\ run.results = <<>> /\ run.ledger = l
         /\ Len(txs) = 1 => ~ State!ExecuteTx(l, txs[1]).ok
  BY <1>1, StateAssumptions, State!BatchSteps DEF Ledgers, AllTxs
<1> HIDE DEF run
<1>3. ASSUME NEW p, State!IsExecution(p, l, txs, run)
      PROVE  IsExecution(p, l, txs, run)
  <2>1. Len(run.results) = Len(txs) /\ DOMAIN run.results = 1 .. Len(run.results)
    BY <1>3, LenProperties DEF State!IsExecution
  <2> QED BY <1>3, <2>1, SameTx DEF State!IsExecution, IsExecution, Ledgers
<1> QED BY <1>2, <1>3, SameTx DEF run

\* The ledger at genesis, and the transactions of the variants.
LEMMA GenesisFits == Genesis \in Ledgers
BY StateAssumptions, State!GenesisIsLedger DEF Ledgers

\* A batch of the users is a sequence of their transactions.
LEMMA VariantFits ==
  ASSUME NEW v \in Variants
  PROVE  v \in Seq(AllTxs)
BY StateAssumptions, State!BatchIsSeq DEF AllTxs

-----------------------------------------------------------------------------
(* Sorting by keys *)

\* Row i comes before row j.
Before(keys, i, j) == keys[i] < keys[j] \/ (keys[i] = keys[j] /\ i < j)

\* f puts the rows in the order of their keys.
IsOrdering(f, n, keys, rows, s) ==
  /\ \A k \in 1 .. n : s[k] = rows[f[k]]
  /\ f \in [1 .. n -> 1 .. n]
  /\ \A i \in 1 .. n : \E k \in 1 .. n : f[k] = i
  /\ \A j, k \in 1 .. n : j < k => Before(keys, f[j], f[k])

\* The sorted rows are the rows, in the order of their keys.
LEMMA SortGives ==
  ASSUME NEW S, NEW rows \in Seq(S), NEW keys \in [DOMAIN rows -> Int]
  PROVE  /\ SortedBy(rows, keys) \in Seq(S) /\ Len(SortedBy(rows, keys)) = Len(rows)
         /\ \E f : IsOrdering(f, Len(rows), keys, rows, SortedBy(rows, keys))
<1> DEFINE n == Len(rows)
           At(i) == Earlier(keys, i)
           pos == [i \in 1 .. n |-> Cardinality(At(i)) + 1]
<1>0. /\ n \in Nat /\ DOMAIN rows = 1 .. n /\ \A i \in 1 .. n : rows[i] \in S /\ keys[i] \in Int
      /\ DOMAIN keys = 1 .. n
  BY LenProperties, ElementOfSeq
<1> HIDE DEF n
<1>1. IsFiniteSet(1 .. n) /\ Cardinality(1 .. n) = n
  BY <1>0, FS_Interval
<1>2. \A i, j \in 1 .. n : j \in At(i) <=> Before(keys, j, i)
  BY <1>0 DEF Earlier, Before
<1>3. \A i \in 1 .. n : IsFiniteSet(At(i)) /\ Cardinality(At(i)) \in 0 .. n - 1 /\ At(i) \subseteq 1 .. n
  <2> TAKE i \in 1 .. n
  <2>1. At(i) \subseteq 1 .. n /\ i \notin At(i)
    BY <1>0, <1>2 DEF Earlier, Before
  <2>2. At(i) # 1 .. n
    BY <2>1
  <2>3. /\ IsFiniteSet(At(i)) /\ Cardinality(At(i)) <= Cardinality(1 .. n)
        /\ Cardinality(At(i)) = Cardinality(1 .. n) => At(i) = 1 .. n
    BY <1>1, <2>1, FS_Subset
  <2>4. Cardinality(At(i)) \in Nat
    BY <2>3, FS_CardinalityType
  <2> QED BY <1>0, <1>1, <2>1, <2>2, <2>3, <2>4
<1>4. \A i, j \in 1 .. n : Before(keys, i, j) => Cardinality(At(i)) < Cardinality(At(j))
  <2> TAKE i, j \in 1 .. n
  <2> HAVE Before(keys, i, j)
  <2>1. At(i) \subseteq At(j)
    <3>1. \A k \in 1 .. n : Before(keys, k, i) => Before(keys, k, j)
      BY <1>0 DEF Before
    <3> QED BY <1>2, <1>3, <3>1
  <2>2. i \in At(j) /\ i \notin At(i)
    BY <1>0, <1>2 DEF Before
  <2>3. Cardinality(At(i)) <= Cardinality(At(j)) /\ Cardinality(At(i)) # Cardinality(At(j))
    BY <1>3, <2>1, <2>2, FS_Subset
  <2>4. Cardinality(At(i)) \in Int /\ Cardinality(At(j)) \in Int
    BY <1>3
  <2> QED BY <2>3, <2>4
<1>5. \A i, j \in 1 .. n : i = j \/ Before(keys, i, j) \/ Before(keys, j, i)
  BY <1>0 DEF Before
<1>6. \A i \in 1 .. n : pos[i] \in 1 .. n /\ pos[i] = Cardinality(At(i)) + 1
  BY <1>0, <1>3
<1>7. \A i, j \in 1 .. n : /\ Before(keys, i, j) => pos[i] < pos[j]
                           /\ pos[i] = pos[j] => i = j
  <2>1. \A i, j \in 1 .. n : Before(keys, i, j) => pos[i] < pos[j]
    <3> TAKE i, j \in 1 .. n
    <3>1. Cardinality(At(i)) \in Int /\ Cardinality(At(j)) \in Int
      BY <1>3
    <3> HIDE DEF At
    <3> QED BY <1>4, <1>6, <3>1
  <2> HIDE DEF pos, At
  <2>2. \A i \in 1 .. n : pos[i] \in Int
    BY <1>6
  <2> QED BY <1>5, <2>1, <2>2
<1>8. pos \in Injection(1 .. n, 1 .. n)
  <2>1. pos \in [1 .. n -> 1 .. n]
    BY <1>6
  <2> HIDE DEF pos
  <2> QED BY <1>7, <2>1 DEF Injection, IsInjective
<1>9. pos \in Surjection(1 .. n, 1 .. n)
  BY <1>1, <1>8, FS_Injection
<1>10. \A k \in 1 .. n : \E i \in 1 .. n : pos[i] = k
  BY <1>9 DEF Surjection
<1> DEFINE f == [k \in 1 .. n |-> CHOOSE i \in 1 .. n : Cardinality(At(i)) = k - 1]
<1>11. \A k \in 1 .. n : f[k] \in 1 .. n /\ pos[f[k]] = k
  <2> TAKE k \in 1 .. n
  <2>1. \E i \in 1 .. n : Cardinality(At(i)) = k - 1
    <3>1. PICK i \in 1 .. n : pos[i] = k
      BY <1>10
    <3>2. Cardinality(At(i)) \in Int
      BY <1>3
    <3>3. pos[i] = Cardinality(At(i)) + 1
      BY <1>6
    <3>4. Cardinality(At(i)) = k - 1
      <4> HIDE DEF At, pos
      <4> QED BY <3>1, <3>2, <3>3
    <3> HIDE DEF At
    <3> QED BY <3>4
  <2>2. f[k] \in 1 .. n /\ Cardinality(At(f[k])) = k - 1
    <3>1. f[k] = CHOOSE i \in 1 .. n : Cardinality(At(i)) = k - 1
      OBVIOUS
    <3> HIDE DEF At, f
    <3> QED BY <2>1, <3>1, Zenon
  <2> HIDE DEF At, f, pos
  <2> QED BY <1>6, <2>2
<1>12. \A k \in 1 .. n : SortedBy(rows, keys)[k] = rows[f[k]]
  BY <1>0 DEF SortedBy
<1>13. SortedBy(rows, keys) \in [1 .. n -> S]
  <2>1. SortedBy(rows, keys) = [k \in 1 .. n |-> rows[f[k]]]
    BY <1>0 DEF SortedBy
  <2>2. \A k \in 1 .. n : rows[f[k]] \in S
    BY <1>0, <1>11
  <2> HIDE DEF f
  <2> QED BY <2>1, <2>2
<1>14. SortedBy(rows, keys) \in Seq(S) /\ Len(SortedBy(rows, keys)) = n
  <2>1. SortedBy(rows, keys) \in Seq(S)
    BY <1>0, <1>13, SeqDef
  <2>2. Len(SortedBy(rows, keys)) = n
    BY <1>0, <1>13, FunctionIsSeq
  <2> QED BY <2>1, <2>2
<1>15. IsOrdering(f, n, keys, rows, SortedBy(rows, keys))
  <2>1. f \in [1 .. n -> 1 .. n]
    BY <1>11
  <2> HIDE DEF f, pos, At
  <2>2. \A i \in 1 .. n : f[pos[i]] = i /\ pos[i] \in 1 .. n
    BY <1>6, <1>7, <1>11
  <2>3. ASSUME NEW j \in 1 .. n, NEW k \in 1 .. n, j < k
        PROVE  Before(keys, f[j], f[k])
    <3>1. f[j] \in 1 .. n /\ f[k] \in 1 .. n /\ pos[f[j]] = j /\ pos[f[k]] = k
      BY <1>11
    <3>2. f[j] # f[k] /\ ~ (pos[f[k]] < pos[f[j]])
      BY <1>0, <2>3, <3>1
    <3> QED BY <1>5, <1>7, <3>1, <3>2
  <2> QED BY <1>12, <2>1, <2>2, <2>3 DEF IsOrdering
<1> HIDE DEF f
<1> QED BY <1>14, <1>15 DEF n

\* When the keys number the rows, the rows are in the places the keys say.
LEMMA SortPlaces ==
  ASSUME NEW S, NEW rows \in Seq(S), NEW keys \in [DOMAIN rows -> Int], NEW t \in Seq(S),
         Len(t) = Len(rows),
         \A i \in 1 .. Len(rows) : keys[i] \in 0 .. Len(rows) - 1 /\ rows[i] = t[keys[i] + 1],
         \A i, j \in 1 .. Len(rows) : keys[i] = keys[j] => i = j
  PROVE  SortedBy(rows, keys) = t
<1> DEFINE n == Len(rows)
           s == SortedBy(rows, keys)
<1>0. n \in Nat
  BY LenProperties
<1>1. s \in Seq(S) /\ Len(s) = n
  BY SortGives
<1>2. \E f : IsOrdering(f, n, keys, rows, s)
  BY SortGives
<1>3. \A i \in 1 .. n : keys[i] \in 0 .. n - 1 /\ rows[i] = t[keys[i] + 1]
  OBVIOUS
<1>4. \A i, j \in 1 .. n : keys[i] = keys[j] => i = j
  OBVIOUS
<1> HIDE DEF s, n
<1>5. PICK f : IsOrdering(f, n, keys, rows, s)
  BY <1>2
<1>6. \A k \in 1 .. n : keys[f[k]] = k - 1
  <2>1. CASE n = 0
    BY <2>1
  <2>2. CASE n # 0
    <3> DEFINE D == 0 .. n - 1
               g == [k \in 1 .. n |-> keys[f[k]]]
    <3>1. D \in SUBSET Nat /\ IsFiniteSet(D) /\ Cardinality(D) = n /\ n - 1 \in Nat
      BY <1>0, <2>2, FS_Interval
    <3>2. \A k \in 1 .. n : f[k] \in 1 .. n /\ keys[f[k]] \in D
      BY <1>3, <1>5 DEF IsOrdering
    <3>3. g \in [1 .. n -> D]
      BY <3>2
    <3>4. IsAscending(g)
      <4> SUFFICES ASSUME NEW j \in 1 .. n, NEW k \in 1 .. n, j < k
                   PROVE  g[j] < g[k]
        BY DEF IsAscending
      <4>1. Before(keys, f[j], f[k]) /\ f[j] \in 1 .. n /\ f[k] \in 1 .. n
        BY <1>5, <3>2 DEF IsOrdering
      <4>2. keys[f[j]] = keys[f[k]] => FALSE
        <5> HAVE keys[f[j]] = keys[f[k]]
        <5>1. f[j] = f[k]
          BY <1>4, <4>1
        <5>2. f[j] < f[k]
          BY <3>2, <4>1 DEF Before
        <5> QED BY <4>1, <5>1, <5>2
      <4> QED BY <4>1, <4>2 DEF Before
    <3> HIDE DEF g
    <3>5. \A i \in 1 .. n : g[i] = i - 1
      <4> HIDE DEF D
      <4>1. g \in [1 .. Cardinality(D) -> D]
        BY <3>1, <3>3
      <4>2. \A a, z \in Nat : D = a .. z =>
               \A i \in 1 .. Cardinality(D) : g[i] = a + i - 1
        BY <3>1, <3>4, <4>1, AscendingIsOnto
      <4> QED BY <3>1, <4>2 DEF D
    <3>6. \A i \in 1 .. n : g[i] = keys[f[i]]
      BY DEF g
    <3> QED BY <3>5, <3>6
  <2> QED BY <2>1, <2>2
<1>7. \A k \in 1 .. n : s[k] = t[k]
  <2> TAKE k \in 1 .. n
  <2>0. f[k] \in 1 .. n
    BY <1>5 DEF IsOrdering
  <2>1. f[k] \in 1 .. n /\ keys[f[k]] + 1 = k
    BY <1>0, <1>6, <2>0
  <2>2. s[k] = rows[f[k]]
    BY <1>5 DEF IsOrdering
  <2>3. rows[f[k]] = t[keys[f[k]] + 1]
    BY <1>3, <2>1
  <2> QED BY <2>1, <2>2, <2>3
<1> QED BY <1>1, <1>7, SeqEqual DEF s, n

-----------------------------------------------------------------------------
(* Executing operations one after the other *)

Ids == 0 .. Len(PriorityOps) - 1

\* The operations a block may hold.
TxOps == {TxOp(tx, op, i) : tx \in AllTxs, op \in OpNames, i \in Nat}
PriorityOpsDone == {PriorityOp(id, PriorityOps[id + 1].kind, i) : id \in Ids, i \in Nat}
Ops == TxOps \cup PriorityOpsDone

\* Where the keeper is: the accounts, the updates of the open block, and the
\* number of the next priority operation.
Points == [ledger : Ledgers, updates : Seq(Updates), next : Nat]
Point(l, us, n) == [ledger |-> l, updates |-> us, next |-> n]

TxGoes(x, o, y) ==
  LET r == ExecuteTx(x.ledger, o.tx)
  IN  r.ok /\ o.op = r.op /\ y = Point(r.ledger, x.updates \o r.updates, x.next)

PriorityGoes(x, o, y) ==
  LET r == ExecutePriorityOp(x.ledger, PriorityOps[o.id + 1])
  IN  o.id = x.next /\ y = Point(r.ledger, x.updates \o r.updates, x.next + 1)

\* Executing operation o leads from one point to the other.
Goes(x, o, y) == IF o.type = "tx" THEN TxGoes(x, o, y) ELSE PriorityGoes(x, o, y)

IsRun(p, x, ops, y) ==
  /\ p \in [0 .. Len(ops) -> Points] /\ p[0] = x /\ p[Len(ops)] = y
  /\ \A k \in 1 .. Len(ops) : Goes(p[k - 1], ops[k], p[k])

Runs(x, ops, y) == ops \in Seq(Ops) /\ \E p : IsRun(p, x, ops, y)

\* One point lies behind the other: its updates lead on.
Past(x, y) ==
  /\ x \in Points /\ y \in Points /\ x.next <= y.next
  /\ \E us : y.updates = x.updates \o us /\ Leads(x.ledger, us, y.ledger)

\* What an executed operation is made of.
LEMMA OpFacts ==
  ASSUME NEW o \in Ops
  PROVE  /\ o.type = "tx" => o.tx \in AllTxs /\ o.op \in OpNames
         /\ o.type # "tx" => o.type = "priority" /\ o.id \in Ids /\ o.op = PriorityOps[o.id + 1].kind
         /\ o.index \in Nat
BY DEF Ops, TxOps, PriorityOpsDone, TxOp, PriorityOp

\* What a point is made of.
LEMMA PointFacts ==
  ASSUME NEW l \in Ledgers, NEW us \in Seq(Updates), NEW n \in Nat
  PROVE  /\ Point(l, us, n) \in Points
         /\ Point(l, us, n).ledger = l /\ Point(l, us, n).updates = us /\ Point(l, us, n).next = n
BY DEF Point, Points

\* A point has passed itself.
LEMMA PastNot ==
  ASSUME NEW x \in Points
  PROVE  Past(x, x)
<1>1. x.ledger \in Ledgers /\ x.updates \in Seq(Updates) /\ x.next \in Nat
  BY DEF Points
<1>2. Leads(x.ledger, <<>>, x.ledger) /\ x.updates = x.updates \o <<>>
  BY <1>1, LeadsNot, ConcatEmptySeq
<1> QED BY <1>1, <1>2 DEF Past

\* Updates joined in two ways.
LEMMA JoinUpdates ==
  ASSUME NEW a \in Seq(Updates), NEW b \in Seq(Updates), NEW c \in Seq(Updates)
  PROVE  (a \o b) \o c = a \o (b \o c)
BY ConcatAssociative

\* A point that has passed a passed one has passed both.
LEMMA PastOn ==
  ASSUME NEW x, NEW y, NEW z, Past(x, y), Past(y, z)
  PROVE  Past(x, z)
<1>1. PICK us : y.updates = x.updates \o us /\ Leads(x.ledger, us, y.ledger)
  BY DEF Past
<1>2. PICK vs : z.updates = y.updates \o vs /\ Leads(y.ledger, vs, z.ledger)
  BY DEF Past
<1>3. /\ x \in Points /\ z \in Points /\ x.updates \in Seq(Updates)
      /\ x.next \in Nat /\ y.next \in Nat /\ z.next \in Nat /\ x.next <= y.next /\ y.next <= z.next
  BY DEF Past, Points
<1>4. us \in Seq(Updates) /\ vs \in Seq(Updates)
  BY <1>1, <1>2 DEF Leads
<1>5. z.updates = x.updates \o (us \o vs)
  <2>1. x.updates \in Seq(Updates)
    BY <1>3
  <2>2. (x.updates \o us) \o vs = x.updates \o (us \o vs)
    BY <1>4, <2>1, JoinUpdates, Zenon
  <2>3. z.updates = (x.updates \o us) \o vs
    BY <1>1, <1>2
  <2> QED BY <2>2, <2>3
<1>6. Leads(x.ledger, us \o vs, z.ledger)
  BY <1>1, <1>2, LeadsOn
<1>7. x.next <= z.next
  BY <1>3
<1> QED BY <1>3, <1>5, <1>6, <1>7 DEF Past

\* A used up transaction stays used up.
LEMMA PastUsedUp ==
  ASSUME NEW x, NEW y, Past(x, y), NEW tx \in AllTxs, UsedUp(x.ledger, tx)
  PROVE  UsedUp(y.ledger, tx)
BY LeadsUsedUp DEF Past

\* One operation: a transaction succeeds once, a priority operation is the next one.
LEMMA GoesOn ==
  ASSUME NEW x \in Points, NEW o \in Ops, NEW y, Goes(x, o, y)
  PROVE  /\ y \in Points /\ Past(x, y)
         /\ o.type = "tx" => /\ UsedUp(y.ledger, o.tx) /\ ~ UsedUp(x.ledger, o.tx)
                             /\ y.next = x.next
         /\ o.type # "tx" => o.id = x.next /\ y.next = x.next + 1
<1>0. x.ledger \in Ledgers /\ x.updates \in Seq(Updates) /\ x.next \in Nat
  BY DEF Points
<1>1. CASE o.type = "tx"
  <2> DEFINE r == ExecuteTx(x.ledger, o.tx)
  <2>1. o.tx \in AllTxs /\ r.ok /\ y = Point(r.ledger, x.updates \o r.updates, x.next)
    BY <1>1, OpFacts DEF Goes, TxGoes
  <2>2. Leads(x.ledger, r.updates, r.ledger) /\ UsedUp(r.ledger, o.tx) /\ ~ UsedUp(x.ledger, o.tx)
    BY <1>0, <2>1, TxLeads
  <2> HIDE DEF r
  <2>3. r.ledger \in Ledgers /\ r.updates \in Seq(Updates)
    BY <2>2 DEF Leads
  <2>4. x.updates \o r.updates \in Seq(Updates)
    BY <1>0, <2>3, ConcatProperties
  <2>5. y \in Points /\ y.ledger = r.ledger /\ y.updates = x.updates \o r.updates /\ y.next = x.next
    <3> DEFINE vs == x.updates \o r.updates
    <3>1. vs \in Seq(Updates) /\ y = Point(r.ledger, vs, x.next)
      BY <2>1, <2>4
    <3> HIDE DEF vs
    <3>2. y \in Points /\ y.ledger = r.ledger /\ y.updates = vs /\ y.next = x.next
      BY <1>0, <2>3, <3>1, PointFacts
    <3> QED BY <3>2 DEF vs
  <2>6. x.next <= y.next
    BY <1>0, <2>5
  <2>7. \E us : y.updates = x.updates \o us /\ Leads(x.ledger, us, y.ledger)
    BY <2>2, <2>5
  <2>8. Past(x, y)
    BY <2>5, <2>6, <2>7 DEF Past
  <2> QED BY <1>1, <2>2, <2>5, <2>8
<1>2. CASE o.type # "tx"
  <2> DEFINE r == ExecutePriorityOp(x.ledger, PriorityOps[o.id + 1])
  <2>1. /\ o.id \in Ids /\ o.id = x.next
        /\ y = Point(r.ledger, x.updates \o r.updates, x.next + 1)
    BY <1>2, OpFacts DEF Goes, PriorityGoes
  <2>2. o.id + 1 \in DOMAIN PriorityOps
    <3>1. DOMAIN PriorityOps = 1 .. Len(PriorityOps) /\ Len(PriorityOps) \in Nat
      BY BoundsAssumption, LenProperties
    <3> QED BY <2>1, <3>1 DEF Ids
  <2>3. Leads(x.ledger, r.updates, r.ledger)
    BY <1>0, <2>2, PriorityLeads
  <2> HIDE DEF r
  <2>4. r.ledger \in Ledgers /\ r.updates \in Seq(Updates)
    BY <2>3 DEF Leads
  <2>5. x.updates \o r.updates \in Seq(Updates) /\ x.next + 1 \in Nat
    BY <1>0, <2>4, ConcatProperties
  <2>6. /\ y \in Points /\ y.ledger = r.ledger /\ y.updates = x.updates \o r.updates
        /\ y.next = x.next + 1
    <3> DEFINE vs == x.updates \o r.updates
    <3>1. vs \in Seq(Updates) /\ y = Point(r.ledger, vs, x.next + 1)
      BY <2>1, <2>5
    <3> HIDE DEF vs
    <3>2. y \in Points /\ y.ledger = r.ledger /\ y.updates = vs /\ y.next = x.next + 1
      BY <2>4, <2>5, <3>1, PointFacts
    <3> QED BY <3>2 DEF vs
  <2>7. x.next <= y.next
    BY <1>0, <2>6
  <2>8. \E us : y.updates = x.updates \o us /\ Leads(x.ledger, us, y.ledger)
    BY <2>3, <2>6
  <2>9. Past(x, y)
    BY <2>6, <2>7, <2>8 DEF Past
  <2> QED BY <1>2, <2>1, <2>6, <2>9
<1> QED BY <1>1, <1>2

\* Running nothing leads nowhere.
LEMMA RunsNot ==
  ASSUME NEW x \in Points
  PROVE  Runs(x, <<>>, x)
<1> DEFINE p == [i \in 0 .. 0 |-> x]
<1>1. <<>> \in Seq(Ops) /\ Len(<<>>) = 0
  BY EmptySeq
<1>2. p \in [0 .. 0 -> Points] /\ p[0] = x
  OBVIOUS
<1> HIDE DEF p
<1>3. IsRun(p, x, <<>>, x)
  BY <1>1, <1>2 DEF IsRun
<1> QED BY <1>1, <1>3 DEF Runs

\* One step is a run of one operation.
LEMMA RunsOne ==
  ASSUME NEW x \in Points, NEW o \in Ops, NEW y, Goes(x, o, y)
  PROVE  Runs(x, <<o>>, y)
<1> DEFINE p == [i \in 0 .. 1 |-> IF i = 0 THEN x ELSE y]
<1>1. <<o>> \in Seq(Ops) /\ Len(<<o>>) = 1 /\ <<o>>[1] = o
  OBVIOUS
<1>2. y \in Points
  BY GoesOn
<1>3. p \in [0 .. 1 -> Points] /\ p[0] = x /\ p[1] = y
  BY <1>2
<1> HIDE DEF p
<1>4. IsRun(p, x, <<o>>, y)
  BY <1>1, <1>3 DEF IsRun
<1> QED BY <1>1, <1>4 DEF Runs

\* Two runs are one.
LEMMA RunsJoin ==
  ASSUME NEW x, NEW a, NEW y, NEW b, NEW z, Runs(x, a, y), Runs(y, b, z)
  PROVE  Runs(x, a \o b, z)
<1>0. a \in Seq(Ops) /\ b \in Seq(Ops)
  BY DEF Runs
<1> DEFINE n == Len(a)
           m == Len(b)
           c == a \o b
<1>1. /\ n \in Nat /\ m \in Nat /\ c \in Seq(Ops) /\ Len(c) = n + m
      /\ \A i \in 1 .. n + m : c[i] = IF i <= n THEN a[i] ELSE b[i - n]
  BY <1>0, LenProperties, ConcatProperties
<1>2. PICK p : IsRun(p, x, a, y)
  BY DEF Runs
<1>3. PICK q : IsRun(q, y, b, z)
  BY DEF Runs
<1>4. /\ p \in [0 .. n -> Points] /\ p[0] = x /\ p[n] = y
      /\ \A k \in 1 .. n : Goes(p[k - 1], a[k], p[k])
  BY <1>2 DEF IsRun
<1>5. /\ q \in [0 .. m -> Points] /\ q[0] = y /\ q[m] = z
      /\ \A k \in 1 .. m : Goes(q[k - 1], b[k], q[k])
  BY <1>3 DEF IsRun
<1> HIDE DEF n, m, c
<1> DEFINE u == [i \in 0 .. n + m |-> IF i <= n THEN p[i] ELSE q[i - n]]
<1>6. \A i \in 0 .. n + m : (i <= n => i \in 0 .. n) /\ (~ (i <= n) => i - n \in 1 .. m)
  BY <1>1
<1>7. u \in [0 .. n + m -> Points] /\ u[0] = x /\ u[n + m] = z
  <2>1. u \in [0 .. n + m -> Points]
    BY <1>1, <1>4, <1>5, <1>6
  <2>2. u[0] = x
    BY <1>1, <1>4
  <2>3. u[n + m] = z
    BY <1>1, <1>4, <1>5
  <2> QED BY <2>1, <2>2, <2>3
<1>8. \A k \in 1 .. n + m : Goes(u[k - 1], c[k], u[k])
  <2> TAKE k \in 1 .. n + m
  <2>1. CASE k <= n
    <3>1. k \in 1 .. n /\ k - 1 <= n /\ k \in 0 .. n + m /\ k - 1 \in 0 .. n + m
      BY <1>1, <2>1
    <3>2. u[k] = p[k] /\ u[k - 1] = p[k - 1] /\ c[k] = a[k]
      BY <1>1, <3>1
    <3> QED BY <1>4, <3>1, <3>2
  <2>2. CASE ~ (k <= n)
    <3>1. k - n \in 1 .. m /\ k \in 0 .. n + m /\ k - 1 \in 0 .. n + m /\ (k - 1) - n = (k - n) - 1
      BY <1>1, <2>2
    <3>2. u[k] = q[k - n] /\ c[k] = b[k - n]
      BY <1>1, <2>2, <3>1
    <3>3. u[k - 1] = q[(k - n) - 1]
      <4>1. CASE k - 1 <= n
        <5>1. k - 1 = n /\ (k - n) - 1 = 0
          BY <1>1, <2>2, <4>1
        <5> QED BY <1>4, <1>5, <3>1, <5>1
      <4>2. CASE ~ (k - 1 <= n)
        BY <3>1, <4>2
      <4> QED BY <4>1, <4>2
    <3> QED BY <1>5, <3>1, <3>2, <3>3
  <2> QED BY <2>1, <2>2
<1> HIDE DEF u
<1>9. IsRun(u, x, c, z)
  BY <1>1, <1>7, <1>8 DEF IsRun
<1> QED BY <1>1, <1>9 DEF Runs, c

\* A run goes on by a step.
LEMMA RunsOn ==
  ASSUME NEW x, NEW ops, NEW y, Runs(x, ops, y), NEW o \in Ops, NEW z, Goes(y, o, z)
  PROVE  Runs(x, Append(ops, o), z)
<1>1. ops \in Seq(Ops) /\ y \in Points
  <2>1. ops \in Seq(Ops) /\ Len(ops) \in Nat
    BY LenProperties DEF Runs
  <2> QED BY <2>1 DEF Runs, IsRun
<1>2. Runs(y, <<o>>, z)
  BY <1>1, RunsOne
<1>3. Append(ops, o) = ops \o <<o>>
  BY <1>1, AppendIsConcat
<1> QED BY <1>2, <1>3, RunsJoin

\* The first operation of a run, and the rest.
LEMMA RunsHead ==
  ASSUME NEW x, NEW ops, NEW z, Runs(x, ops, z), ops # <<>>
  PROVE  \E y : Goes(x, Head(ops), y) /\ Runs(y, Tail(ops), z)
<1>0. ops \in Seq(Ops)
  BY DEF Runs
<1> DEFINE n == Len(ops)
           a == Tail(ops)
<1>1. /\ n \in Nat \ {0} /\ a \in Seq(Ops) /\ Len(a) = n - 1 /\ Head(ops) = ops[1]
      /\ \A i \in 1 .. n - 1 : a[i] = ops[i + 1]
  <2>1. n \in Nat \ {0}
    BY <1>0, EmptySeq
  <2> QED BY <1>0, <2>1, HeadTailProperties
<1>2. PICK p : IsRun(p, x, ops, z)
  BY DEF Runs
<1>3. /\ p \in [0 .. n -> Points] /\ p[0] = x /\ p[n] = z
      /\ \A k \in 1 .. n : Goes(p[k - 1], ops[k], p[k])
  BY <1>2 DEF IsRun
<1> HIDE DEF n, a
<1> DEFINE u == [i \in 0 .. n - 1 |-> p[i + 1]]
<1>4. u \in [0 .. n - 1 -> Points] /\ u[0] = p[1] /\ u[n - 1] = z
  BY <1>1, <1>3
<1>5. \A k \in 1 .. n - 1 : Goes(u[k - 1], a[k], u[k])
  <2> TAKE k \in 1 .. n - 1
  <2>1. k + 1 \in 1 .. n /\ k \in 0 .. n - 1 /\ k - 1 \in 0 .. n - 1
    BY <1>1
  <2>2. u[k] = p[k + 1] /\ u[k - 1] = p[(k + 1) - 1] /\ a[k] = ops[k + 1]
    BY <1>1, <2>1
  <2> QED BY <1>3, <2>1, <2>2
<1> HIDE DEF u
<1>6. IsRun(u, p[1], a, z)
  BY <1>1, <1>4, <1>5 DEF IsRun
<1>7. Goes(x, Head(ops), p[1])
  <2>1. 1 \in 1 .. n /\ 1 - 1 = 0
    BY <1>1
  <2> QED BY <1>1, <1>3, <2>1
<1> QED BY <1>1, <1>6, <1>7 DEF Runs, a

-----------------------------------------------------------------------------
(* What a run has done *)

\* Every transaction of the operations is used up, none of them is.
Used(l, ops) == \A k \in TxsOf(ops) : UsedUp(l, ops[k].tx)
Unused(l, ops) == \A k \in TxsOf(ops) : ~ UsedUp(l, ops[k].tx)

\* No transaction comes twice, and none is in both.
OnceIn(ops) == \A i, j \in TxsOf(ops) : ops[i].tx = ops[j].tx => i = j
Apart(a, b) == \A i \in TxsOf(a), j \in TxsOf(b) : a[i].tx # b[j].tx

\* The priority operations of the operations, in their order, from one number to another.
IdsFrom(ops, from, to) ==
  /\ \A k \in DOMAIN ops : ops[k].type # "tx" => ops[k].id \in from .. to - 1
  /\ \A i, j \in DOMAIN ops : i < j /\ ops[i].type # "tx" /\ ops[j].type # "tx" =>
        ops[i].id < ops[j].id

\* A run uses up the transactions it executes, which were not used up before, and
\* takes the priority operations in their order.
LEMMA RunFacts ==
  ASSUME NEW x, NEW ops, NEW y, Runs(x, ops, y)
  PROVE  /\ ops \in Seq(Ops) /\ x \in Points /\ y \in Points /\ Past(x, y)
         /\ Used(y.ledger, ops) /\ Unused(x.ledger, ops) /\ OnceIn(ops)
         /\ IdsFrom(ops, x.next, y.next)
<1> DEFINE n == Len(ops)
<1>0. n \in Nat /\ ops \in Seq(Ops) /\ DOMAIN ops = 1 .. n /\ \A k \in 1 .. n : ops[k] \in Ops
  BY LenProperties, ElementOfSeq DEF Runs
<1>1. PICK p : IsRun(p, x, ops, y)
  BY DEF Runs
<1>2. /\ p \in [0 .. n -> Points] /\ p[0] = x /\ p[n] = y
      /\ \A k \in 1 .. n : Goes(p[k - 1], ops[k], p[k])
  BY <1>1 DEF IsRun
<1> HIDE DEF n
<1>3. \A k \in 1 .. n :
         /\ k - 1 \in 0 .. n /\ k \in 0 .. n
         /\ Past(p[k - 1], p[k])
         /\ ops[k].type = "tx" => /\ ops[k].tx \in AllTxs /\ UsedUp(p[k].ledger, ops[k].tx)
                                  /\ ~ UsedUp(p[k - 1].ledger, ops[k].tx)
         /\ ops[k].type # "tx" => ops[k].id = p[k - 1].next /\ p[k].next = p[k - 1].next + 1
  <2> TAKE k \in 1 .. n
  <2>1. k - 1 \in 0 .. n /\ k \in 0 .. n
    BY <1>0
  <2>2. p[k - 1] \in Points /\ ops[k] \in Ops /\ Goes(p[k - 1], ops[k], p[k])
    BY <1>0, <1>2, <2>1
  <2> QED BY <2>1, <2>2, GoesOn, OpFacts
<1>4. \A i, j \in 0 .. n : i <= j => Past(p[i], p[j])
  <2> TAKE i \in 0 .. n
  <2> DEFINE T == {j \in 0 .. n : i <= j => Past(p[i], p[j])}
  <2>1. 0 \in T
    <3>1. 0 \in 0 .. n /\ (i <= 0 => i = 0)
      BY <1>0
    <3>2. Past(p[i], p[i])
      BY <1>2, PastNot
    <3> QED BY <3>1, <3>2
  <2>2. \A j \in 1 .. n : j - 1 \in T => j \in T
    <3> TAKE j \in 1 .. n
    <3> HAVE j - 1 \in T
    <3>1. j \in 0 .. n /\ Past(p[j - 1], p[j]) /\ (i <= j => i = j \/ i <= j - 1)
      BY <1>0, <1>3
    <3>2. i <= j - 1 => Past(p[i], p[j])
      BY <3>1, PastOn
    <3>3. Past(p[i], p[i])
      BY <1>2, PastNot
    <3> QED BY <3>1, <3>2, <3>3
  <2>3. 0 .. n \subseteq T
    <3> HIDE DEF T
    <3> QED BY <1>0, <2>1, <2>2, AlongInterval
  <2> QED BY <2>3
<1>5. 0 \in 0 .. n /\ n \in 0 .. n
  BY <1>0
<1>6. x \in Points /\ y \in Points /\ Past(x, y)
  BY <1>0, <1>2, <1>4, <1>5
<1>7. TxsOf(ops) = {k \in 1 .. n : ops[k].type = "tx"}
  BY <1>0 DEF TxsOf
<1>8. Used(y.ledger, ops)
  <2> SUFFICES ASSUME NEW k \in 1 .. n, ops[k].type = "tx"
               PROVE  UsedUp(y.ledger, ops[k].tx)
    BY <1>7 DEF Used
  <2>1. Past(p[k], y)
    BY <1>2, <1>3, <1>4, <1>5
  <2> QED BY <1>3, <2>1, PastUsedUp
<1>9. Unused(x.ledger, ops)
  <2> SUFFICES ASSUME NEW k \in 1 .. n, ops[k].type = "tx", UsedUp(x.ledger, ops[k].tx)
               PROVE  FALSE
    BY <1>7 DEF Unused
  <2>1. Past(x, p[k - 1])
    BY <1>2, <1>3, <1>4, <1>5
  <2> QED BY <1>3, <2>1, PastUsedUp
<1>10. \A i, j \in 1 .. n : i < j => i <= j - 1
  BY <1>0
<1>11. OnceIn(ops)
  <2>1. ASSUME NEW i \in 1 .. n, NEW j \in 1 .. n, i < j, ops[i].type = "tx", ops[j].type = "tx",
               ops[i].tx = ops[j].tx
        PROVE  FALSE
    <3>1. Past(p[i], p[j - 1])
      BY <1>3, <1>4, <1>10, <2>1
    <3> QED BY <1>3, <2>1, <3>1, PastUsedUp
  <2>2. \A i, j \in 1 .. n : i = j \/ i < j \/ j < i
    OBVIOUS
  <2> QED BY <1>7, <2>1, <2>2 DEF OnceIn
<1>12. IdsFrom(ops, x.next, y.next)
  <2>0. \A i \in 0 .. n : p[i].next \in Nat
    BY <1>2 DEF Points
  <2>1. ASSUME NEW k \in 1 .. n, ops[k].type # "tx"
        PROVE  ops[k].id \in x.next .. y.next - 1
    <3>1. Past(x, p[k - 1]) /\ Past(p[k], y)
      BY <1>2, <1>3, <1>4, <1>5
    <3>2. x.next <= p[k - 1].next /\ p[k].next <= y.next
      BY <3>1 DEF Past
    <3>3. x.next \in Nat /\ y.next \in Nat /\ p[k - 1].next \in Nat /\ p[k].next \in Nat
      BY <1>2, <1>3, <1>5, <2>0
    <3>4. ops[k].id = p[k - 1].next /\ p[k].next = p[k - 1].next + 1
      BY <1>3, <2>1
    <3> QED BY <3>2, <3>3, <3>4
  <2>2. ASSUME NEW i \in 1 .. n, NEW j \in 1 .. n, i < j, ops[i].type # "tx", ops[j].type # "tx"
        PROVE  ops[i].id < ops[j].id
    <3>1. Past(p[i], p[j - 1])
      BY <1>3, <1>4, <1>10, <2>2
    <3>2. p[i].next <= p[j - 1].next
      BY <3>1 DEF Past
    <3>3. p[i - 1].next \in Nat /\ p[i].next \in Nat /\ p[j - 1].next \in Nat
      BY <1>3, <2>0
    <3> QED BY <1>3, <2>2, <3>2, <3>3
  <2> QED BY <1>0, <2>1, <2>2 DEF IdsFrom
<1> QED BY <1>0, <1>6, <1>8, <1>9, <1>11, <1>12

-----------------------------------------------------------------------------
(* Executing transactions *)

\* What Record makes of the results.
OpsOf(txs, results, from) == [k \in DOMAIN results |-> TxOp(txs[k], results[k].op, from + k - 1)]
UpdatesOf(results) == [k \in DOMAIN results |-> results[k].updates]
FeesOf(results) == [k \in DOMAIN results |-> results[k].fee]

\* Transactions that fail do nothing.
LEMMA NoResults ==
  ASSUME NEW txs, NEW from
  PROVE  /\ OpsOf(txs, <<>>, from) = <<>> /\ UpdatesOf(<<>>) = <<>> /\ FeesOf(<<>>) = <<>>
         /\ FlattenSeq(<<>>) = <<>>
<1>1. DOMAIN <<>> = {} /\ Len(<<>>) = 0
  BY EmptyIsSeq
<1>2. /\ OpsOf(txs, <<>>, from) = <<>> /\ UpdatesOf(<<>>) = <<>> /\ FeesOf(<<>>) = <<>>
  BY <1>1 DEF OpsOf, UpdatesOf, FeesOf
<1>3. FlattenSeq(<<>>) = <<>>
  BY <1>1, FlattenUnfolds
<1> QED BY <1>2, <1>3

\* Flattening joins the sequences one after the other.
LEMMA FlattenAlong ==
  ASSUME NEW n \in Nat, NEW us \in Seq(Seq(Updates)), Len(us) = n
  PROVE  \E g : /\ g \in [0 .. n -> Seq(Updates)] /\ g[0] = <<>> /\ g[n] = FlattenSeq(us)
                /\ \A k \in 1 .. n : g[k] = g[k - 1] \o us[k]
<1>1. CASE us = <<>>
  <2>1. n = 0 /\ FlattenSeq(us) = <<>>
    BY <1>1, EmptySeq, NoResults
  <2>2. <<>> \in Seq(Updates)
    BY EmptySeq
  <2> DEFINE g == [k \in 0 .. 0 |-> <<>>]
  <2>3. g \in [0 .. n -> Seq(Updates)] /\ g[0] = <<>> /\ g[n] = FlattenSeq(us)
    BY <2>1, <2>2
  <2> HIDE DEF g
  <2> QED BY <2>1, <2>3
<1>2. CASE us # <<>>
  <2>0. PICK h \in [1 .. Len(us) -> Seq(Updates)] :
           /\ FlattenSeq(us) = h[Len(us)] /\ h[1] = us[1]
           /\ \A i \in 2 .. Len(us) : h[i] = h[i - 1] \o us[i]
    BY <1>2, FlattenHasSteps
  <2>1. /\ h \in [1 .. n -> Seq(Updates)] /\ FlattenSeq(us) = h[n] /\ h[1] = us[1]
        /\ \A i \in 2 .. n : h[i] = h[i - 1] \o us[i]
    BY <2>0
  <2>2. n # 0 /\ <<>> \in Seq(Updates) /\ \A k \in 1 .. n : us[k] \in Seq(Updates)
    BY <1>2, EmptySeq, ElementOfSeq
  <2> DEFINE g == [k \in 0 .. n |-> IF k = 0 THEN <<>> ELSE h[k]]
  <2>3. g \in [0 .. n -> Seq(Updates)] /\ g[0] = <<>> /\ g[n] = FlattenSeq(us)
    BY <2>1, <2>2
  <2>4. \A k \in 1 .. n : g[k] = g[k - 1] \o us[k]
    <3> TAKE k \in 1 .. n
    <3>1. CASE k = 1
      <4>1. 1 \in 0 .. n /\ 0 \in 0 .. n /\ 1 \in 1 .. n /\ 1 - 1 = 0
        BY <3>1
      <4>2. g[1] = us[1] /\ g[0] = <<>> /\ us[1] \in Seq(Updates)
        BY <2>1, <2>2, <4>1
      <4>3. <<>> \o us[1] = us[1]
        BY <4>2, ConcatEmptySeq
      <4> HIDE DEF g
      <4> QED BY <3>1, <4>1, <4>2, <4>3
    <3>2. CASE k # 1
      <4>1. k \in 2 .. n /\ k - 1 \in 0 .. n /\ k - 1 # 0 /\ k \in 0 .. n /\ k # 0
        BY <3>2
      <4>2. g[k] = h[k] /\ g[k - 1] = h[k - 1]
        BY <4>1
      <4> QED BY <2>1, <4>1, <4>2
    <3> QED BY <3>1, <3>2
  <2> HIDE DEF g
  <2> QED BY <2>3, <2>4
<1> QED BY <1>1, <1>2

\* Transactions that succeed are a run, from point to point.
LEMMA ExecutionRuns ==
  ASSUME NEW x \in Points, NEW txs \in Seq(AllTxs), NEW from \in Nat, NEW run, NEW p,
         IsExecution(p, x.ledger, txs, run)
  PROVE  /\ OpsOf(txs, run.results, from) \in Seq(Ops)
         /\ Len(OpsOf(txs, run.results, from)) = Len(txs)
         /\ FlattenSeq(UpdatesOf(run.results)) \in Seq(Updates)
         /\ FeesOf(run.results) \in Seq(Nat)
         /\ Runs(x, OpsOf(txs, run.results, from),
                 Point(run.ledger, x.updates \o FlattenSeq(UpdatesOf(run.results)), x.next))
<1> DEFINE n == Len(txs)
           rs == run.results
           ops == OpsOf(txs, rs, from)
           us == UpdatesOf(rs)
           fs == FeesOf(rs)
<1>0. /\ n \in Nat /\ \A k \in 1 .. n : txs[k] \in AllTxs
      /\ x.ledger \in Ledgers /\ x.updates \in Seq(Updates) /\ x.next \in Nat
  BY LenProperties, ElementOfSeq DEF Points
<1>1. /\ p \in [0 .. n -> Ledgers] /\ p[0] = x.ledger /\ p[n] = run.ledger
      /\ DOMAIN rs = 1 .. n
      /\ \A k \in 1 .. n : /\ rs[k] = ExecuteTx(p[k - 1], txs[k])
                           /\ rs[k].ok /\ p[k] = rs[k].ledger
  BY DEF IsExecution
<1> HIDE DEF n
<1>2. \A k \in 1 .. n : /\ Leads(p[k - 1], rs[k].updates, p[k]) /\ rs[k].fee \in Nat
                        /\ rs[k].op \in OpNames /\ rs[k].updates \in Seq(Updates)
                        /\ k - 1 \in 0 .. n /\ k \in 0 .. n
  <2> TAKE k \in 1 .. n
  <2> DEFINE r == ExecuteTx(p[k - 1], txs[k])
  <2>1. p[k - 1] \in Ledgers /\ txs[k] \in AllTxs /\ k - 1 \in 0 .. n /\ k \in 0 .. n
    BY <1>0, <1>1
  <2>2. Leads(p[k - 1], r.updates, r.ledger) /\ r.fee \in Nat /\ r.op \in OpNames
    BY <2>1, TxLeads
  <2>3. rs[k] = r /\ p[k] = r.ledger
    BY <1>1
  <2> HIDE DEF r
  <2> QED BY <2>1, <2>2, <2>3 DEF Leads
<1>3. /\ ops = [k \in 1 .. n |-> TxOp(txs[k], rs[k].op, from + k - 1)]
      /\ us = [k \in 1 .. n |-> rs[k].updates]
      /\ fs = [k \in 1 .. n |-> rs[k].fee]
  BY <1>1 DEF OpsOf, UpdatesOf, FeesOf
<1>4. \A k \in 1 .. n : ops[k] = TxOp(txs[k], rs[k].op, from + k - 1) /\ ops[k] \in Ops
  <2> TAKE k \in 1 .. n
  <2>1. from + k - 1 \in Nat
    OBVIOUS
  <2> QED BY <1>0, <1>2, <1>3, <2>1 DEF Ops, TxOps
<1>5. /\ ops \in [1 .. n -> Ops] /\ us \in [1 .. n -> Seq(Updates)] /\ fs \in [1 .. n -> Nat]
      /\ \A k \in 1 .. n : us[k] = rs[k].updates
  BY <1>2, <1>3, <1>4
<1> HIDE DEF ops, us, fs
<1>6. ops \in Seq(Ops) /\ Len(ops) = n /\ us \in Seq(Seq(Updates)) /\ Len(us) = n /\ fs \in Seq(Nat)
  BY <1>0, <1>5, ListIsSeq
<1>7. \E g : /\ g \in [0 .. n -> Seq(Updates)] /\ g[0] = <<>> /\ g[n] = FlattenSeq(us)
             /\ \A k \in 1 .. n : g[k] = g[k - 1] \o us[k]
  BY <1>0, <1>6, FlattenAlong
<1>8. PICK g : /\ g \in [0 .. n -> Seq(Updates)] /\ g[0] = <<>> /\ g[n] = FlattenSeq(us)
               /\ \A k \in 1 .. n : g[k] = g[k - 1] \o us[k]
  BY <1>7
<1> DEFINE all(k) == x.updates \o g[k]
           u == [k \in 0 .. n |-> Point(p[k], all(k), x.next)]
<1>9. \A k \in 0 .. n : all(k) \in Seq(Updates) /\ p[k] \in Ledgers
  BY <1>0, <1>1, <1>8, ConcatProperties
<1>10. \A k \in 0 .. n : /\ u[k] \in Points /\ u[k].ledger = p[k] /\ u[k].updates = all(k)
                         /\ u[k].next = x.next /\ u[k] = Point(p[k], all(k), x.next)
  <2> TAKE k \in 0 .. n
  <2>1. all(k) \in Seq(Updates) /\ p[k] \in Ledgers /\ u[k] = Point(p[k], all(k), x.next)
    BY <1>9
  <2> HIDE DEF all, u
  <2> QED BY <1>0, <2>1, PointFacts
<1>11. \A k \in 1 .. n : Goes(u[k - 1], ops[k], u[k])
  <2> TAKE k \in 1 .. n
  <2>1. k - 1 \in 0 .. n /\ k \in 0 .. n
    BY <1>0
  <2>2. g[k] = g[k - 1] \o rs[k].updates /\ g[k - 1] \in Seq(Updates) /\ rs[k].updates \in Seq(Updates)
    BY <1>2, <1>5, <1>8, <2>1
  <2>3. all(k) = all(k - 1) \o rs[k].updates
    <3>1. (x.updates \o g[k - 1]) \o rs[k].updates = x.updates \o (g[k - 1] \o rs[k].updates)
      BY <1>0, <2>2, JoinUpdates
    <3> QED BY <2>2, <3>1
  <2> HIDE DEF all, u
  <2>4. rs[k] = ExecuteTx(u[k - 1].ledger, txs[k]) /\ rs[k].ok
    BY <1>1, <1>10, <2>1
  <2>5. ops[k].type = "tx" /\ ops[k].tx = txs[k] /\ ops[k].op = rs[k].op
    <3>1. ops[k] = TxOp(txs[k], rs[k].op, from + k - 1)
      BY <1>4
    <3> QED BY <3>1 DEF TxOp
  <2>6. u[k] = Point(rs[k].ledger, u[k - 1].updates \o rs[k].updates, u[k - 1].next)
    <3>1. u[k] = Point(p[k], all(k), x.next) /\ p[k] = rs[k].ledger
      BY <1>1, <1>10, <2>1
    <3>2. u[k - 1].updates = all(k - 1) /\ u[k - 1].next = x.next
      BY <1>10, <2>1
    <3> QED BY <2>3, <3>1, <3>2, Zenon
  <2> QED BY <2>4, <2>5, <2>6 DEF Goes, TxGoes
<1>12. x = u[0] /\ Point(run.ledger, x.updates \o FlattenSeq(us), x.next) = u[n]
  <2>1. 0 \in 0 .. n /\ n \in 0 .. n
    BY <1>0
  <2>2. all(0) = x.updates
    BY <1>0, <1>8, ConcatEmptySeq
  <2>3. u[0] = Point(x.ledger, x.updates, x.next) /\ u[n] = Point(run.ledger, all(n), x.next)
    BY <1>1, <1>10, <2>1, <2>2
  <2>4. x = Point(x.ledger, x.updates, x.next)
    BY DEF Points, Point
  <2>5. all(n) = x.updates \o FlattenSeq(us)
    BY <1>8
  <2> HIDE DEF all, u
  <2> QED BY <2>3, <2>4, <2>5
<1>13. u \in [0 .. n -> Points]
  BY <1>10
<1> DEFINE y == Point(run.ledger, x.updates \o FlattenSeq(us), x.next)
<1>14. IsRun(u, x, ops, y)
  <2> HIDE DEF u, y
  <2>1. x = u[0] /\ y = u[n]
    BY <1>12 DEF y
  <2> QED BY <1>6, <1>11, <1>13, <2>1 DEF IsRun
<1>15. Runs(x, ops, y)
  BY <1>6, <1>14 DEF Runs
<1>16. FlattenSeq(us) \in Seq(Updates)
  <2>1. n \in 0 .. n
    BY <1>0
  <2> QED BY <1>8, <2>1
<1> QED BY <1>6, <1>15, <1>16 DEF ops, us, fs, n

\* A batch, or a single transaction: all succeed, or nothing happens.
LEMMA BatchRuns ==
  ASSUME NEW x \in Points, NEW txs \in Seq(AllTxs), NEW from \in Nat
  PROVE  LET run == ExecuteBatch(x.ledger, txs)
             ops == OpsOf(txs, run.results, from)
             us == FlattenSeq(UpdatesOf(run.results))
         IN  /\ Runs(x, ops, Point(run.ledger, x.updates \o us, x.next))
             /\ run.ledger \in Ledgers /\ us \in Seq(Updates) /\ FeesOf(run.results) \in Seq(Nat)
             /\ \/ run.results = <<>> /\ ops = <<>>
                \/ Len(run.results) = Len(txs) /\ Len(ops) = Len(txs)
<1> DEFINE run == ExecuteBatch(x.ledger, txs)
           ops == OpsOf(txs, run.results, from)
           us == FlattenSeq(UpdatesOf(run.results))
<1>0. x.ledger \in Ledgers /\ x.updates \in Seq(Updates)
  BY DEF Points
<1>1. \/ \E p : IsExecution(p, x.ledger, txs, run)
      \/ txs # <<>> /\ run.results = <<>> /\ run.ledger = x.ledger
  BY <1>0, BatchLeads
<1> HIDE DEF run
<1>2. CASE \E p : IsExecution(p, x.ledger, txs, run)
  <2>1. PICK p : IsExecution(p, x.ledger, txs, run)
    BY <1>2
  <2>2. /\ ops \in Seq(Ops) /\ Len(ops) = Len(txs) /\ us \in Seq(Updates)
        /\ FeesOf(run.results) \in Seq(Nat)
        /\ Runs(x, ops, Point(run.ledger, x.updates \o us, x.next))
    BY <2>1, ExecutionRuns
  <2>3. run.ledger \in Ledgers
    <3>1. Len(txs) \in 0 .. Len(txs)
      BY LenProperties
    <3> QED BY <2>1, <3>1 DEF IsExecution
  <2>4. Len(run.results) = Len(txs)
    BY <2>1 DEF IsExecution
  <2> QED BY <2>2, <2>3, <2>4 DEF run
<1>3. CASE txs # <<>> /\ run.results = <<>> /\ run.ledger = x.ledger
  <2>1. ops = <<>> /\ us = <<>> /\ FeesOf(run.results) = <<>>
    BY <1>3, NoResults
  <2>2. x = Point(run.ledger, x.updates \o us, x.next)
    <3>1. x.updates \o us = x.updates
      BY <1>0, <2>1, ConcatEmptySeq
    <3>2. x = Point(x.ledger, x.updates, x.next)
      BY DEF Points, Point
    <3> QED BY <1>3, <3>1, <3>2
  <2>3. Runs(x, <<>>, x) /\ <<>> \in Seq(Updates) /\ <<>> \in Seq(Nat)
    BY RunsNot, EmptySeq
  <2> QED BY <1>0, <1>3, <2>1, <2>2, <2>3 DEF run
<1> QED BY <1>1, <1>2, <1>3

-----------------------------------------------------------------------------
(* The requests to the committer, and the line of the sealed blocks *)

ToStore == [first : Nat, updates : Seq(Updates)]

BlockRequests ==
  [type : {"Block"}, number : Nat, before : Nat, after : Nat, success : Seq(Ops),
   failed : Seq(AllTxs), root : Ledgers, toStore : ToStore]

PendingRequests ==
  [type : {"PendingBlock"}, number : Nat, success : Seq(Ops), failed : Seq(AllTxs),
   toStore : ToStore]

Requests == BlockRequests \cup PendingRequests

\* What a request to the committer is made of.
LEMMA RequestFacts ==
  ASSUME NEW r \in Requests
  PROVE  /\ r.type \in {"Block", "PendingBlock"} /\ r.number \in Nat /\ r.success \in Seq(Ops)
         /\ r.failed \in Seq(AllTxs)
         /\ r.toStore.first \in Nat /\ r.toStore.updates \in Seq(Updates)
         /\ r.type = "Block" => r.before \in Nat /\ r.after \in Nat /\ r.root \in Ledgers
BY DEF Requests, BlockRequests, PendingRequests, ToStore

\* SealedAtLast, of a channel and the blocks committed.
LineOf(q, s) ==
  FoldLeft(LAMBDA line, req : IF req.type = "Block" THEN Append(line, req.success) ELSE line, s, q)

Lines == Seq(Seq(Ops))

LineStep ==
  [p \in Lines \X Requests |-> IF p[2].type = "Block" THEN Append(p[1], p[2].success) ELSE p[1]]

\* One step of that fold.
LEMMA LineStepTyped ==
  /\ LineStep \in [Lines \X Requests -> Lines]
  /\ \A s \in Lines : \A r \in Requests :
        LineStep[<<s, r>>] = IF r.type = "Block" THEN Append(s, r.success) ELSE s
<1>1. \A s \in Lines : \A r \in Requests :
         (IF r.type = "Block" THEN Append(s, r.success) ELSE s) \in Lines
  <2> TAKE s \in Lines
  <2> TAKE r \in Requests
  <2>1. r.success \in Seq(Ops)
    BY RequestFacts
  <2>2. Append(s, r.success) \in Lines
    BY <2>1, AppendProperties DEF Lines
  <2> QED BY <2>2
<1>2. \A s \in Lines : \A r \in Requests : <<s, r>> \in Lines \X Requests
  OBVIOUS
<1> QED BY <1>1, <1>2 DEF LineStep

\* It is a fold over the channel.
LEMMA LineFolds ==
  ASSUME NEW q \in Seq(Requests), NEW s \in Lines
  PROVE  Folds(q, Lines, LineStep, s, LineOf(q, s))
<1> DEFINE n == Len(q)
           P(g) == g = [d \in SUBSET DOMAIN q |->
                          IF d = {} THEN s
                          ELSE IF q[Max(d)].type = "Block"
                               THEN Append(g[d \ {Max(d)}], q[Max(d)].success)
                               ELSE g[d \ {Max(d)}]]
           G == CHOOSE g : P(g)
<1>0. n \in Nat /\ DOMAIN q = 1 .. n /\ \A i \in 1 .. n : q[i] \in Requests
  BY LenProperties, ElementOfSeq
<1>1. \A d \in SUBSET (1 .. n) : d # {} => Max(d) \in 1 .. n /\ Max(d) \in d
  BY ONLY n \in Nat, LastIsPicked
<1>2. LineOf(q, s) = G[DOMAIN q]
  BY Zenon DEF LineOf, FoldLeft, MapThenFoldSet
<1>3. PICK H : H \in [SUBSET (1 .. n) -> Lines] /\ FoldEquation(H, n, q, s, LineStep)
  BY LineStepTyped, FoldExists
<1> HIDE DEF n
<1>4. P(H)
  <2>1. H = [d \in SUBSET (1 .. n) |->
                IF d = {} THEN s ELSE LineStep[<<H[d \ {Max(d)}], q[Max(d)]>>]]
    BY <1>3 DEF FoldEquation
  <2>2. \A d \in SUBSET (1 .. n) : d # {} =>
           LineStep[<<H[d \ {Max(d)}], q[Max(d)]>>]
             = IF q[Max(d)].type = "Block" THEN Append(H[d \ {Max(d)}], q[Max(d)].success)
               ELSE H[d \ {Max(d)}]
    <3> TAKE d \in SUBSET (1 .. n)
    <3> HAVE d # {}
    <3>1. q[Max(d)] \in Requests /\ H[d \ {Max(d)}] \in Lines
      BY <1>0, <1>1, <1>3
    <3> QED BY <3>1, LineStepTyped
  <2> QED BY <1>0, <2>1, <2>2, Zenon
<1>5. P(G)
  BY <1>4, Zenon
<1>6. G[{}] = s
  BY <1>5, Zenon
<1>7. \A d \in SUBSET (1 .. n) : d # {} /\ G[d \ {Max(d)}] \in Lines =>
         G[d] = LineStep[<<G[d \ {Max(d)}], q[Max(d)]>>]
  <2> TAKE d \in SUBSET (1 .. n)
  <2> HAVE d # {} /\ G[d \ {Max(d)}] \in Lines
  <2>1. G[d] = IF q[Max(d)].type = "Block" THEN Append(G[d \ {Max(d)}], q[Max(d)].success)
               ELSE G[d \ {Max(d)}]
    BY <1>0, <1>5, Zenon
  <2> HIDE DEF G
  <2>2. q[Max(d)] \in Requests
    BY <1>0, <1>1
  <2> QED BY <2>1, <2>2, LineStepTyped
<1> HIDE DEF G
<1>8. Folds(q, Lines, LineStep, s, G[1 .. n])
  BY <1>6, <1>7, LineStepTyped, FoldFollows DEF n
<1> QED BY <1>0, <1>2, <1>8

\* A request enters the channel.
LEMMA LinePush ==
  ASSUME NEW q \in Seq(Requests), NEW s \in Lines, NEW r \in Requests
  PROVE  LineOf(Append(q, r), s)
           = IF r.type = "Block" THEN Append(LineOf(q, s), r.success) ELSE LineOf(q, s)
<1>1. Append(q, r) \in Seq(Requests)
  BY AppendProperties
<1>2. Folds(q, Lines, LineStep, s, LineOf(q, s)) /\ LineOf(q, s) \in Lines
  BY LineFolds, FoldsTyped
<1>3. Folds(Append(q, r), Lines, LineStep, s, LineStep[<<LineOf(q, s), r>>])
  BY <1>2, LineStepTyped, FoldsPush
<1>4. Folds(Append(q, r), Lines, LineStep, s, LineOf(Append(q, r), s))
  BY <1>1, LineFolds
<1>5. LineOf(Append(q, r), s) = LineStep[<<LineOf(q, s), r>>]
  BY <1>1, <1>3, <1>4, FoldsOnce
<1> QED BY <1>2, <1>5, LineStepTyped

\* The first request of the channel is committed.
LEMMA LinePop ==
  ASSUME NEW q \in Seq(Requests), q # <<>>, NEW s \in Lines
  PROVE  LineOf(q, s)
           = LineOf(Tail(q), IF Head(q).type = "Block" THEN Append(s, Head(q).success) ELSE s)
<1> DEFINE z == IF Head(q).type = "Block" THEN Append(s, Head(q).success) ELSE s
<1>1. Head(q) \in Requests /\ Tail(q) \in Seq(Requests)
  BY HeadTailProperties
<1>2. z \in Lines /\ z = LineStep[<<s, Head(q)>>]
  BY <1>1, LineStepTyped
<1> HIDE DEF z
<1>3. Folds(Tail(q), Lines, LineStep, z, LineOf(Tail(q), z))
  BY <1>1, <1>2, LineFolds
<1>4. Folds(q, Lines, LineStep, s, LineOf(Tail(q), z))
  BY <1>2, <1>3, LineStepTyped, FoldsPop
<1>5. LineOf(q, s) = LineOf(Tail(q), z)
  BY <1>4, LineFolds, FoldsOnce
<1> QED BY <1>5 DEF z

\* The line has the committed blocks first, and every sealed block of the channel.
LEMMA LineFacts ==
  ASSUME NEW q \in Seq(Requests), NEW s \in Lines
  PROVE  /\ LineOf(q, s) \in Lines /\ LineOf(<<>>, s) = s
         /\ Len(s) <= Len(LineOf(q, s))
         /\ \A k \in 1 .. Len(s) : LineOf(q, s)[k] = s[k]
         /\ \A k \in 1 .. Len(q) : q[k].type = "Block" =>
               \E i \in Len(s) + 1 .. Len(LineOf(q, s)) : LineOf(q, s)[i] = q[k].success
<1> DEFINE n == Len(q)
           line == LineOf(q, s)
<1>1. LineOf(<<>>, s) = s
  <2>1. <<>> \in Seq(Requests)
    BY EmptySeq
  <2>2. Folds(<<>>, Lines, LineStep, s, s)
    BY FoldsNothing
  <2> QED BY <2>1, <2>2, LineFolds, FoldsOnce
<1>2. PICK t : /\ t \in [0 .. n -> Lines] /\ t[0] = s /\ t[n] = line
               /\ \A i \in 1 .. n : t[i] = LineStep[<<t[i - 1], q[i]>>]
  BY LineFolds DEF Folds
<1>0. n \in Nat /\ \A i \in 1 .. n : q[i] \in Requests
  BY LenProperties, ElementOfSeq
<1> HIDE DEF n, line
<1>3. \A i \in 1 .. n : /\ i - 1 \in 0 .. n /\ i \in 0 .. n
                        /\ t[i] = IF q[i].type = "Block" THEN Append(t[i - 1], q[i].success)
                                  ELSE t[i - 1]
  <2> TAKE i \in 1 .. n
  <2>1. i - 1 \in 0 .. n /\ i \in 0 .. n
    BY <1>0
  <2>2. t[i - 1] \in Lines /\ q[i] \in Requests
    BY <1>0, <1>2, <2>1
  <2> QED BY <1>2, <2>1, <2>2, LineStepTyped
<1> DEFINE Leading(a, b) == Len(a) <= Len(b) /\ \A k \in 1 .. Len(a) : b[k] = a[k]
<1>4. \A a \in Lines : Len(a) \in Nat
  BY LenProperties DEF Lines
<1>5. \A i \in 1 .. n :
         /\ Leading(t[i - 1], t[i])
         /\ q[i].type = "Block" => /\ Len(t[i]) = Len(t[i - 1]) + 1
                                   /\ t[i][Len(t[i])] = q[i].success
  <2> TAKE i \in 1 .. n
  <2>1. t[i - 1] \in Lines /\ q[i].success \in Seq(Ops)
    BY <1>0, <1>2, <1>3, RequestFacts
  <2> DEFINE a == t[i - 1]
             o == q[i].success
             b == Append(a, o)
  <2>2. /\ Len(b) = Len(a) + 1 /\ b[Len(a) + 1] = o /\ Len(a) \in Nat
        /\ \A k \in 1 .. Len(a) : b[k] = a[k]
    BY <2>1, AppendProperties, LenProperties DEF Lines
  <2>3. t[i] = IF q[i].type = "Block" THEN b ELSE a
    BY <1>3
  <2> HIDE DEF a, b, o
  <2>4. Leading(a, t[i]) /\ (q[i].type = "Block" => Len(t[i]) = Len(a) + 1 /\ t[i][Len(t[i])] = o)
    BY <2>2, <2>3
  <2> QED BY <2>4 DEF a, o
<1>6. \A a, b, c \in Lines : Leading(a, b) /\ Leading(b, c) => Leading(a, c)
  <2> TAKE a, b, c \in Lines
  <2>1. Len(a) \in Nat /\ Len(b) \in Nat /\ Len(c) \in Nat
    BY <1>4
  <2> QED BY <2>1
<1>7. \A i \in 0 .. n : Leading(t[i], line)
  <2> DEFINE T == {i \in 0 .. n : \A j \in 0 .. i : Leading(t[j], t[i])}
  <2>1. 0 \in T
    <3>1. Leading(t[0], t[0]) /\ 0 \in 0 .. n /\ \A j \in 0 .. 0 : j = 0
      BY <1>0, <1>2, <1>4
    <3> HIDE DEF Leading
    <3> QED BY <3>1
  <2>2. \A i \in 1 .. n : i - 1 \in T => i \in T
    <3> TAKE i \in 1 .. n
    <3> HAVE i - 1 \in T
    <3>1. i \in 0 .. n /\ i - 1 \in 0 .. n /\ Leading(t[i - 1], t[i])
      BY <1>3, <1>5
    <3>2. Leading(t[i], t[i])
      BY <1>2, <1>4, <3>1
    <3> HIDE DEF Leading
    <3>3. \A j \in 0 .. i - 1 : Leading(t[j], t[i - 1])
      OBVIOUS
    <3>4. \A j \in 0 .. i : Leading(t[j], t[i])
      <4> TAKE j \in 0 .. i
      <4>1. CASE j = i
        BY <3>2, <4>1
      <4>2. CASE j # i
        <5>0. n \in Nat /\ j # i
          BY <1>0, <4>2
        <5>1. j \in 0 .. i - 1 /\ j \in 0 .. n
          BY <5>0
        <5>2. Leading(t[j], t[i - 1])
          BY <3>3, <5>1
        <5> QED BY <1>2, <1>6, <3>1, <5>1, <5>2
      <4> QED BY <4>1, <4>2
    <3> QED BY <3>1, <3>4
  <2>3. n \in T
    <3>1. n \in 0 .. n
      BY <1>0
    <3> HIDE DEF T
    <3> QED BY <1>0, <2>1, <2>2, <3>1, AlongInterval
  <2> HIDE DEF Leading
  <2> QED BY <1>2, <2>3
<1>8. line \in Lines /\ Leading(s, line)
  <2>1. 0 \in 0 .. n /\ n \in 0 .. n
    BY <1>0
  <2> HIDE DEF Leading
  <2> QED BY <1>2, <1>7, <2>1
<1>9. ASSUME NEW k \in 1 .. n, q[k].type = "Block"
      PROVE  \E i \in Len(s) + 1 .. Len(line) : line[i] = q[k].success
  <2> DEFINE i == Len(t[k])
  <2>1. /\ i = Len(t[k - 1]) + 1 /\ t[k][i] = q[k].success
        /\ k \in 0 .. n /\ k - 1 \in 0 .. n
    BY <1>3, <1>5, <1>9
  <2>2. Leading(t[k], line)
    BY <1>7, <2>1
  <2>3. Leading(s, t[k - 1])
    <3> DEFINE T == {j \in 0 .. n : Leading(s, t[j])}
    <3>1. 0 \in T
      BY <1>0, <1>2, <1>4
    <3>2. \A j \in 1 .. n : j - 1 \in T => j \in T
      <4> TAKE j \in 1 .. n
      <4> HAVE j - 1 \in T
      <4>1. Leading(s, t[j - 1]) /\ Leading(t[j - 1], t[j])
        BY <1>5
      <4>2. s \in Lines /\ t[j - 1] \in Lines /\ t[j] \in Lines /\ j \in 0 .. n
        BY <1>2, <1>3
      <4> HIDE DEF Leading
      <4> QED BY <1>6, <4>1, <4>2
    <3>3. 0 .. n \subseteq T
      <4> HIDE DEF T
      <4> QED BY <1>0, <3>1, <3>2, AlongInterval
    <3> QED BY <2>1, <3>3
  <2>4. Len(s) \in Nat /\ Len(t[k - 1]) \in Nat /\ Len(line) \in Nat
    BY <1>2, <1>4, <1>8, <2>1
  <2>5. i \in Len(s) + 1 .. Len(line) /\ i \in 1 .. i
    BY <2>1, <2>2, <2>3, <2>4
  <2>6. line[i] = t[k][i]
    BY <2>2, <2>5
  <2> QED BY <2>1, <2>5, <2>6
<1> QED BY <1>1, <1>8, <1>9 DEF n, line

-----------------------------------------------------------------------------
(* The tables of executed operations *)

TxRow(number, o) == [block |-> number, success |-> TRUE, op |-> o.op, index |-> o.index]
PriorityRow(number, o) == [block |-> number, op |-> o.op, index |-> o.index]

SuccessRow(n, op, i) == [block |-> n, success |-> TRUE, op |-> op, index |-> i]

TxRows ==
  {SuccessRow(n, op, i) : n \in Nat, op \in OpNames, i \in Nat} \cup {FailedRow(n) : n \in Nat}

TxTables == UNION {[D -> TxRows] : D \in {d \in SUBSET AllTxs : IsFiniteSet(d)}}

Kinds == {PriorityOps[k].kind : k \in DOMAIN PriorityOps}
PriorityRows == [block : Nat, op : Kinds, index : Nat]

PriorityTables ==
  {f \in UNION {[D -> PriorityRows] : D \in SUBSET Ids} :
      \A id \in DOMAIN f : f[id].op = PriorityOps[id + 1].kind}

Tables == [txs : TxTables, priorityOps : PriorityTables]

\* What the table of the executed transactions is made of.
LEMMA TxTableFacts ==
  ASSUME NEW f
  PROVE  f \in TxTables <=> /\ f \in [DOMAIN f -> TxRows] /\ DOMAIN f \subseteq AllTxs
                            /\ IsFiniteSet(DOMAIN f)
BY DEF TxTables

\* What the table of the executed priority operations is made of.
LEMMA PriorityTableFacts ==
  ASSUME NEW f
  PROVE  f \in PriorityTables <=> /\ f \in [DOMAIN f -> PriorityRows] /\ DOMAIN f \subseteq Ids
                                  /\ \A id \in DOMAIN f : f[id].op = PriorityOps[id + 1].kind
BY DEF PriorityTables

\* What its rows are made of.
LEMMA TxRowFacts ==
  /\ \A n \in Nat : FailedRow(n) \in TxRows /\ ~ FailedRow(n).success /\ FailedRow(n).block = n
  /\ \A n \in Nat : \A o \in Ops : o.type = "tx" =>
        TxRow(n, o) \in TxRows /\ TxRow(n, o).success /\ TxRow(n, o).block = n
  /\ \A r \in TxRows : /\ r.block \in Nat /\ r.success \in BOOLEAN
                       /\ r.success => r.op \in OpNames /\ r.index \in Nat
                       /\ ~ r.success => r = FailedRow(r.block)
<1>1. \A n : ~ FailedRow(n).success /\ FailedRow(n).block = n
  BY Zenon DEF FailedRow
<1>2. \A n, op, i : /\ SuccessRow(n, op, i).success /\ SuccessRow(n, op, i).block = n
                    /\ SuccessRow(n, op, i).op = op /\ SuccessRow(n, op, i).index = i
  BY Zenon DEF SuccessRow
<1>3. \A n, o : TxRow(n, o) = SuccessRow(n, o.op, o.index)
  BY Zenon DEF TxRow, SuccessRow
<1>4. \A n \in Nat : \A o \in Ops : o.type = "tx" => TxRow(n, o) \in TxRows
  BY <1>3, OpFacts DEF TxRows
<1>5. \A n \in Nat : FailedRow(n) \in TxRows
  BY DEF TxRows
<1>6. \A r \in TxRows : /\ r.block \in Nat /\ r.success \in BOOLEAN
                        /\ r.success => r.op \in OpNames /\ r.index \in Nat
                        /\ ~ r.success => r = FailedRow(r.block)
  <2> TAKE r \in TxRows
  <2>1. CASE \E n \in Nat : r = FailedRow(n)
    <3>1. PICK n \in Nat : r = FailedRow(n)
      BY <2>1
    <3>2. r.success = FALSE /\ r.block = n
      BY <3>1, Zenon DEF FailedRow
    <3> QED BY <3>1, <3>2
  <2>2. CASE \E n \in Nat : \E op \in OpNames : \E i \in Nat : r = SuccessRow(n, op, i)
    <3>1. PICK n \in Nat, op \in OpNames, i \in Nat : r = SuccessRow(n, op, i)
      BY <2>2
    <3>2. r.success = TRUE /\ r.block = n /\ r.op = op /\ r.index = i
      BY <3>1, Zenon DEF SuccessRow
    <3> QED BY <3>2
  <2> QED BY <2>1, <2>2 DEF TxRows
<1> QED BY <1>1, <1>2, <1>3, <1>4, <1>5, <1>6

\* One row is stored.
LEMMA StoreTxFacts ==
  ASSUME NEW rows \in TxTables, NEW tx \in AllTxs, NEW row \in TxRows
  PROVE  LET new == StoreTx(rows, tx, row)
         IN  /\ new \in TxTables /\ DOMAIN new = DOMAIN rows \cup {tx}
             /\ \A x \in DOMAIN rows : x # tx \/ ~ row.success => new[x] = rows[x]
             /\ row.success \/ tx \notin DOMAIN rows => new[tx] = row
<1> DEFINE new == StoreTx(rows, tx, row)
<1>1. rows \in [DOMAIN rows -> TxRows] /\ DOMAIN rows \subseteq AllTxs /\ IsFiniteSet(DOMAIN rows)
  BY TxTableFacts
<1>2. new = [t \in DOMAIN rows \cup {tx} |->
               IF t = tx /\ (row.success \/ tx \notin DOMAIN rows) THEN row ELSE rows[t]]
  BY DEF StoreTx
<1> HIDE DEF new
<1>3. DOMAIN new = DOMAIN rows \cup {tx}
  BY <1>2
<1>4. \A t \in DOMAIN new : new[t] \in TxRows
  BY <1>1, <1>2, <1>3
<1>5. IsFiniteSet(DOMAIN new)
  BY <1>1, <1>3, FS_AddElement
<1>6. new \in [DOMAIN new -> TxRows]
  BY <1>2, <1>3, <1>4
<1>7. new \in TxTables
  BY <1>1, <1>3, <1>5, <1>6, TxTableFacts
<1>8. /\ \A x \in DOMAIN rows : x # tx \/ ~ row.success => new[x] = rows[x]
      /\ row.success \/ tx \notin DOMAIN rows => new[tx] = row
  BY <1>2
<1> QED BY <1>3, <1>7, <1>8 DEF new

\* A priority operation stored: the first row stays (storage
\* chain/operations/mod.rs).
LEMMA StorePriorityFacts ==
  ASSUME NEW rows \in PriorityTables, NEW id \in Ids, NEW row \in PriorityRows,
         row.op = PriorityOps[id + 1].kind
  PROVE  LET new == StorePriorityOp(rows, id, row)
         IN  /\ new \in PriorityTables /\ DOMAIN new = DOMAIN rows \cup {id}
             /\ \A x \in DOMAIN rows : new[x] = rows[x]
             /\ id \notin DOMAIN rows => new[id] = row
<1> DEFINE new == StorePriorityOp(rows, id, row)
<1>1. /\ rows \in [DOMAIN rows -> PriorityRows] /\ DOMAIN rows \subseteq Ids
      /\ \A x \in DOMAIN rows : rows[x].op = PriorityOps[x + 1].kind
  BY PriorityTableFacts
<1>2. new = [n \in DOMAIN rows \cup {id} |-> IF n \in DOMAIN rows THEN rows[n] ELSE row]
  BY DEF StorePriorityOp
<1> HIDE DEF new
<1>3. DOMAIN new = DOMAIN rows \cup {id}
  BY <1>2
<1>4. \A n \in DOMAIN new : new[n] \in PriorityRows /\ new[n].op = PriorityOps[n + 1].kind
  BY <1>1, <1>2, <1>3
<1>5. new \in [DOMAIN new -> PriorityRows] /\ DOMAIN new \subseteq Ids
  BY <1>1, <1>2, <1>3, <1>4
<1>6. new \in PriorityTables
  BY <1>4, <1>5, PriorityTableFacts
<1>7. /\ \A x \in DOMAIN rows : new[x] = rows[x]
      /\ id \notin DOMAIN rows => new[id] = row
  BY <1>2
<1> QED BY <1>3, <1>6, <1>7 DEF new

\* One operation is stored in the tables b, and gives r.
IsStored(number, o, b, r) ==
  IF o.type = "tx"
  THEN /\ r.priorityOps = b.priorityOps
       /\ DOMAIN r.txs = DOMAIN b.txs \cup {o.tx}
       /\ \A x \in DOMAIN b.txs : x # o.tx => r.txs[x] = b.txs[x]
       /\ r.txs[o.tx] = TxRow(number, o)
  ELSE /\ r.txs = b.txs
       /\ DOMAIN r.priorityOps = DOMAIN b.priorityOps \cup {o.id}
       /\ \A x \in DOMAIN b.priorityOps : r.priorityOps[x] = b.priorityOps[x]
       /\ o.id \notin DOMAIN b.priorityOps => r.priorityOps[o.id] = PriorityRow(number, o)

\* An operation stored is in the tables, and the others stay.
LEMMA RowsFacts ==
  ASSUME NEW b \in Tables, NEW number \in Nat, NEW o \in Ops
  PROVE  Rows(b, number, o) \in Tables /\ IsStored(number, o, b, Rows(b, number, o))
<1>0. b.txs \in TxTables /\ b.priorityOps \in PriorityTables
      /\ b = [txs |-> b.txs, priorityOps |-> b.priorityOps]
  BY DEF Tables
<1>1. CASE o.type = "tx"
  <2> DEFINE row == TxRow(number, o)
             new == StoreTx(b.txs, o.tx, row)
  <2>1. o.tx \in AllTxs /\ row \in TxRows /\ row.success = TRUE
    <3>1. o.tx \in AllTxs /\ row \in TxRows
      BY <1>1, OpFacts, TxRowFacts
    <3>2. row.success = TRUE
      BY Zenon DEF TxRow
    <3> QED BY <3>1, <3>2
  <2>3. Rows(b, number, o) = [b EXCEPT !.txs = new]
    BY <1>1 DEF Rows, TxRow
  <2> HIDE DEF row
  <2>2. /\ new \in TxTables /\ DOMAIN new = DOMAIN b.txs \cup {o.tx}
        /\ \A x \in DOMAIN b.txs : x # o.tx => new[x] = b.txs[x]
        /\ new[o.tx] = row
    <3> DEFINE bt == b.txs
               tx == o.tx
    <3>1. bt \in TxTables /\ tx \in AllTxs
      BY <1>0, <2>1
    <3>2. new = StoreTx(bt, tx, row)
      OBVIOUS
    <3> HIDE DEF bt, tx, new
    <3>3. /\ new \in TxTables /\ DOMAIN new = DOMAIN bt \cup {tx}
          /\ \A x \in DOMAIN bt : x # tx => new[x] = bt[x]
      BY <2>1, <3>1, <3>2, StoreTxFacts
    <3>4. new[tx] = row
      BY <2>1, <3>1, <3>2, StoreTxFacts
    <3> QED BY <3>3, <3>4 DEF bt, tx
  <2> HIDE DEF new
  <2>4. Rows(b, number, o) = [txs |-> new, priorityOps |-> b.priorityOps]
    BY <1>0, <2>3
  <2> QED BY <1>0, <1>1, <2>2, <2>4 DEF Tables, row, IsStored
<1>2. CASE o.type # "tx"
  <2> DEFINE row == PriorityRow(number, o)
             new == StorePriorityOp(b.priorityOps, o.id, row)
  <2>1. /\ o.id \in Ids /\ o.op = PriorityOps[o.id + 1].kind /\ o.index \in Nat
    BY <1>2, OpFacts
  <2>2. o.op \in Kinds
    <3>1. o.id + 1 \in DOMAIN PriorityOps
      <4>1. DOMAIN PriorityOps = 1 .. Len(PriorityOps) /\ Len(PriorityOps) \in Nat
        BY BoundsAssumption, LenProperties
      <4> QED BY <2>1, <4>1 DEF Ids
    <3> QED BY <2>1, <3>1 DEF Kinds
  <2>3. row \in PriorityRows /\ row.op = PriorityOps[o.id + 1].kind
    BY <2>1, <2>2 DEF PriorityRow, PriorityRows
  <2>5. Rows(b, number, o) = [b EXCEPT !.priorityOps = new]
    BY <1>2 DEF Rows, PriorityRow
  <2> HIDE DEF row
  <2>4. /\ new \in PriorityTables /\ DOMAIN new = DOMAIN b.priorityOps \cup {o.id}
        /\ \A x \in DOMAIN b.priorityOps : new[x] = b.priorityOps[x]
        /\ o.id \notin DOMAIN b.priorityOps => new[o.id] = row
    BY <1>0, <2>1, <2>3, StorePriorityFacts
  <2> HIDE DEF new
  <2>6. Rows(b, number, o) = [txs |-> b.txs, priorityOps |-> new]
    BY <1>0, <2>5
  <2> QED BY <1>0, <1>2, <2>4, <2>6 DEF Tables, row, IsStored
<1> QED BY <1>1, <1>2

-----------------------------------------------------------------------------
(* Storing the operations of a block *)

RowsOf(tables, number, ops) ==
  FoldLeft(LAMBDA tb, op : Rows(tb, number, op), tables, ops)

RowsStep(number) == [p \in Tables \X Ops |-> Rows(p[1], number, p[2])]

\* One step of the storing of a block.
LEMMA RowsStepTyped ==
  ASSUME NEW number \in Nat
  PROVE  /\ RowsStep(number) \in [Tables \X Ops -> Tables]
         /\ \A b \in Tables : \A o \in Ops : RowsStep(number)[<<b, o>>] = Rows(b, number, o)
<1>1. \A b \in Tables : \A o \in Ops : Rows(b, number, o) \in Tables
  BY RowsFacts
<1> QED BY <1>1 DEF RowsStep

\* The storing of a block is a fold over its operations.
LEMMA RowsFold ==
  ASSUME NEW tables \in Tables, NEW number \in Nat, NEW ops \in Seq(Ops)
  PROVE  Folds(ops, Tables, RowsStep(number), tables, RowsOf(tables, number, ops))
<1> DEFINE n == Len(ops)
           step == RowsStep(number)
           P(g) == g = [d \in SUBSET DOMAIN ops |->
                          IF d = {} THEN tables
                          ELSE Rows(g[d \ {Max(d)}], number, ops[Max(d)])]
           G == CHOOSE g : P(g)
<1>0. n \in Nat /\ DOMAIN ops = 1 .. n /\ \A i \in 1 .. n : ops[i] \in Ops
  BY LenProperties, ElementOfSeq
<1>1. \A d \in SUBSET (1 .. n) : d # {} => Max(d) \in 1 .. n /\ Max(d) \in d
  BY ONLY n \in Nat, LastIsPicked
<1>2. RowsOf(tables, number, ops) = G[DOMAIN ops]
  BY Zenon DEF RowsOf, FoldLeft, MapThenFoldSet
<1>9. /\ step \in [Tables \X Ops -> Tables]
      /\ \A b \in Tables : \A o \in Ops : step[<<b, o>>] = Rows(b, number, o)
  BY RowsStepTyped
<1> HIDE DEF step
<1>3. PICK H : H \in [SUBSET (1 .. n) -> Tables] /\ FoldEquation(H, n, ops, tables, step)
  BY <1>9, FoldExists
<1> HIDE DEF n
<1>4. P(H)
  <2>1. H = [d \in SUBSET (1 .. n) |->
                IF d = {} THEN tables ELSE step[<<H[d \ {Max(d)}], ops[Max(d)]>>]]
    BY <1>3 DEF FoldEquation
  <2>2. \A d \in SUBSET (1 .. n) : d # {} =>
           step[<<H[d \ {Max(d)}], ops[Max(d)]>>] = Rows(H[d \ {Max(d)}], number, ops[Max(d)])
    <3> TAKE d \in SUBSET (1 .. n)
    <3> HAVE d # {}
    <3>1. ops[Max(d)] \in Ops /\ H[d \ {Max(d)}] \in Tables
      BY <1>0, <1>1, <1>3
    <3> QED BY <1>9, <3>1
  <2> QED BY <1>0, <2>1, <2>2, Zenon
<1>5. P(G)
  BY <1>4, Zenon
<1>6. G[{}] = tables
  BY <1>5
<1>7. \A d \in SUBSET (1 .. n) : d # {} /\ G[d \ {Max(d)}] \in Tables =>
         G[d] = step[<<G[d \ {Max(d)}], ops[Max(d)]>>]
  <2> TAKE d \in SUBSET (1 .. n)
  <2> HAVE d # {} /\ G[d \ {Max(d)}] \in Tables
  <2>1. G[d] = Rows(G[d \ {Max(d)}], number, ops[Max(d)])
    BY <1>0, <1>5
  <2> HIDE DEF G
  <2>2. ops[Max(d)] \in Ops
    BY <1>0, <1>1
  <2> QED BY <1>9, <2>1, <2>2
<1> HIDE DEF G
<1>8. Folds(ops, Tables, step, tables, G[1 .. n])
  BY <1>6, <1>7, <1>9, FoldFollows DEF n
<1> QED BY <1>0, <1>2, <1>8 DEF step

\* Transaction x is among the first i operations; row is what one of them wrote.
HasTx(ops, i, x) == \E k \in 1 .. i : ops[k].type = "tx" /\ ops[k].tx = x
WroteTx(number, ops, i, x, row) ==
  \E k \in 1 .. i : ops[k].type = "tx" /\ ops[k].tx = x /\ row = TxRow(number, ops[k])

HasId(ops, i, x) == \E k \in 1 .. i : ops[k].type # "tx" /\ ops[k].id = x
WroteId(number, ops, i, x, row) ==
  \E k \in 1 .. i : ops[k].type # "tx" /\ ops[k].id = x /\ row = PriorityRow(number, ops[k])

\* What the tables b become with the first i operations.
TxsFilled(number, ops, i, b, r) ==
  /\ \A x : x \in DOMAIN r <=> x \in DOMAIN b \/ HasTx(ops, i, x)
  /\ \A x : IF HasTx(ops, i, x) THEN WroteTx(number, ops, i, x, r[x])
            ELSE x \in DOMAIN b => r[x] = b[x]

IdsFilled(number, ops, i, b, r) ==
  /\ \A x : x \in DOMAIN r <=> x \in DOMAIN b \/ HasId(ops, i, x)
  /\ \A x \in DOMAIN b : r[x] = b[x]
  /\ \A x \in DOMAIN r \ DOMAIN b : WroteId(number, ops, i, x, r[x])

\* The operations of a block stored are all in the tables.
LEMMA RowsFill ==
  ASSUME NEW tables \in Tables, NEW number \in Nat, NEW ops \in Seq(Ops)
  PROVE  LET r == RowsOf(tables, number, ops)
         IN  /\ r \in Tables
             /\ TxsFilled(number, ops, Len(ops), tables.txs, r.txs)
             /\ IdsFilled(number, ops, Len(ops), tables.priorityOps, r.priorityOps)
<1> DEFINE n == Len(ops)
           r == RowsOf(tables, number, ops)
<1>0. n \in Nat /\ \A i \in 1 .. n : ops[i] \in Ops
  BY LenProperties, ElementOfSeq
<1>1. PICK t : /\ t \in [0 .. n -> Tables] /\ t[0] = tables /\ t[n] = r
               /\ \A i \in 1 .. n : t[i] = RowsStep(number)[<<t[i - 1], ops[i]>>]
  BY RowsFold DEF Folds
<1> HIDE DEF n, r
<1>2. \A i \in 1 .. n : /\ i - 1 \in 0 .. n /\ i \in 0 .. n
                        /\ t[i - 1] \in Tables /\ t[i] = Rows(t[i - 1], number, ops[i])
  <2> TAKE i \in 1 .. n
  <2>1. i - 1 \in 0 .. n /\ i \in 0 .. n
    BY <1>0
  <2>2. t[i - 1] \in Tables /\ ops[i] \in Ops
    BY <1>0, <1>1, <2>1
  <2> QED BY <1>1, <2>1, <2>2, RowsStepTyped
<1>3. \A i \in 1 .. n : \A k \in 1 .. i : k = i \/ k \in 1 .. i - 1
  BY <1>0
<1>4. \A i \in 1 .. n : \A k \in 1 .. i - 1 : k \in 1 .. i
  BY <1>0
<1>5. \A i \in 1 .. n : i \in 1 .. i
  BY <1>0
<1>6. \A i \in 1 .. n : \A x :
         /\ HasTx(ops, i, x) <=> HasTx(ops, i - 1, x) \/ (ops[i].type = "tx" /\ ops[i].tx = x)
         /\ HasId(ops, i, x) <=> HasId(ops, i - 1, x) \/ (ops[i].type # "tx" /\ ops[i].id = x)
  BY <1>3, <1>4, <1>5 DEF HasTx, HasId
<1>7. \A i \in 1 .. n : \A x, row :
         /\ WroteTx(number, ops, i - 1, x, row) => WroteTx(number, ops, i, x, row)
         /\ WroteId(number, ops, i - 1, x, row) => WroteId(number, ops, i, x, row)
  BY <1>4 DEF WroteTx, WroteId
<1>8. \A i \in 1 .. n :
         /\ ops[i].type = "tx" => WroteTx(number, ops, i, ops[i].tx, TxRow(number, ops[i]))
         /\ ops[i].type # "tx" => WroteId(number, ops, i, ops[i].id, PriorityRow(number, ops[i]))
  BY <1>5 DEF WroteTx, WroteId
<1> DEFINE T == {i \in 0 .. n : /\ TxsFilled(number, ops, i, tables.txs, t[i].txs)
                                /\ IdsFilled(number, ops, i, tables.priorityOps, t[i].priorityOps)}
<1>9. 0 \in T
  <2>1. 0 \in 0 .. n /\ \A k \in 1 .. 0 : FALSE
    BY <1>0
  <2>2. \A x : ~ HasTx(ops, 0, x) /\ ~ HasId(ops, 0, x)
    BY <2>1 DEF HasTx, HasId
  <2>3. TxsFilled(number, ops, 0, tables.txs, t[0].txs)
    BY <1>1, <2>2 DEF TxsFilled
  <2>4. IdsFilled(number, ops, 0, tables.priorityOps, t[0].priorityOps)
    BY <1>1, <2>2 DEF IdsFilled
  <2> QED BY <2>1, <2>3, <2>4
<1>10. \A i \in 1 .. n : i - 1 \in T => i \in T
  <2> TAKE i \in 1 .. n
  <2> HAVE i - 1 \in T
  <2> DEFINE o == ops[i]
             a == t[i - 1]
             c == t[i]
  <2>1. /\ TxsFilled(number, ops, i - 1, tables.txs, a.txs)
        /\ IdsFilled(number, ops, i - 1, tables.priorityOps, a.priorityOps)
    OBVIOUS
  <2>2. o \in Ops /\ a \in Tables /\ c = Rows(a, number, o)
    BY <1>0, <1>2
  <2>10. /\ ops[i] = o /\ t[i] = c
    OBVIOUS
  <2> HIDE DEF o, a, c, T
  <2>11. IsStored(number, o, a, c)
    BY <2>2, RowsFacts
  <2>3. /\ o.type = "tx" =>
             /\ c.priorityOps = a.priorityOps
             /\ DOMAIN c.txs = DOMAIN a.txs \cup {o.tx}
             /\ \A x \in DOMAIN a.txs : x # o.tx => c.txs[x] = a.txs[x]
             /\ c.txs[o.tx] = TxRow(number, o)
        /\ o.type # "tx" =>
             /\ c.txs = a.txs
             /\ DOMAIN c.priorityOps = DOMAIN a.priorityOps \cup {o.id}
             /\ \A x \in DOMAIN a.priorityOps : c.priorityOps[x] = a.priorityOps[x]
             /\ o.id \notin DOMAIN a.priorityOps => c.priorityOps[o.id] = PriorityRow(number, o)
    BY <2>11 DEF IsStored
  <2>4. \A x : /\ HasTx(ops, i, x) <=> HasTx(ops, i - 1, x) \/ (o.type = "tx" /\ o.tx = x)
               /\ HasId(ops, i, x) <=> HasId(ops, i - 1, x) \/ (o.type # "tx" /\ o.id = x)
    BY <1>6, <2>10
  <2>5. \A x, row :
           /\ WroteTx(number, ops, i - 1, x, row) => WroteTx(number, ops, i, x, row)
           /\ WroteId(number, ops, i - 1, x, row) => WroteId(number, ops, i, x, row)
    BY <1>7
  <2>6. /\ o.type = "tx" => WroteTx(number, ops, i, o.tx, TxRow(number, o))
        /\ o.type # "tx" => WroteId(number, ops, i, o.id, PriorityRow(number, o))
    BY <1>8, <2>10
  <2>7. TxsFilled(number, ops, i, tables.txs, c.txs)
    <3>1. CASE o.type = "tx"
      <4>1. \A x : x \in DOMAIN c.txs <=> x \in DOMAIN tables.txs \/ HasTx(ops, i, x)
        BY <2>1, <2>3, <2>4, <3>1 DEF TxsFilled
      <4>2. \A x : IF HasTx(ops, i, x) THEN WroteTx(number, ops, i, x, c.txs[x])
                   ELSE x \in DOMAIN tables.txs => c.txs[x] = tables.txs[x]
        <5> TAKE x
        <5>1. CASE x = o.tx
          BY <2>3, <2>4, <2>6, <3>1, <5>1
        <5>2. CASE x # o.tx
          BY <2>1, <2>3, <2>4, <2>5, <3>1, <5>2 DEF TxsFilled
        <5> QED BY <5>1, <5>2
      <4> QED BY <4>1, <4>2 DEF TxsFilled
    <3>2. CASE o.type # "tx"
      BY <2>1, <2>3, <2>4, <2>5, <3>2 DEF TxsFilled
    <3> QED BY <3>1, <3>2
  <2>8. IdsFilled(number, ops, i, tables.priorityOps, c.priorityOps)
    <3>1. CASE o.type = "tx"
      BY <2>1, <2>3, <2>4, <2>5, <3>1 DEF IdsFilled
    <3>2. CASE o.type # "tx"
      BY <2>1, <2>3, <2>4, <2>5, <2>6, <3>2 DEF IdsFilled
    <3> QED BY <3>1, <3>2
  <2>9. i \in 0 .. n
    BY <1>2
  <2> QED BY <2>7, <2>8, <2>9 DEF T, c
<1>11. n \in T
  <2>1. n \in 0 .. n
    BY <1>0
  <2> HIDE DEF T
  <2> QED BY <1>0, <1>9, <1>10, <2>1, AlongInterval
<1>12. r \in Tables
  <2>1. n \in 0 .. n
    BY <1>0
  <2> QED BY <1>1, <2>1
<1> QED BY <1>1, <1>11, <1>12 DEF n, r

-----------------------------------------------------------------------------
(* Storing the failures of a block *)

FailuresOf(rows, number, txs) ==
  FoldLeft(LAMBDA rs, tx : StoreTx(rs, tx, FailedRow(number)), rows, txs)

FailuresStep(number) == [p \in TxTables \X AllTxs |-> StoreTx(p[1], p[2], FailedRow(number))]

\* One step of the storing of the failures.
LEMMA FailuresStepTyped ==
  ASSUME NEW number \in Nat
  PROVE  /\ FailuresStep(number) \in [TxTables \X AllTxs -> TxTables]
         /\ \A b \in TxTables : \A tx \in AllTxs :
               FailuresStep(number)[<<b, tx>>] = StoreTx(b, tx, FailedRow(number))
<1> DEFINE row == FailedRow(number)
<1>1. row \in TxRows
  BY TxRowFacts
<1> HIDE DEF row
<1>2. \A b \in TxTables : \A tx \in AllTxs : StoreTx(b, tx, row) \in TxTables
  BY <1>1, StoreTxFacts
<1> QED BY <1>2 DEF FailuresStep, row

\* The storing of the failures is a fold over them.
LEMMA FailuresFold ==
  ASSUME NEW rows \in TxTables, NEW number \in Nat, NEW txs \in Seq(AllTxs)
  PROVE  Folds(txs, TxTables, FailuresStep(number), rows, FailuresOf(rows, number, txs))
<1> DEFINE n == Len(txs)
           step == FailuresStep(number)
           P(g) == g = [d \in SUBSET DOMAIN txs |->
                          IF d = {} THEN rows
                          ELSE StoreTx(g[d \ {Max(d)}], txs[Max(d)], FailedRow(number))]
           G == CHOOSE g : P(g)
<1>0. n \in Nat /\ DOMAIN txs = 1 .. n /\ \A i \in 1 .. n : txs[i] \in AllTxs
  BY LenProperties, ElementOfSeq
<1>1. \A d \in SUBSET (1 .. n) : d # {} => Max(d) \in 1 .. n /\ Max(d) \in d
  BY ONLY n \in Nat, LastIsPicked
<1>2. FailuresOf(rows, number, txs) = G[DOMAIN txs]
  BY Zenon DEF FailuresOf, FoldLeft, MapThenFoldSet
<1>3. /\ step \in [TxTables \X AllTxs -> TxTables]
      /\ \A b \in TxTables : \A tx \in AllTxs : step[<<b, tx>>] = StoreTx(b, tx, FailedRow(number))
  BY FailuresStepTyped
<1> HIDE DEF step
<1>4. PICK H : H \in [SUBSET (1 .. n) -> TxTables] /\ FoldEquation(H, n, txs, rows, step)
  BY <1>3, FoldExists
<1> HIDE DEF n
<1>5. P(H)
  <2>1. H = [d \in SUBSET (1 .. n) |->
                IF d = {} THEN rows ELSE step[<<H[d \ {Max(d)}], txs[Max(d)]>>]]
    BY <1>4 DEF FoldEquation
  <2>2. \A d \in SUBSET (1 .. n) : d # {} =>
           step[<<H[d \ {Max(d)}], txs[Max(d)]>>]
             = StoreTx(H[d \ {Max(d)}], txs[Max(d)], FailedRow(number))
    <3> TAKE d \in SUBSET (1 .. n)
    <3> HAVE d # {}
    <3>1. txs[Max(d)] \in AllTxs /\ H[d \ {Max(d)}] \in TxTables
      BY <1>0, <1>1, <1>4
    <3> QED BY <1>3, <3>1
  <2> QED BY <1>0, <2>1, <2>2, Zenon
<1>6. P(G)
  BY <1>5, Zenon
<1>7. G[{}] = rows
  BY <1>6
<1>8. \A d \in SUBSET (1 .. n) : d # {} /\ G[d \ {Max(d)}] \in TxTables =>
         G[d] = step[<<G[d \ {Max(d)}], txs[Max(d)]>>]
  <2> TAKE d \in SUBSET (1 .. n)
  <2> HAVE d # {} /\ G[d \ {Max(d)}] \in TxTables
  <2>1. G[d] = StoreTx(G[d \ {Max(d)}], txs[Max(d)], FailedRow(number))
    BY <1>0, <1>6
  <2> HIDE DEF G
  <2>2. txs[Max(d)] \in AllTxs
    BY <1>0, <1>1
  <2> QED BY <1>3, <2>1, <2>2
<1> HIDE DEF G
<1>9. Folds(txs, TxTables, step, rows, G[1 .. n])
  BY <1>3, <1>7, <1>8, FoldFollows DEF n
<1> QED BY <1>0, <1>2, <1>9 DEF step

\* The failures do not replace a row.
LEMMA FailuresFill ==
  ASSUME NEW rows \in TxTables, NEW number \in Nat, NEW txs \in Seq(AllTxs)
  PROVE  LET r == FailuresOf(rows, number, txs)
         IN  /\ r \in TxTables
             /\ DOMAIN rows \subseteq DOMAIN r
             /\ \A x \in DOMAIN rows : r[x] = rows[x]
             /\ \A x \in DOMAIN r \ DOMAIN rows :
                   r[x] = FailedRow(number) /\ \E k \in 1 .. Len(txs) : txs[k] = x
             /\ \A k \in 1 .. Len(txs) : txs[k] \in DOMAIN r
<1> DEFINE n == Len(txs)
           r == FailuresOf(rows, number, txs)
           row == FailedRow(number)
<1>0. n \in Nat /\ \A i \in 1 .. n : txs[i] \in AllTxs
  BY LenProperties, ElementOfSeq
<1>1. PICK t : /\ t \in [0 .. n -> TxTables] /\ t[0] = rows /\ t[n] = r
               /\ \A i \in 1 .. n : t[i] = FailuresStep(number)[<<t[i - 1], txs[i]>>]
  BY FailuresFold DEF Folds
<1>2. row \in TxRows /\ row.success = FALSE
  <2>1. row.success = FALSE
    BY Zenon DEF FailedRow
  <2> QED BY <2>1, TxRowFacts
<1>3. \A b \in TxTables : \A tx \in AllTxs : FailuresStep(number)[<<b, tx>>] = StoreTx(b, tx, row)
  BY FailuresStepTyped, Zenon
<1> HIDE DEF n, r, row
<1>4. \A i \in 1 .. n :
         /\ i - 1 \in 0 .. n /\ i \in 0 .. n
         /\ DOMAIN t[i] = DOMAIN t[i - 1] \cup {txs[i]}
         /\ \A x \in DOMAIN t[i - 1] : t[i][x] = t[i - 1][x]
         /\ txs[i] \notin DOMAIN t[i - 1] => t[i][txs[i]] = row
  <2> TAKE i \in 1 .. n
  <2> DEFINE b == t[i - 1]
             tx == txs[i]
             c == t[i]
  <2>1. i - 1 \in 0 .. n /\ i \in 0 .. n
    BY <1>0
  <2>2. b \in TxTables /\ tx \in AllTxs
    BY <1>0, <1>1, <2>1
  <2>3. c = StoreTx(b, tx, row)
    BY <1>1, <1>3, <2>2
  <2> HIDE DEF b, tx, c
  <2>4. /\ DOMAIN c = DOMAIN b \cup {tx}
        /\ \A x \in DOMAIN b : c[x] = b[x]
    BY <1>2, <2>2, <2>3, StoreTxFacts
  <2>5. tx \notin DOMAIN b => c[tx] = row
    BY <1>2, <2>2, <2>3, StoreTxFacts
  <2> QED BY <2>1, <2>4, <2>5 DEF b, tx, c
<1> DEFINE Filled(i) == /\ DOMAIN rows \subseteq DOMAIN t[i]
                        /\ \A x \in DOMAIN rows : t[i][x] = rows[x]
                        /\ \A x \in DOMAIN t[i] \ DOMAIN rows :
                              t[i][x] = row /\ \E k \in 1 .. n : txs[k] = x
                        /\ \A k \in 1 .. i : txs[k] \in DOMAIN t[i]
           T == {i \in 0 .. n : Filled(i)}
<1>5. 0 \in T
  <2>1. 0 \in 0 .. n /\ \A k \in 1 .. 0 : FALSE
    BY <1>0
  <2> QED BY <1>1, <2>1
<1>6. \A i \in 1 .. n : i - 1 \in T => i \in T
  <2> TAKE i \in 1 .. n
  <2> HAVE i - 1 \in T
  <2>1. Filled(i - 1)
    OBVIOUS
  <2>2. \A k \in 1 .. i : k = i \/ k \in 1 .. i - 1
    BY <1>0
  <2>3. Filled(i)
    <3>1. DOMAIN rows \subseteq DOMAIN t[i] /\ \A x \in DOMAIN rows : t[i][x] = rows[x]
      BY <1>4, <2>1
    <3>2. \A x \in DOMAIN t[i] \ DOMAIN rows : t[i][x] = row /\ \E k \in 1 .. n : txs[k] = x
      <4> TAKE x \in DOMAIN t[i] \ DOMAIN rows
      <4>1. CASE x \in DOMAIN t[i - 1]
        BY <1>4, <2>1, <4>1
      <4>2. CASE x \notin DOMAIN t[i - 1]
        BY <1>4, <4>2
      <4> QED BY <4>1, <4>2
    <3>3. \A k \in 1 .. i : txs[k] \in DOMAIN t[i]
      BY <1>4, <2>1, <2>2
    <3> QED BY <3>1, <3>2, <3>3
  <2> QED BY <1>4, <2>3
<1>7. n \in T
  <2>1. n \in 0 .. n
    BY <1>0
  <2> HIDE DEF T
  <2> QED BY <1>0, <1>5, <1>6, <2>1, AlongInterval
<1>8. r \in TxTables /\ Filled(n)
  <2>1. n \in 0 .. n
    BY <1>0
  <2> QED BY <1>1, <1>7, <2>1
<1> QED BY <1>1, <1>8 DEF n, r, row

-----------------------------------------------------------------------------
(* What is left of a variant *)

RemainingStep(executed) ==
  [p \in Seq(AllTxs) \X AllTxs |-> IF p[2] \in executed THEN p[1] ELSE Append(p[1], p[2])]

\* What remains of a batch is a fold over its transactions.
LEMMA RemainingFolds ==
  ASSUME NEW v \in Seq(AllTxs), NEW executed
  PROVE  Folds(v, Seq(AllTxs), RemainingStep(executed), <<>>, RemainingOf(v, executed))
<1> DEFINE n == Len(v)
           V == Seq(AllTxs)
           step == RemainingStep(executed)
           P(g) == g = [d \in SUBSET DOMAIN v |->
                          IF d = {} THEN <<>>
                          ELSE IF v[Max(d)] \in executed THEN g[d \ {Max(d)}]
                               ELSE Append(g[d \ {Max(d)}], v[Max(d)])]
           G == CHOOSE g : P(g)
<1>0. n \in Nat /\ DOMAIN v = 1 .. n /\ \A i \in 1 .. n : v[i] \in AllTxs
  BY LenProperties, ElementOfSeq
<1>1. \A d \in SUBSET (1 .. n) : d # {} => Max(d) \in 1 .. n /\ Max(d) \in d
  BY ONLY n \in Nat, LastIsPicked
<1>2. RemainingOf(v, executed) = G[DOMAIN v]
  BY Zenon DEF RemainingOf, FoldLeft, MapThenFoldSet
<1>3. \A s \in V : \A tx \in AllTxs : Append(s, tx) \in V
  BY AppendProperties
<1>4. /\ step \in [V \X AllTxs -> V] /\ <<>> \in V
      /\ \A s \in V : \A tx \in AllTxs :
            step[<<s, tx>>] = IF tx \in executed THEN s ELSE Append(s, tx)
  BY <1>3, EmptySeq DEF RemainingStep
<1> HIDE DEF step, V
<1>5. PICK H : H \in [SUBSET (1 .. n) -> V] /\ FoldEquation(H, n, v, <<>>, step)
  BY <1>4, FoldExists
<1> HIDE DEF n
<1>6. P(H)
  <2>1. H = [d \in SUBSET (1 .. n) |->
                IF d = {} THEN <<>> ELSE step[<<H[d \ {Max(d)}], v[Max(d)]>>]]
    BY <1>5 DEF FoldEquation
  <2>2. \A d \in SUBSET (1 .. n) : d # {} =>
           step[<<H[d \ {Max(d)}], v[Max(d)]>>]
             = IF v[Max(d)] \in executed THEN H[d \ {Max(d)}] ELSE Append(H[d \ {Max(d)}], v[Max(d)])
    <3> TAKE d \in SUBSET (1 .. n)
    <3> HAVE d # {}
    <3>1. v[Max(d)] \in AllTxs /\ H[d \ {Max(d)}] \in V
      BY <1>0, <1>1, <1>5
    <3> QED BY <1>4, <3>1
  <2> QED BY <1>0, <2>1, <2>2, Zenon
<1>7. P(G)
  BY <1>6, Zenon
<1>8. G[{}] = <<>>
  BY <1>7, Zenon
<1>9. \A d \in SUBSET (1 .. n) : d # {} /\ G[d \ {Max(d)}] \in V =>
         G[d] = step[<<G[d \ {Max(d)}], v[Max(d)]>>]
  <2> TAKE d \in SUBSET (1 .. n)
  <2> HAVE d # {} /\ G[d \ {Max(d)}] \in V
  <2>1. G[d] = IF v[Max(d)] \in executed THEN G[d \ {Max(d)}]
               ELSE Append(G[d \ {Max(d)}], v[Max(d)])
    BY <1>0, <1>7, Zenon
  <2> HIDE DEF G
  <2>2. v[Max(d)] \in AllTxs
    BY <1>0, <1>1
  <2> QED BY <1>4, <2>1, <2>2
<1> HIDE DEF G
<1>10. Folds(v, V, step, <<>>, G[1 .. n])
  BY <1>4, <1>8, <1>9, FoldFollows DEF n
<1> QED BY <1>0, <1>2, <1>10 DEF V, step

\* What remains of a batch in mempool_txs is a sequence of transactions.
LEMMA RemainingTyped ==
  ASSUME NEW v \in Seq(AllTxs), NEW executed
  PROVE  RemainingOf(v, executed) \in Seq(AllTxs)
BY RemainingFolds, FoldsTyped

-----------------------------------------------------------------------------
(* save_block_transactions *)

SavedTables(req) ==
  RowsOf([txs |-> execTxs, priorityOps |-> execPriorityOps], req.number, req.success)

\* The storing of a request, table by table.
LEMMA SaveUnfolds ==
  ASSUME NEW req, SaveTransactions(req)
  PROVE  /\ execTxs' = FailuresOf(SavedTables(req).txs, req.number, req.failed)
         /\ execPriorityOps' = SavedTables(req).priorityOps
         /\ mempoolRows' = {RemainingOf(v, ExecutedBy(req)) : v \in mempoolRows} \ {<<>>}
BY Zenon DEF SaveTransactions, SavedTables, RowsOf, FailuresOf

\* What the tables hold after a request is stored.
LEMMA SaveFills ==
  ASSUME NEW req \in Requests, SaveTransactions(req),
         execTxs \in TxTables, execPriorityOps \in PriorityTables,
         mempoolRows \subseteq Seq(AllTxs)
  PROVE  /\ execTxs' \in TxTables /\ execPriorityOps' \in PriorityTables
         /\ mempoolRows' \subseteq Seq(AllTxs)
         /\ IdsFilled(req.number, req.success, Len(req.success), execPriorityOps, execPriorityOps')
         /\ \A x \in DOMAIN execTxs : x \in DOMAIN execTxs'
         /\ \A x \in DOMAIN execTxs' :
               \/ /\ HasTx(req.success, Len(req.success), x)
                  /\ WroteTx(req.number, req.success, Len(req.success), x, execTxs'[x])
               \/ /\ ~ HasTx(req.success, Len(req.success), x)
                  /\ x \in DOMAIN execTxs /\ execTxs'[x] = execTxs[x]
               \/ /\ ~ HasTx(req.success, Len(req.success), x)
                  /\ x \notin DOMAIN execTxs /\ execTxs'[x] = FailedRow(req.number)
                  /\ \E k \in 1 .. Len(req.failed) : req.failed[k] = x
         /\ \A x : HasTx(req.success, Len(req.success), x) => x \in DOMAIN execTxs'
         /\ \A k \in 1 .. Len(req.failed) : req.failed[k] \in DOMAIN execTxs'
<1> DEFINE b == [txs |-> execTxs, priorityOps |-> execPriorityOps]
           n == Len(req.success)
           s == SavedTables(req)
           f == FailuresOf(s.txs, req.number, req.failed)
<1>1. req.number \in Nat /\ req.success \in Seq(Ops) /\ req.failed \in Seq(AllTxs)
  BY RequestFacts
<1>2. b \in Tables /\ b.txs = execTxs /\ b.priorityOps = execPriorityOps
  BY DEF Tables
<1>3. execTxs' = f /\ execPriorityOps' = s.priorityOps
      /\ mempoolRows' = {RemainingOf(v, ExecutedBy(req)) : v \in mempoolRows} \ {<<>>}
  BY SaveUnfolds
<1>4. s = RowsOf(b, req.number, req.success)
  BY DEF SavedTables
<1> HIDE DEF b, n, s
<1>5. /\ s \in Tables
      /\ TxsFilled(req.number, req.success, n, b.txs, s.txs)
      /\ IdsFilled(req.number, req.success, n, b.priorityOps, s.priorityOps)
  BY <1>1, <1>2, <1>4, RowsFill DEF n
<1>6. s.txs \in TxTables /\ s.priorityOps \in PriorityTables
  BY <1>5 DEF Tables
<1> DEFINE u == s.txs
<1> HIDE DEF u
<1>7. /\ f \in TxTables
      /\ DOMAIN u \subseteq DOMAIN f
      /\ \A x \in DOMAIN u : f[x] = u[x]
      /\ \A x \in DOMAIN f \ DOMAIN u :
            f[x] = FailedRow(req.number) /\ \E k \in 1 .. Len(req.failed) : req.failed[k] = x
      /\ \A k \in 1 .. Len(req.failed) : req.failed[k] \in DOMAIN f
  BY <1>1, <1>6, FailuresFill DEF u
<1>8. TxsFilled(req.number, req.success, n, execTxs, u)
  BY <1>2, <1>5 DEF u
<1> HIDE DEF f
<1>9. \A x \in DOMAIN execTxs : x \in DOMAIN f
  BY <1>7, <1>8 DEF TxsFilled
<1>10. \A x : HasTx(req.success, n, x) => x \in DOMAIN f
  BY <1>7, <1>8 DEF TxsFilled
<1>11. \A x \in DOMAIN f :
          \/ /\ HasTx(req.success, n, x)
             /\ WroteTx(req.number, req.success, n, x, f[x])
          \/ /\ ~ HasTx(req.success, n, x)
             /\ x \in DOMAIN execTxs /\ f[x] = execTxs[x]
          \/ /\ ~ HasTx(req.success, n, x)
             /\ x \notin DOMAIN execTxs /\ f[x] = FailedRow(req.number)
             /\ \E k \in 1 .. Len(req.failed) : req.failed[k] = x
  <2> TAKE x \in DOMAIN f
  <2>1. CASE HasTx(req.success, n, x)
    BY <1>7, <1>8, <2>1 DEF TxsFilled
  <2>2. CASE ~ HasTx(req.success, n, x) /\ x \in DOMAIN execTxs
    BY <1>7, <1>8, <2>2 DEF TxsFilled
  <2>3. CASE ~ HasTx(req.success, n, x) /\ x \notin DOMAIN execTxs
    BY <1>7, <1>8, <2>3 DEF TxsFilled
  <2> QED BY <2>1, <2>2, <2>3
<1>12. mempoolRows' \subseteq Seq(AllTxs)
  BY <1>3, RemainingTyped
<1>13. IdsFilled(req.number, req.success, n, execPriorityOps, execPriorityOps')
  BY <1>2, <1>3, <1>5
<1>14. execTxs' = f
  BY <1>3
<1> QED BY <1>3, <1>6, <1>7, <1>9, <1>10, <1>11, <1>12, <1>13, <1>14 DEF n

-----------------------------------------------------------------------------
(* The values of the keeper and of the tables *)

\* The keeper: the accounts and the pending block.
KeeperOK ==
  /\ accounts \in Ledgers /\ success \in Seq(Ops) /\ failed \in Seq(AllTxs)
  /\ updates \in Seq(Updates) /\ fees \in Seq(Nat)
  /\ {"index", "stored"} \subseteq DOMAIN pending
  /\ pending.index \in Nat /\ pending.stored \in Nat

\* What it has to do.
WorkOK ==
  /\ miniBlock \in [priorityOps : Seq(Ids), txs : Seq(Seq(AllTxs))]
  /\ restore \in [ops : Seq(Ops), failed : Seq(AllTxs)]
  /\ ready \subseteq Seq(AllTxs)
  /\ commitQ \in Seq(Requests)

BlockRows == [before : Nat, after : Nat, root : Ledgers]
UpdateTables == UNION {[D -> Seq([order : Nat, update : Updates])] : D \in SUBSET Nat}

\* The database.
TablesOK ==
  /\ blocks \in Seq(BlockRows) /\ sealed \in Lines /\ Len(sealed) = Len(blocks)
  /\ execTxs \in TxTables /\ execPriorityOps \in PriorityTables
  /\ stateUpdates \in UpdateTables
  /\ mempoolRows \subseteq Seq(AllTxs)

DataOK == KeeperOK /\ WorkOK /\ TablesOK

\* There are finitely many priority operations.
LEMMA IdsFinite == IsFiniteSet(Ids) /\ Ids \subseteq Nat
<1>1. Len(PriorityOps) \in Nat
  BY BoundsAssumption, LenProperties
<1>2. 0 \in Int /\ Len(PriorityOps) - 1 \in Int
  BY <1>1
<1> QED BY <1>2, FS_Interval DEF Ids

\* The program starts with data that fits.
LEMMA InitDataOK == Init => DataOK
<1> SUFFICES ASSUME Init PROVE DataOK
  OBVIOUS
<1>1. \A S : <<>> \in Seq(S)
  BY EmptySeq
<1>2. Len(<<>>) = 0 /\ DOMAIN <<>> = {}
  BY EmptyIsSeq
<1>3. KeeperOK
  BY <1>1, GenesisFits DEF Init, KeeperOK, NewPending
<1>4. WorkOK
  BY <1>1 DEF Init, WorkOK, NoMiniBlock, NothingToRestore
<1>5. <<>> \in TxTables
  <2>1. <<>> \in [{} -> TxRows]
    BY <1>2
  <2> QED BY <1>2, <2>1, FS_EmptySet, TxTableFacts
<1>6. <<>> \in PriorityTables
  <2>1. <<>> \in [{} -> PriorityRows]
    BY <1>2
  <2> QED BY <1>2, <2>1, PriorityTableFacts
<1>7. <<>> \in UpdateTables
  <2>1. <<>> \in [{} -> Seq([order : Nat, update : Updates])] /\ {} \in SUBSET Nat
    BY <1>2
  <2> QED BY <2>1 DEF UpdateTables
<1>8. TablesOK
  BY <1>1, <1>2, <1>5, <1>6, <1>7 DEF Init, TablesOK, Lines
<1> QED BY <1>3, <1>4, <1>8 DEF DataOK

-----------------------------------------------------------------------------
(* What the keeper loads *)

\* The operations that have a row under a block, in the order of their indexes.
LEMMA LoadedTyped ==
  ASSUME TablesOK, NEW number \in Nat
  PROVE  /\ StoredTxs(number) \cup StoredPriorityOps(number) \subseteq Ops
         /\ IsFiniteSet(StoredTxs(number) \cup StoredPriorityOps(number))
         /\ LoadedOps(number) \in Seq(Ops) /\ LoadedFailures(number) \in Seq(AllTxs)
<1> DEFINE D == {x \in DOMAIN execTxs : execTxs[x].block = number /\ execTxs[x].success}
           E == {x \in DOMAIN execPriorityOps : execPriorityOps[x].block = number}
           F == {t \in DOMAIN execTxs : execTxs[t].block = number /\ ~execTxs[t].success}
           S == StoredTxs(number)
           P == StoredPriorityOps(number)
<1>1. /\ execTxs \in [DOMAIN execTxs -> TxRows] /\ DOMAIN execTxs \subseteq AllTxs
      /\ IsFiniteSet(DOMAIN execTxs)
  BY TxTableFacts DEF TablesOK
<1>2. /\ execPriorityOps \in [DOMAIN execPriorityOps -> PriorityRows]
      /\ DOMAIN execPriorityOps \subseteq Ids
      /\ \A id \in DOMAIN execPriorityOps : execPriorityOps[id].op = PriorityOps[id + 1].kind
  BY PriorityTableFacts DEF TablesOK
<1>3. IsFiniteSet(D) /\ IsFiniteSet(E) /\ IsFiniteSet(F)
  <2>1. IsFiniteSet(DOMAIN execPriorityOps)
    BY <1>2, IdsFinite, FS_Subset
  <2>2. D \in SUBSET DOMAIN execTxs /\ F \in SUBSET DOMAIN execTxs
        /\ E \in SUBSET DOMAIN execPriorityOps
    OBVIOUS
  <2> HIDE DEF D, E, F
  <2> QED BY <1>1, <2>1, <2>2, FS_Subset
<1>4. S = {TxOp(t, execTxs[t].op, execTxs[t].index) : t \in D}
      /\ P = {PriorityOp(n, execPriorityOps[n].op, execPriorityOps[n].index) : n \in E}
  BY DEF StoredTxs, StoredPriorityOps
<1>5. \A t \in D : TxOp(t, execTxs[t].op, execTxs[t].index) \in Ops
  <2> TAKE t \in D
  <2>1. execTxs[t] \in TxRows /\ t \in AllTxs /\ execTxs[t].success
    BY <1>1
  <2>2. execTxs[t].op \in OpNames /\ execTxs[t].index \in Nat
    BY <2>1, TxRowFacts
  <2> QED BY <2>1, <2>2 DEF Ops, TxOps
<1>6. \A n \in E : PriorityOp(n, execPriorityOps[n].op, execPriorityOps[n].index) \in Ops
  <2> TAKE n \in E
  <2>1. execPriorityOps[n] \in PriorityRows /\ n \in Ids
        /\ execPriorityOps[n].op = PriorityOps[n + 1].kind
    BY <1>2
  <2>2. execPriorityOps[n].index \in Nat
    BY <2>1 DEF PriorityRows
  <2> QED BY <2>1, <2>2 DEF Ops, PriorityOpsDone
<1> HIDE DEF D, E, S, P
<1>7. IsFiniteSet(S)
  <2> DEFINE f == [t \in D |-> TxOp(t, execTxs[t].op, execTxs[t].index)]
  <2>1. f \in Surjection(D, S)
    BY <1>4 DEF Surjection
  <2> HIDE DEF f
  <2> QED BY <1>3, <2>1, FS_Surjection
<1>8. IsFiniteSet(P)
  <2> DEFINE f == [n \in E |-> PriorityOp(n, execPriorityOps[n].op, execPriorityOps[n].index)]
  <2>1. f \in Surjection(E, P)
    BY <1>4 DEF Surjection
  <2> HIDE DEF f
  <2> QED BY <1>3, <2>1, FS_Surjection
<1>9. IsFiniteSet(S \cup P)
  BY <1>7, <1>8, FS_Union
<1>10. S \cup P \subseteq Ops
  BY <1>4, <1>5, <1>6
<1>11. LoadedFailures(number) \in Seq(AllTxs)
  <2>1. SetToSeq(F) \in Seq(F) /\ F \subseteq AllTxs
    BY <1>1, <1>3, SetListed
  <2>2. LoadedFailures(number) = SetToSeq(F)
    BY DEF LoadedFailures
  <2> HIDE DEF F
  <2> QED BY <2>1, <2>2, SeqMonotonic
<1> DEFINE rows == SetToSeq(S \cup P)
           keys == [k \in DOMAIN rows |-> rows[k].index]
<1>12. rows \in Seq(S \cup P)
  BY <1>9, SetListed
<1>13. rows \in Seq(Ops) /\ LoadedOps(number) = SortedBy(rows, keys)
  <2>1. LoadedOps(number) = SortedBy(rows, keys)
    BY Zenon DEF LoadedOps, ByIndex, S, P
  <2> HIDE DEF rows
  <2> QED BY <1>10, <1>12, <2>1, SeqMonotonic
<1> HIDE DEF rows
<1>14. keys \in [DOMAIN rows -> Int]
  <2>1. \A k \in DOMAIN rows : rows[k] \in Ops
    BY <1>13, LenProperties, ElementOfSeq
  <2>2. \A k \in DOMAIN rows : rows[k].index \in Int
    BY <2>1, OpFacts
  <2> QED BY <2>2
<1> HIDE DEF keys
<1>15. LoadedOps(number) \in Seq(Ops)
  BY <1>13, <1>14, SortGives
<1> QED BY <1>9, <1>10, <1>11, <1>15 DEF S, P

\* The pending block of the restart.
LEMMA PendingTyped ==
  ASSUME TablesOK, NEW last \in Nat
  PROVE  LoadPending(last) \in [ops : Seq(Ops), failed : Seq(AllTxs)]
<1>1. last + 1 \in Nat
  OBVIOUS
<1>2. LoadedOps(last + 1) \in Seq(Ops) /\ LoadedFailures(last + 1) \in Seq(AllTxs)
  BY <1>1, LoadedTyped
<1>3. <<>> \in Seq(Ops) /\ <<>> \in Seq(AllTxs)
  BY EmptySeq
<1> QED BY <1>2, <1>3 DEF LoadPending, NothingToRestore

-----------------------------------------------------------------------------
(* What the keeper's steps do *)

Here == Point(accounts, updates, currentPriorityOp)

\* What the point of the keeper is made of.
LEMMA HereFacts ==
  ASSUME IInv, KeeperOK
  PROVE  /\ Here \in Points /\ Here.ledger = accounts /\ Here.updates = updates
         /\ Here.next = currentPriorityOp
<1>1. accounts \in Ledgers /\ updates \in Seq(Updates) /\ currentPriorityOp \in Nat
  BY DEF IInv, ControlTypeOK, KeeperOK
<1> QED BY <1>1, PointFacts DEF Here

\* The operations ops come into the pending block.
Grows(ops) ==
  /\ ops \in Seq(Ops) /\ success' = success \o ops
  /\ \E us : updates' = updates \o us /\ Leads(accounts, us, accounts')
  /\ Used(accounts', ops) /\ Unused(accounts, ops) /\ OnceIn(ops)

\* A transaction or a batch is executed.
LEMMA TxsRun ==
  ASSUME IInv, KeeperOK, NEW txs \in Seq(AllTxs), ApplyTxs(txs)
  PROVE  /\ KeeperOK'
         /\ DOMAIN pending' = DOMAIN pending /\ pending'.stored = pending.stored
         /\ UNCHANGED <<blockNumber, currentPriorityOp>>
         /\ \E ops : /\ Runs(Here, ops, Here') /\ success' = success \o ops /\ Grows(ops)
                     /\ ops = OpsOf(txs, ExecuteBatch(accounts, txs).results, pending.index)
                     /\ \/ ExecuteBatch(accounts, txs).results = <<>>
                           /\ ops = <<>> /\ failed' = failed \o txs
                           /\ pending'.index = pending.index
                        \/ /\ Len(ops) = Len(txs) /\ pending'.index = pending.index + Len(ops)
                           /\ failed' = failed \/ txs = <<>>
<1> DEFINE run == ExecuteBatch(accounts, txs)
           rs == run.results
           ops == OpsOf(txs, rs, pending.index)
           us == FlattenSeq(UpdatesOf(rs))
           fs == FeesOf(rs)
           y == Point(run.ledger, updates \o us, currentPriorityOp)
<1>0. /\ Here \in Points /\ Here.ledger = accounts /\ Here.updates = updates
      /\ Here.next = currentPriorityOp
  BY HereFacts
<1>1. /\ accounts' = run.ledger
      /\ success' = success \o ops
      /\ updates' = updates \o us
      /\ fees' = fees \o fs
      /\ failed' = IF rs = <<>> THEN failed \o txs ELSE failed
      /\ UNCHANGED <<blockNumber, currentPriorityOp>>
  BY Zenon DEF ApplyTxs, Record, OpsOf, UpdatesOf, FeesOf
<1>2. /\ DOMAIN pending' = DOMAIN pending /\ pending'.stored = pending.stored
      /\ pending'.index = pending.index + Len(rs)
  <2>1. \E chunks : Count(txs, rs, chunks)
    BY DEF ApplyTxs
  <2> HIDE DEF rs
  <2> QED BY <2>1 DEF Count, KeeperOK
<1>3. /\ Runs(Here, ops, y)
      /\ run.ledger \in Ledgers /\ us \in Seq(Updates) /\ fs \in Seq(Nat)
      /\ \/ rs = <<>> /\ ops = <<>>
         \/ Len(rs) = Len(txs) /\ Len(ops) = Len(txs)
  <2>1. pending.index \in Nat
    BY DEF KeeperOK
  <2> QED BY <1>0, <2>1, BatchRuns
<1>4. Len(<<>>) = 0 /\ Len(txs) \in Nat
  BY EmptySeq, LenProperties
<1> HIDE DEF run, rs, ops, us, fs
<1>5. Here' = y
  BY <1>1 DEF Here, y
<1>6. ops \in Seq(Ops) /\ Past(Here, Here')
      /\ Used(Here'.ledger, ops) /\ Unused(Here.ledger, ops) /\ OnceIn(ops)
  BY <1>3, <1>5, RunFacts
<1>7. KeeperOK'
  <2>1. accounts' \in Ledgers
    BY <1>1, <1>3
  <2>2. success' \in Seq(Ops)
    BY <1>1, <1>6, ConcatProperties DEF KeeperOK
  <2>3. updates' \in Seq(Updates)
    BY <1>1, <1>3, ConcatProperties DEF KeeperOK
  <2>4. fees' \in Seq(Nat)
    BY <1>1, <1>3, ConcatProperties DEF KeeperOK
  <2>5. failed' \in Seq(AllTxs)
    <3>1. failed \in Seq(AllTxs) /\ failed \o txs \in Seq(AllTxs)
      BY ConcatProperties DEF KeeperOK
    <3> QED BY <1>1, <3>1
  <2>6. pending'.index \in Nat
    BY <1>2, <1>3, <1>4 DEF KeeperOK
  <2> QED BY <1>2, <2>1, <2>2, <2>3, <2>4, <2>5, <2>6 DEF KeeperOK
<1>8. Here'.ledger = accounts' /\ Here'.updates = updates \o us
  <2> DEFINE ws == updates \o us
  <2>1. run.ledger \in Ledgers /\ ws \in Seq(Updates) /\ currentPriorityOp \in Nat
    BY <1>3, ConcatProperties DEF KeeperOK, IInv, ControlTypeOK
  <2>2. Here' = Point(run.ledger, ws, currentPriorityOp)
    BY <1>5
  <2> HIDE DEF ws
  <2>3. Here'.ledger = run.ledger /\ Here'.updates = ws
    BY <2>1, <2>2, PointFacts
  <2> QED BY <1>1, <2>3 DEF ws
<1>9. Grows(ops)
  <2>1. Leads(accounts, us, accounts')
    <3>1. PICK vs : Here'.updates = Here.updates \o vs /\ Leads(Here.ledger, vs, Here'.ledger)
      BY <1>6 DEF Past
    <3>2. Here'.updates = updates \o us
      BY <1>8
    <3>3. updates \o us = updates \o vs
      BY <1>0, <3>1, <3>2
    <3>4. vs \in Seq(Updates) /\ updates \in Seq(Updates)
      BY <3>1 DEF Leads, KeeperOK
    <3>5. us = vs
      BY <1>3, <3>3, <3>4, ConcatSimplifications
    <3> QED BY <1>0, <1>8, <3>1, <3>5
  <2>2. Used(accounts', ops) /\ Unused(accounts, ops)
    BY <1>0, <1>6, <1>8
  <2> QED BY <1>1, <1>6, <2>1, <2>2 DEF Grows
<1>10. Runs(Here, ops, Here')
  BY <1>3, <1>5
<1>11. \/ rs = <<>> /\ ops = <<>> /\ failed' = failed \o txs /\ pending'.index = pending.index
       \/ /\ Len(ops) = Len(txs) /\ pending'.index = pending.index + Len(ops)
          /\ failed' = failed \/ txs = <<>>
  <2>1. CASE rs = <<>> /\ ops = <<>>
    BY <1>1, <1>2, <1>4, <2>1 DEF KeeperOK
  <2>2. CASE Len(rs) = Len(txs) /\ Len(ops) = Len(txs)
    <3>1. rs = <<>> => txs = <<>>
      <4>1. Len(txs) = 0 => txs = <<>>
        BY EmptySeq
      <4> QED BY <1>4, <2>2, <4>1
    <3>2. rs # <<>> => failed' = failed
      BY <1>1
    <3> QED BY <1>2, <2>2, <3>1, <3>2
  <2> QED BY <1>3, <2>1, <2>2
<1> QED BY <1>1, <1>2, <1>7, <1>9, <1>10, <1>11 DEF ops, rs, run

\* A priority operation is executed.
LEMMA PriorityRun ==
  ASSUME IInv, KeeperOK, NEW id \in Ids, ApplyPriorityOp(id)
  PROVE  /\ KeeperOK'
         /\ DOMAIN pending' = DOMAIN pending /\ pending'.stored = pending.stored
         /\ pending'.index = pending.index + 1
         /\ UNCHANGED <<blockNumber, failed>> /\ currentPriorityOp' = currentPriorityOp + 1
         /\ LET op == PriorityOp(id, PriorityOps[id + 1].kind, pending.index)
            IN  /\ op \in Ops /\ Grows(<<op>>)
                /\ id = currentPriorityOp => Runs(Here, <<op>>, Here')
<1> DEFINE op == PriorityOp(id, PriorityOps[id + 1].kind, pending.index)
           r == ExecutePriorityOp(accounts, PriorityOps[id + 1])
           us == r.updates
           ws == updates \o us
<1>0. /\ Here \in Points /\ Here.ledger = accounts /\ Here.updates = updates
      /\ Here.next = currentPriorityOp
  BY HereFacts
<1>1. /\ accounts' = r.ledger
      /\ success' = Append(success, op)
      /\ updates' = ws
      /\ currentPriorityOp' = currentPriorityOp + 1
      /\ UNCHANGED <<failed, fees, blockNumber>>
  BY Zenon DEF ApplyPriorityOp
<1>2. /\ DOMAIN pending' = DOMAIN pending /\ pending'.stored = pending.stored
      /\ pending'.index = pending.index + 1
  BY DEF ApplyPriorityOp, KeeperOK
<1>3. Leads(accounts, us, r.ledger)
  <2>1. id + 1 \in DOMAIN PriorityOps /\ accounts \in Ledgers
    <3>1. PriorityOps \in Seq(Range(PriorityOps))
      BY BoundsAssumption
    <3>2. Len(PriorityOps) \in Nat /\ DOMAIN PriorityOps = 1 .. Len(PriorityOps)
      BY <3>1, LenProperties
    <3> QED BY <3>2 DEF Ids, KeeperOK
  <2> QED BY <2>1, PriorityLeads
<1>4. op \in Ops /\ op.type = "priority" /\ op.id = id
  BY DEF Ops, PriorityOpsDone, PriorityOp, KeeperOK
<1>5. us \in Seq(Updates) /\ r.ledger \in Ledgers /\ ws \in Seq(Updates)
  BY <1>3, ConcatProperties DEF Leads, KeeperOK
<1>6. Here' = Point(r.ledger, ws, currentPriorityOp + 1)
  BY <1>1 DEF Here
<1>7. id = currentPriorityOp => Goes(Here, op, Here')
  <2>1. op.type # "tx"
    BY <1>4
  <2> QED BY <1>0, <1>4, <1>6, <2>1 DEF Goes, PriorityGoes
<1> HIDE DEF op, r, us, ws
<1>8. KeeperOK'
  <2>1. success' \in Seq(Ops)
    BY <1>1, <1>4, AppendProperties DEF KeeperOK
  <2> QED BY <1>1, <1>2, <1>5, <2>1 DEF KeeperOK
<1>9. Len(<<op>>) = 1 /\ <<op>> \in Seq(Ops) /\ <<op>>[1] = op /\ DOMAIN <<op>> = {1}
  BY <1>4
<1>10. TxsOf(<<op>>) = {}
  BY <1>4, <1>9 DEF TxsOf
<1>11. success' = success \o <<op>>
  <2>1. success \in Seq(Ops)
    BY DEF KeeperOK
  <2> QED BY <1>1, <1>4, <2>1, AppendIsConcat
<1>12. Grows(<<op>>)
  <2>1. updates' = updates \o us /\ Leads(accounts, us, accounts')
    BY <1>1, <1>3 DEF ws
  <2> QED BY <1>9, <1>10, <1>11, <2>1 DEF Grows, Used, Unused, OnceIn
<1>13. id = currentPriorityOp => Runs(Here, <<op>>, Here')
  BY <1>0, <1>4, <1>7, RunsOne
<1> QED BY <1>1, <1>2, <1>4, <1>8, <1>12, <1>13 DEF op

\* The part of the updates that is not stored yet.
LEMMA ToStoreTyped ==
  ASSUME KeeperOK, NEW all \in Seq(Updates)
  PROVE  UpdatesToStore(all) \in ToStore
<1>1. Len(all) \in Nat /\ pending.stored \in Nat
  BY LenProperties DEF KeeperOK
<1>2. SubSeq(all, pending.stored + 1, Len(all)) \in Seq(Updates)
  BY <1>1, SubSeqProperties
<1> QED BY <1>1, <1>2 DEF UpdatesToStore, ToStore

\* The request a sealed block becomes.
SealedRequest(all) ==
  [type |-> "Block", number |-> blockNumber,
   before |-> pending.before, after |-> currentPriorityOp,
   success |-> success, failed |-> failed, root |-> accounts',
   toStore |-> UpdatesToStore(all)]

\* The request for the pending block.
OpenRequest ==
  [type |-> "PendingBlock", number |-> blockNumber,
   success |-> success, failed |-> failed, toStore |-> UpdatesToStore(updates)]

\* PendingBlock::new
LEMMA FreshTyped ==
  ASSUME NEW before, FreshPending(before), accounts' \in Ledgers
  PROVE  /\ KeeperOK' /\ success' = <<>> /\ updates' = <<>> /\ failed' = <<>>
         /\ pending'.index = 0 /\ pending'.stored = 0 /\ pending'.before = before
<1>1. \A S : <<>> \in Seq(S)
  BY EmptySeq
<1> QED BY <1>1 DEF FreshPending, NewPending, KeeperOK

\* The keeper seals the block.
LEMMA SealGives ==
  ASSUME IInv, DataOK, Seal
  PROVE  /\ KeeperOK' /\ success' = <<>> /\ updates' = <<>> /\ failed' = <<>>
         /\ pending'.index = 0 /\ pending'.stored = 0 /\ pending'.before = currentPriorityOp
         /\ \E us : /\ Leads(accounts, us, accounts')
                    /\ commitQ' = Append(commitQ, SealedRequest(updates \o us))
                    /\ SealedRequest(updates \o us) \in BlockRequests
         /\ commitQ' \in Seq(Requests)
         /\ currentPriorityOp' = currentPriorityOp /\ blockNumber' = blockNumber + 1
<1> DEFINE c == CollectFees(accounts, fees)
           us == c.updates
           all == updates \o us
<1>1. Leads(accounts, us, c.ledger)
  BY FeesLead DEF DataOK, KeeperOK
<1>2. /\ accounts' = c.ledger /\ FreshPending(currentPriorityOp)
      /\ commitQ' = Append(commitQ, SealedRequest(all))
      /\ currentPriorityOp' = currentPriorityOp /\ blockNumber' = blockNumber + 1
  BY Zenon DEF Seal, SealedRequest
<1> HIDE DEF c
<1>3. all \in Seq(Updates) /\ c.ledger \in Ledgers
  BY <1>1, ConcatProperties DEF Leads, DataOK, KeeperOK
<1>4. UpdatesToStore(all) \in ToStore
  BY <1>3, ToStoreTyped DEF DataOK
<1>5. SealedRequest(all) \in BlockRequests
  BY <1>2, <1>3, <1>4 DEF SealedRequest, BlockRequests, DataOK, KeeperOK, IInv, ControlTypeOK
<1>6. commitQ' \in Seq(Requests)
  <2>1. SealedRequest(all) \in Requests
    BY <1>5 DEF Requests
  <2> QED BY <1>2, <2>1, AppendProperties DEF DataOK, WorkOK
<1>7. accounts' \in Ledgers
  BY <1>2, <1>3
<1>8. /\ KeeperOK' /\ success' = <<>> /\ updates' = <<>> /\ failed' = <<>>
      /\ pending'.index = 0 /\ pending'.stored = 0 /\ pending'.before = currentPriorityOp
  BY <1>2, <1>7, FreshTyped
<1> QED BY <1>1, <1>2, <1>5, <1>6, <1>8

\* The keeper stores the pending block.
LEMMA StoreGives ==
  ASSUME IInv, DataOK, NEW iteration, StorePending(iteration)
  PROVE  /\ KeeperOK' /\ OpenRequest \in PendingRequests
         /\ commitQ' = Append(commitQ, OpenRequest) /\ commitQ' \in Seq(Requests)
         /\ DOMAIN pending' = DOMAIN pending
         /\ pending'.index = pending.index /\ pending'.stored = Len(updates)
<1>1. commitQ' = Append(commitQ, OpenRequest)
  BY Zenon DEF StorePending, OpenRequest
<1>2. OpenRequest \in PendingRequests
  BY ToStoreTyped
  DEF OpenRequest, PendingRequests, DataOK, KeeperOK, IInv, ControlTypeOK
<1>3. commitQ' \in Seq(Requests)
  <2>1. OpenRequest \in Requests
    BY <1>2 DEF Requests
  <2> QED BY <1>1, <2>1, AppendProperties DEF DataOK, WorkOK
<1>4. /\ DOMAIN pending' = DOMAIN pending /\ pending'.index = pending.index
      /\ pending'.stored = Len(updates)
  BY DEF StorePending, DataOK, KeeperOK
<1>5. KeeperOK'
  <2>1. Len(updates) \in Nat
    BY LenProperties DEF DataOK, KeeperOK
  <2> QED BY <1>4, <2>1 DEF StorePending, DataOK, KeeperOK
<1> QED BY <1>1, <1>2, <1>3, <1>4, <1>5

\* The memory is lost.
LEMMA StopData ==
  ASSUME Stop
  PROVE  KeeperOK' /\ WorkOK' /\ success' = <<>> /\ commitQ' = <<>>
<1>1. accounts' \in Ledgers /\ FreshPending(0)
  BY GenesisFits DEF Stop
<1>2. KeeperOK' /\ success' = <<>>
  BY <1>1, FreshTyped
<1>3. \A S : <<>> \in Seq(S)
  BY EmptySeq
<1> QED BY <1>2, <1>3 DEF Stop, WorkOK, NoMiniBlock, NothingToRestore

-----------------------------------------------------------------------------
(* The tables of account updates *)

UpdateRowSet == [order : Nat, update : Updates]

\* What the table of the updates is made of.
LEMMA UpdateTableFacts ==
  ASSUME NEW f
  PROVE  f \in UpdateTables <=> f \in [DOMAIN f -> Seq(UpdateRowSet)] /\ DOMAIN f \subseteq Nat
BY DEF UpdateTables, UpdateRowSet

\* The rows stored for a block are rows of updates.
LEMMA StoredForTyped ==
  ASSUME TablesOK
  PROVE  \A n : StoredFor(n) \in Seq(UpdateRowSet)
<1>1. stateUpdates \in [DOMAIN stateUpdates -> Seq(UpdateRowSet)]
  BY UpdateTableFacts DEF TablesOK
<1>2. <<>> \in Seq(UpdateRowSet)
  BY EmptySeq
<1> QED BY <1>1, <1>2 DEF StoredFor

\* The rows of a request are as many as its updates.
LEMMA UpdateRowsTyped ==
  ASSUME NEW t \in ToStore
  PROVE  UpdateRows(t) \in Seq(UpdateRowSet) /\ Len(UpdateRows(t)) = Len(t.updates)
<1> DEFINE us == t.updates
           n == Len(us)
           rows == UpdateRows(t)
<1>1. us \in Seq(Updates) /\ t.first \in Nat /\ n \in Nat /\ DOMAIN us = 1 .. n
  BY LenProperties DEF ToStore
<1>2. rows = [k \in 1 .. n |-> [order |-> t.first + k - 1, update |-> us[k]]]
  BY <1>1 DEF UpdateRows
<1>3. \A k \in 1 .. n : us[k] \in Updates
  BY <1>1, ElementOfSeq
<1> HIDE DEF us, n, rows
<1>4. rows \in [1 .. n -> UpdateRowSet]
  BY <1>1, <1>2, <1>3 DEF UpdateRowSet
<1>5. rows \in Seq(UpdateRowSet) /\ Len(rows) = n
  BY <1>1, <1>4, ListIsSeq
<1> QED BY <1>5 DEF rows, us, n

\* The updates of a request come behind those of its block.
LEMMA UpdatesFill ==
  ASSUME TablesOK, NEW req \in Requests, CommitStateUpdate(req)
  PROVE  /\ stateUpdates' \in UpdateTables
         /\ DOMAIN stateUpdates' = DOMAIN stateUpdates \cup {req.number}
         /\ \A n : StoredFor(n)' = IF n = req.number THEN StoredFor(n) \o UpdateRows(req.toStore)
                                   ELSE StoredFor(n)
<1> DEFINE new == StoredFor(req.number) \o UpdateRows(req.toStore)
<1>1. stateUpdates \in [DOMAIN stateUpdates -> Seq(UpdateRowSet)] /\ DOMAIN stateUpdates \subseteq Nat
  BY UpdateTableFacts DEF TablesOK
<1>2. req.number \in Nat /\ req.toStore \in ToStore
  BY DEF Requests, BlockRequests, PendingRequests
<1>3. new \in Seq(UpdateRowSet)
  BY <1>2, StoredForTyped, UpdateRowsTyped, ConcatProperties
<1>4. stateUpdates' = [n \in DOMAIN stateUpdates \cup {req.number} |->
                        IF n = req.number THEN new ELSE stateUpdates[n]]
  BY DEF CommitStateUpdate
<1> HIDE DEF new
<1>5. /\ stateUpdates' \in [DOMAIN stateUpdates' -> Seq(UpdateRowSet)]
      /\ DOMAIN stateUpdates' \subseteq Nat
  BY <1>1, <1>2, <1>3, <1>4
<1>6. stateUpdates' \in UpdateTables
  BY <1>5, UpdateTableFacts
<1>7. DOMAIN stateUpdates' = DOMAIN stateUpdates \cup {req.number}
  BY <1>4
<1>8. ASSUME NEW n
      PROVE  StoredFor(n)' = IF n = req.number THEN new ELSE StoredFor(n)
  <2>1. StoredFor(n)' = IF n \in DOMAIN stateUpdates' THEN stateUpdates'[n] ELSE <<>>
    BY DEF StoredFor
  <2> QED BY <1>4, <2>1 DEF StoredFor
<1> QED BY <1>6, <1>7, <1>8 DEF new

\* Storing a request keeps the types of the tables.
LEMMA SaveTyped ==
  ASSUME TablesOK, NEW req \in Requests, SaveTransactions(req), CommitStateUpdate(req)
  PROVE  /\ execTxs' \in TxTables /\ execPriorityOps' \in PriorityTables
         /\ stateUpdates' \in UpdateTables /\ mempoolRows' \subseteq Seq(AllTxs)
<1>1. stateUpdates' \in UpdateTables
  BY UpdatesFill
<1>2. /\ execTxs' \in TxTables /\ execPriorityOps' \in PriorityTables
      /\ mempoolRows' \subseteq Seq(AllTxs)
  BY SaveFills DEF TablesOK
<1> QED BY <1>1, <1>2

-----------------------------------------------------------------------------
(* The types are kept *)

\* Tables that stay fit.
LEMMA SameTables ==
  ASSUME TablesOK, UNCHANGED database
  PROVE  TablesOK'
BY DEF TablesOK, database

\* A panic leaves data that fits.
LEMMA PanicData ==
  ASSUME DataOK, Panic
  PROVE  DataOK'
<1>1. Stop /\ UNCHANGED database
  BY DEF Panic
<1> QED BY <1>1, StopData, SameTables DEF DataOK

\* Sealing before the retry leaves data that fits.
LEMMA SealAndRetryData ==
  ASSUME IInv, DataOK, SealAndRetry
  PROVE  DataOK'
<1>1. CASE Panic
  BY <1>1, PanicData
<1>2. CASE Seal /\ UNCHANGED <<mode, miniBlock, restore, ready,
                              database, known, submitted, crashes, wentBack>>
  <2>1. KeeperOK' /\ commitQ' \in Seq(Requests)
    BY <1>2, SealGives
  <2>2. WorkOK'
    BY <1>2, <2>1 DEF DataOK, WorkOK
  <2>3. TablesOK'
    BY <1>2, SameTables DEF DataOK
  <2> QED BY <2>1, <2>2, <2>3 DEF DataOK
<1> QED BY <1>1, <1>2 DEF SealAndRetry

\* A priority operation executed leaves data that fits.
LEMMA ExecutePriorityData ==
  ASSUME IInv, DataOK, ExecutePriority
  PROVE  DataOK'
<1> DEFINE ids == miniBlock.priorityOps
           id == Head(ids)
<1>1. ids # <<>> /\ ids \in Seq(Ids)
  BY DEF ExecutePriority, DataOK, WorkOK
<1>2. id \in Ids /\ Tail(ids) \in Seq(Ids)
  BY <1>1, HeadTailProperties
<1>3. CASE /\ ApplyPriorityOp(id)
           /\ miniBlock' = [miniBlock EXCEPT !.priorityOps = Tail(@)]
           /\ UNCHANGED <<restore, commitQ, ready, database>>
  <2>1. KeeperOK'
    <3> HIDE DEF id
    <3> QED BY <1>2, <1>3, PriorityRun DEF DataOK
  <2>2. WorkOK'
    BY <1>2, <1>3 DEF DataOK, WorkOK
  <2>3. TablesOK'
    BY <1>3, SameTables DEF DataOK
  <2> QED BY <2>1, <2>2, <2>3 DEF DataOK
<1>4. CASE SealAndRetry
  BY <1>4, SealAndRetryData
<1> QED BY <1>3, <1>4 DEF ExecutePriority

\* Transactions executed leave data that fits.
LEMMA ExecuteTxsData ==
  ASSUME IInv, DataOK, ExecuteTxs
  PROVE  DataOK'
<1> DEFINE all == miniBlock.txs
           txs == Head(all)
<1>1. all # <<>> /\ all \in Seq(Seq(AllTxs))
  BY DEF ExecuteTxs, DataOK, WorkOK
<1>2. txs \in Seq(AllTxs) /\ Tail(all) \in Seq(Seq(AllTxs))
  BY <1>1, HeadTailProperties
<1>3. CASE /\ ApplyTxs(txs)
           /\ miniBlock' = [miniBlock EXCEPT !.txs = Tail(@)]
           /\ UNCHANGED <<restore, commitQ, ready, database>>
  <2>1. KeeperOK'
    <3> HIDE DEF txs
    <3> QED BY <1>2, <1>3, TxsRun DEF DataOK
  <2>2. WorkOK'
    BY <1>2, <1>3 DEF DataOK, WorkOK
  <2>3. TablesOK'
    BY <1>3, SameTables DEF DataOK
  <2> QED BY <2>1, <2>2, <2>3 DEF DataOK
<1>4. CASE SealAndRetry
  BY <1>4, SealAndRetryData
<1> QED BY <1>3, <1>4 DEF ExecuteTxs

\* The end of a mini-block leaves data that fits.
LEMMA FinishData ==
  ASSUME IInv, DataOK, FinishMiniBlock
  PROVE  DataOK'
<1>1. CASE Panic
  BY <1>1, PanicData
<1>2. CASE /\ Seal \/ StorePending(NextIteration)
           /\ UNCHANGED <<miniBlock, restore, ready, database>>
  <2>1. KeeperOK' /\ commitQ' \in Seq(Requests)
    BY <1>2, SealGives, StoreGives
  <2>2. WorkOK'
    BY <1>2, <2>1 DEF DataOK, WorkOK
  <2>3. TablesOK'
    BY <1>2, SameTables DEF DataOK
  <2> QED BY <2>1, <2>2, <2>3 DEF DataOK
<1> QED BY <1>1, <1>2 DEF FinishMiniBlock

\* The head of the channel is taken.
LEMMA HeadRequest ==
  ASSUME DataOK, commitQ # <<>>
  PROVE  Head(commitQ) \in Requests /\ Tail(commitQ) \in Seq(Requests)
BY HeadTailProperties DEF DataOK, WorkOK

\* A pending block stored leaves data that fits.
LEMMA SavePendingBlockData ==
  ASSUME DataOK, SavePendingBlock
  PROVE  DataOK'
<1> DEFINE req == Head(commitQ)
<1>1. /\ SaveTransactions(req) /\ CommitStateUpdate(req)
      /\ commitQ' = Tail(commitQ) /\ commitQ # <<>>
      /\ UNCHANGED <<Memory, ready, blocks, verified, sealed>>
  BY DEF SavePendingBlock
<1>2. req \in Requests /\ commitQ' \in Seq(Requests)
  BY <1>1, HeadRequest
<1> HIDE DEF req
<1>3. TablesOK'
  BY <1>1, <1>2, SaveTyped DEF DataOK, TablesOK
<1>4. KeeperOK' /\ WorkOK'
  BY <1>1, <1>2 DEF DataOK, KeeperOK, WorkOK, Memory
<1> QED BY <1>3, <1>4 DEF DataOK

\* A block committed leaves data that fits.
LEMMA CommitBlockData ==
  ASSUME DataOK, CommitBlock
  PROVE  DataOK'
<1> DEFINE req == Head(commitQ)
           row == [before |-> req.before, after |-> req.after, root |-> req.root]
<1>1. CASE Panic
  BY <1>1, PanicData
<1>2. CASE /\ req.type = "Block" /\ commitQ # <<>>
           /\ SaveTransactions(req) /\ CommitStateUpdate(req)
           /\ blocks' = Append(blocks, row)
           /\ sealed' = Append(sealed, req.success)
           /\ commitQ' = Tail(commitQ)
           /\ UNCHANGED <<Memory, ready, verified>>
  <2>1. req \in Requests /\ commitQ' \in Seq(Requests)
    BY <1>2, HeadRequest
  <2> HIDE DEF req
  <2>2. row \in BlockRows /\ req.success \in Seq(Ops)
    BY <1>2, <2>1, RequestFacts DEF BlockRows
  <2> HIDE DEF row
  <2>3. /\ blocks' \in Seq(BlockRows) /\ sealed' \in Lines
        /\ Len(blocks') = Len(blocks) + 1 /\ Len(sealed') = Len(sealed) + 1
    BY <1>2, <2>2, AppendProperties DEF DataOK, TablesOK, Lines
  <2>4. TablesOK'
    BY <1>2, <2>1, <2>3, SaveTyped DEF DataOK, TablesOK
  <2>5. KeeperOK' /\ WorkOK'
    BY <1>2, <2>1 DEF DataOK, KeeperOK, WorkOK, Memory
  <2> QED BY <2>4, <2>5 DEF DataOK
<1> QED BY <1>1, <1>2 DEF CommitBlock

\* The accounts after block n.
RootAt(n) == IF n = 0 THEN Genesis ELSE blocks[n].root

\* The block the restart goes on from.
LEMMA LastUpdatedIsBlock ==
  ASSUME IInv, TablesOK
  PROVE  LastUpdated \in 0 .. Len(blocks) /\ Len(blocks) \in Nat
<1> DEFINE updated == {n \in verified + 1 .. Len(blocks) : StoredFor(n) # <<>>}
<1>1. Len(blocks) \in Nat /\ verified \in 0 .. Len(blocks)
  BY LenProperties DEF IInv, ControlTypeOK, TablesOK
<1>2. updated \subseteq 0 .. Len(blocks)
  BY <1>1
<1>3. updated # {} => Max(updated) \in updated
  BY <1>1, <1>2, MaxIsMember
<1> QED BY <1>1, <1>2, <1>3 DEF LastUpdated

\* The root of a block is a ledger.
LEMMA RootTyped ==
  ASSUME TablesOK, NEW n \in 0 .. Len(blocks)
  PROVE  RootAt(n) \in Ledgers
<1>1. n # 0 => blocks[n] \in BlockRows
  BY ElementOfSeq, LenProperties DEF TablesOK
<1> QED BY <1>1, GenesisFits DEF RootAt, BlockRows

\* Before the first block are the accounts of genesis.
LEMMA StateAtGenesis == StateAfter(0) = Genesis
<1>1. [n \in 1 .. 0 |-> LoadedUpdates(n)] = <<>>
  OBVIOUS
<1>2. FlattenSeq([n \in 1 .. 0 |-> LoadedUpdates(n)]) = <<>>
  BY <1>1, NoResults, Zenon
<1>3. ApplyUpdates(Genesis, <<>>) = Genesis
  BY GenesisFits, LeadsNot, LeadsApply
<1> QED BY <1>2, <1>3, Zenon DEF StateAfter

\* The keeper starts from the accounts of a block.
LEMMA RestartGives ==
  ASSUME IInv, DataOK, Restart
  PROVE  /\ accounts' = RootAt(LastUpdated) /\ currentPriorityOp' = UnprocessedPriorityOp(LastUpdated)
         /\ blockNumber' = LastUpdated + 1
         /\ KeeperOK' /\ success' = <<>> /\ updates' = <<>> /\ failed' = <<>>
         /\ pending'.index = 0 /\ pending'.stored = 0
         /\ mempoolRows' \subseteq mempoolRows
<1>1. LastUpdated \in 0 .. Len(blocks)
  BY LastUpdatedIsBlock DEF DataOK
<1>2. /\ accounts' = StateAfter(LastUpdated)
      /\ LastUpdated # 0 => blocks[LastUpdated].root = StateAfter(LastUpdated)
      /\ FreshPending(UnprocessedPriorityOp(LastUpdated))
      /\ currentPriorityOp' = UnprocessedPriorityOp(LastUpdated)
      /\ blockNumber' = LastUpdated + 1
      /\ mempoolRows' \subseteq mempoolRows
  <2>1. RestartSucceeds
    BY DEF Restart
  <2>2. LastUpdated # 0 => blocks[LastUpdated].root = StateAfter(LastUpdated)
    BY <2>1, Zenon DEF RestartSucceeds
  <2> QED BY <2>2 DEF Restart
<1>3. accounts' = RootAt(LastUpdated)
  BY <1>2, StateAtGenesis DEF RootAt
<1>4. accounts' \in Ledgers
  BY <1>1, <1>3, RootTyped DEF DataOK
<1>5. /\ KeeperOK' /\ success' = <<>> /\ updates' = <<>> /\ failed' = <<>>
      /\ pending'.index = 0 /\ pending'.stored = 0
  BY <1>2, <1>4, FreshTyped
<1> QED BY <1>2, <1>3, <1>5

\* A restart leaves data that fits.
LEMMA RestartData ==
  ASSUME IInv, DataOK, Restart
  PROVE  DataOK'
<1>1. KeeperOK' /\ mempoolRows' \subseteq mempoolRows
  BY RestartGives
<1>2. LastUpdated \in Nat
  BY LastUpdatedIsBlock DEF DataOK
<1>3. /\ restore' = LoadPending(LastUpdated) /\ ready' = mempoolRows'
      /\ UNCHANGED <<miniBlock, commitQ, blocks, execTxs, execPriorityOps, stateUpdates, sealed>>
  BY DEF Restart
<1>4. restore' \in [ops : Seq(Ops), failed : Seq(AllTxs)]
  BY <1>2, <1>3, PendingTyped DEF DataOK
<1>5. WorkOK' /\ TablesOK'
  BY <1>1, <1>3, <1>4 DEF DataOK, WorkOK, TablesOK
<1> QED BY <1>1, <1>5 DEF DataOK

\* One stored operation is executed again.
LEMMA RestoreOpCases ==
  ASSUME IInv, DataOK, RestoreOp
  PROVE  /\ mode = "restoring" /\ restore.ops # <<>> /\ restore.ops \in Seq(Ops)
         /\ Head(restore.ops) \in Ops /\ Tail(restore.ops) \in Seq(Ops)
         /\ \/ Panic
            \/ /\ \/ /\ Head(restore.ops).type = "tx" /\ ApplyTxs(<<Head(restore.ops).tx>>)
                     /\ <<Head(restore.ops).tx>> \in Seq(AllTxs)
                  \/ /\ Head(restore.ops).type # "tx" /\ Head(restore.ops).id \in Ids
                     /\ ApplyPriorityOp(Head(restore.ops).id)
               /\ restore' = [restore EXCEPT !.ops = Tail(@)]
               /\ UNCHANGED <<mode, miniBlock, commitQ, ready, database, known, submitted, crashes, wentBack>>
<1> DEFINE op == Head(restore.ops)
<1>1. mode = "restoring" /\ restore.ops # <<>> /\ restore.ops \in Seq(Ops)
  BY DEF RestoreOp, DataOK, WorkOK
<1>2. op \in Ops /\ Tail(restore.ops) \in Seq(Ops)
  BY <1>1, HeadTailProperties
<1>3. \/ Panic
      \/ /\ IF op.type = "tx" THEN ApplyTxs(<<op.tx>>) ELSE ApplyPriorityOp(op.id)
         /\ restore' = [restore EXCEPT !.ops = Tail(@)]
         /\ UNCHANGED <<mode, miniBlock, commitQ, ready, database, known, submitted, crashes, wentBack>>
  BY Zenon DEF RestoreOp
<1> HIDE DEF op
<1>4. /\ op.type = "tx" => op.tx \in AllTxs
      /\ op.type # "tx" => op.id \in Ids
  BY <1>2, OpFacts
<1>5. op.type = "tx" => <<op.tx>> \in Seq(AllTxs)
  BY <1>4
<1> QED BY <1>1, <1>2, <1>3, <1>4, <1>5 DEF op

\* A re-executed operation leaves data that fits.
LEMMA RestoreOpData ==
  ASSUME IInv, DataOK, RestoreOp
  PROVE  DataOK'
<1>1. CASE Panic
  BY <1>1, PanicData
<1>2. CASE /\ \/ \E txs \in Seq(AllTxs) : ApplyTxs(txs)
              \/ \E id \in Ids : ApplyPriorityOp(id)
           /\ restore' = [restore EXCEPT !.ops = Tail(@)] /\ Tail(restore.ops) \in Seq(Ops)
           /\ UNCHANGED <<miniBlock, commitQ, ready, database>>
  <2>1. KeeperOK'
    BY <1>2, TxsRun, PriorityRun DEF DataOK
  <2>2. WorkOK'
    BY <1>2 DEF DataOK, WorkOK
  <2>3. TablesOK'
    BY <1>2, SameTables DEF DataOK
  <2> QED BY <2>1, <2>2, <2>3 DEF DataOK
<1> QED BY <1>1, <1>2, RestoreOpCases

\* The end of the re-execution leaves data that fits.
LEMMA FinishRestoreData ==
  ASSUME DataOK, FinishRestore
  PROVE  DataOK' /\ pending'.index = pending.index /\ pending'.stored = Len(updates)
<1>1. /\ failed' = restore.failed /\ restore' = NothingToRestore
      /\ UNCHANGED <<accounts, success, updates, fees, miniBlock, commitQ, ready, database>>
      /\ pending' = [pending EXCEPT !.stored = Len(updates)]
  BY DEF FinishRestore
<1>2. Len(updates) \in Nat /\ \A S : <<>> \in Seq(S)
  BY EmptySeq, LenProperties DEF DataOK, KeeperOK
<1>3. {"index", "stored"} \subseteq DOMAIN pending'
      /\ pending'.index = pending.index /\ pending'.stored = Len(updates)
  BY <1>1 DEF DataOK, KeeperOK
<1>4. failed' \in Seq(AllTxs)
  BY <1>1 DEF DataOK, WorkOK
<1>5. KeeperOK'
  BY <1>1, <1>2, <1>3, <1>4 DEF DataOK, KeeperOK
<1>6. WorkOK'
  BY <1>1, <1>2 DEF DataOK, WorkOK, NothingToRestore
<1> QED BY <1>1, <1>3, <1>5, <1>6, SameTables DEF DataOK

\* The reported operations that are not processed yet, from the next one on.
LEMMA NextPriorityOpsAre ==
  ASSUME IInv
  PROVE  /\ NextPriorityOps \in Seq(Ids)
         /\ \A k \in 1 .. Len(NextPriorityOps) : NextPriorityOps[k] = currentPriorityOp + k - 1
<1> DEFINE left == known - currentPriorityOp
           n == Min({left, MaxPriorityOps})
           s == NextPriorityOps
<1>1. /\ left \in Int /\ MaxPriorityOps \in Nat /\ currentPriorityOp \in Nat
      /\ known <= Len(PriorityOps) /\ Len(PriorityOps) \in Nat /\ known \in Nat
  <2>1. Len(PriorityOps) \in Nat
    BY BoundsAssumption, LenProperties
  <2> QED BY <2>1, BoundsAssumption DEF IInv, ControlTypeOK
<1>2. n \in Int /\ n <= left
  <2>1. \E m \in {left, MaxPriorityOps} : \A y \in {left, MaxPriorityOps} : m <= y
    BY <1>1
  <2>2. n \in {left, MaxPriorityOps} /\ \A y \in {left, MaxPriorityOps} : n <= y
    BY <2>1 DEF Min
  <2> QED BY <1>1, <2>2
<1>3. s = [k \in 1 .. n |-> currentPriorityOp + k - 1]
  BY DEF NextPriorityOps
<1> HIDE DEF n, s
<1> DEFINE m == IF n >= 0 THEN n ELSE 0
<1>4. m \in Nat /\ 1 .. n = 1 .. m /\ (m <= n \/ m = 0)
  BY <1>2
<1>5. s \in [1 .. m -> Ids]
  <2>1. \A k \in 1 .. m : currentPriorityOp + k - 1 \in Ids
    BY <1>1, <1>2, <1>4 DEF Ids
  <2> QED BY <1>3, <1>4, <2>1
<1>6. m \in Nat
  BY <1>2
<1> HIDE DEF m
<1>7. s \in Seq(Ids) /\ Len(s) = m
  BY <1>5, <1>6, ListIsSeq
<1>8. \A k \in 1 .. m : s[k] = currentPriorityOp + k - 1
  BY <1>3, <1>4
<1> QED BY <1>7, <1>8 DEF s

\* What the proposer takes from the mempool.
LEMMA ProposalIsSeq ==
  ASSUME DataOK, NEW txs \in Proposals
  PROVE  txs \in Seq(Seq(AllTxs))
<1>1. PICK m \in 0 .. MaxTxs : txs \in [1 .. m -> ready]
  BY DEF Proposals, BoundedSeq, SeqOf
<1>2. m \in Nat
  BY BoundsAssumption
<1>3. txs \in [1 .. m -> Seq(AllTxs)]
  BY <1>1 DEF DataOK, WorkOK
<1> QED BY <1>2, <1>3, ListIsSeq

\* A proposal leaves data that fits.
LEMMA ProposeData ==
  ASSUME IInv, DataOK, Propose
  PROVE  DataOK'
<1>1. PICK txs \in Proposals : ProposeMiniBlock(txs)
  BY DEF Propose
<1>2. txs \in Seq(Seq(AllTxs))
  BY ProposalIsSeq
<1>3. /\ miniBlock' = [priorityOps |-> NextPriorityOps, txs |-> txs]
      /\ ready' \subseteq ready
      /\ UNCHANGED <<accounts, success, failed, updates, fees, pending, restore, commitQ, database>>
  BY <1>1 DEF ProposeMiniBlock
<1>4. KeeperOK'
  BY <1>3 DEF DataOK, KeeperOK
<1>5. WorkOK'
  BY <1>2, <1>3, NextPriorityOpsAre DEF DataOK, WorkOK
<1>6. TablesOK'
  BY <1>3, SameTables DEF DataOK
<1> QED BY <1>4, <1>5, <1>6 DEF DataOK

\* A submission leaves data that fits.
LEMMA SubmitData ==
  ASSUME DataOK, NEW v \in Variants, Submit(v)
  PROVE  DataOK'
<1>1. v \in Seq(AllTxs)
  BY VariantFits
<1>2. /\ mempoolRows' = mempoolRows \cup {v} /\ ready' = ready \cup {v}
      /\ UNCHANGED <<Memory, commitQ, blocks, execTxs, execPriorityOps, stateUpdates, sealed>>
  BY DEF Submit
<1> QED BY <1>1, <1>2 DEF DataOK, KeeperOK, WorkOK, TablesOK, Memory

\* Every step of the server and of its environment keeps the types.
LEMMA NextData ==
  ASSUME IInv, DataOK, [Next]_vars
  PROVE  DataOK'
<1>1. CASE UNCHANGED <<process, blocks, execTxs, execPriorityOps, stateUpdates, mempoolRows, sealed>>
  BY <1>1 DEF process, DataOK, KeeperOK, WorkOK, TablesOK
<1>2. CASE Crash
  BY <1>2, StopData, SameTables DEF Crash, DataOK
<1>3. CASE VerifyBlock
  BY <1>1, <1>3 DEF VerifyBlock
<1>4. CASE ReportPriorityOp
  BY <1>1, <1>4 DEF ReportPriorityOp, database
<1>5. CASE UNCHANGED vars
  BY <1>1, <1>5 DEF vars, database
<1>6. CASE \E v \in Variants : Submit(v)
  BY <1>6, SubmitData
<1> QED BY <1>2, <1>3, <1>4, <1>5, <1>6, ProposeData, ExecutePriorityData, ExecuteTxsData,
           FinishData, SavePendingBlockData, CommitBlockData, RestartData, RestoreOpData,
           FinishRestoreData
        DEF Next, Keeper, Committer, Recovery, Environment

\* The keeper's and the tables' data always fit (the fields of ZkSyncStateKeeper,
\* state_keeper/mod.rs:95, and the columns of the tables).
THEOREM DataFits == Spec => []DataOK
<1>1. Init => DataOK
  BY InitDataOK
<1>2. IInv /\ DataOK /\ [Next]_vars => DataOK'
  BY NextData
<1> QED BY <1>1, <1>2, Inductive, PTL DEF Spec

-----------------------------------------------------------------------------
(* Room in the open block *)

\* Operations that have a size, the padding and the failures apart.
SizedOps(ops) == ops \in Seq(Ops) /\ \A k \in 1 .. Len(ops) : ops[k].op \in Sized

\* The three sums over a sequence.
LEMMA SumsUnfold ==
  /\ \A ops : ChunksUsed(ops) = SumFunction([k \in DOMAIN ops |-> Chunks[ops[k].op]])
  /\ \A l, txs : ChunksNeeded(l, txs) = SumFunction([k \in DOMAIN txs |-> Chunks[PlannedOp(l, txs[k])]])
  /\ \A l, txs : GasNeeded(l, txs)
       = SumFunction([k \in DOMAIN txs |->
                        IF Convertible(l, txs[k]) THEN Gas[PlannedOp(l, txs[k])] ELSE 0])
BY Zenon DEF ChunksUsed, ChunksNeeded, GasNeeded, SumOf

\* The operations of a block use so many chunks.
LEMMA UsedTyped ==
  ASSUME NEW ops, SizedOps(ops)
  PROVE  ChunksUsed(ops) \in Nat
<1> DEFINE f == [k \in DOMAIN ops |-> Chunks[ops[k].op]]
<1>1. DOMAIN ops = 1 .. Len(ops) /\ Len(ops) \in Nat
  BY LenProperties DEF SizedOps
<1>2. f \in [1 .. Len(ops) -> Nat]
  BY <1>1, SizesAssumption DEF SizedOps
<1>3. IsFiniteSet(1 .. Len(ops))
  BY <1>1, FS_Interval
<1>4. ChunksUsed(ops) = SumFunction(f)
  BY SumsUnfold
<1> HIDE DEF f
<1>5. SumFunction(f) \in Nat
  BY <1>2, <1>3, SumIsNat
<1> QED BY <1>4, <1>5, Zenon

\* Operations joined use what both use (Block::chunks_used, block.rs:234).
LEMMA UsedJoins ==
  ASSUME NEW a, NEW b, SizedOps(a), SizedOps(b)
  PROVE  SizedOps(a \o b) /\ ChunksUsed(a \o b) = ChunksUsed(a) + ChunksUsed(b)
<1> DEFINE n == Len(a)
           m == Len(b)
           c == a \o b
           f == [k \in DOMAIN a |-> Chunks[a[k].op]]
           g == [k \in DOMAIN b |-> Chunks[b[k].op]]
           h == [k \in DOMAIN c |-> Chunks[c[k].op]]
<1>1. a \in Seq(Ops) /\ b \in Seq(Ops)
  BY DEF SizedOps
<1>2. /\ n \in Nat /\ m \in Nat /\ c \in Seq(Ops) /\ Len(c) = n + m
      /\ DOMAIN a = 1 .. n /\ DOMAIN b = 1 .. m /\ DOMAIN c = 1 .. n + m
      /\ \A k \in 1 .. n + m : c[k] = IF k <= n THEN a[k] ELSE b[k - n]
  BY <1>1, LenProperties, ConcatProperties
<1>3. /\ \A k \in 1 .. n : a[k].op \in Sized
      /\ \A k \in 1 .. m : b[k].op \in Sized
  BY DEF SizedOps
<1> HIDE DEF n, m, c
<1>4. \A k \in 1 .. n + m : c[k].op \in Sized
  BY <1>2, <1>3
<1>5. AreJoined(f, n, g, m, h)
  <2>1. f \in [1 .. n -> Int] /\ g \in [1 .. m -> Int] /\ h \in [1 .. n + m -> Int]
    BY <1>2, <1>3, <1>4, SizesAssumption
  <2>2. \A k \in 1 .. n + m : h[k] = IF k <= n THEN f[k] ELSE g[k - n]
    <3> TAKE k \in 1 .. n + m
    <3>1. CASE k <= n
      BY <1>2, <3>1
    <3>2. CASE ~ (k <= n)
      <4>1. k - n \in 1 .. m
        BY <1>2, <3>2
      <4> QED BY <1>2, <3>2, <4>1
    <3> QED BY <3>1, <3>2
  <2> HIDE DEF f, g, h
  <2> QED BY <1>2, <2>1, <2>2 DEF AreJoined
<1>6. ChunksUsed(a) = SumFunction(f) /\ ChunksUsed(b) = SumFunction(g)
      /\ ChunksUsed(c) = SumFunction(h)
  BY SumsUnfold
<1> HIDE DEF f, g, h
<1>7. SumFunction(h) = SumFunction(f) + SumFunction(g)
  BY <1>5, SumOfJoined
<1>8. SizedOps(c)
  BY <1>2, <1>4 DEF SizedOps
<1> QED BY <1>6, <1>7, <1>8, Zenon DEF c

\* One operation uses its chunks, and none uses none.
LEMMA UsedFew ==
  /\ SizedOps(<<>>) /\ ChunksUsed(<<>>) = 0
  /\ \A o \in Ops : o.op \in Sized => SizedOps(<<o>>) /\ ChunksUsed(<<o>>) = Chunks[o.op]
<1>1. SizedOps(<<>>) /\ ChunksUsed(<<>>) = 0
  <2>1. <<>> \in Seq(Ops) /\ Len(<<>>) = 0 /\ DOMAIN <<>> = {}
    BY EmptyIsSeq, EmptySeq
  <2>2. ChunksUsed(<<>>) = SumFunction([k \in DOMAIN <<>> |-> Chunks[<<>>[k].op]])
    BY SumsUnfold, Zenon
  <2>3. SizedOps(<<>>)
    BY <2>1 DEF SizedOps
  <2> QED BY <2>1, <2>2, <2>3, SumOfNone
<1>2. ASSUME NEW o \in Ops, o.op \in Sized
      PROVE  SizedOps(<<o>>) /\ ChunksUsed(<<o>>) = Chunks[o.op]
  <2> DEFINE s == <<o>>
             f == [k \in DOMAIN s |-> Chunks[s[k].op]]
  <2>1. s \in Seq(Ops) /\ Len(s) = 1 /\ DOMAIN s = 1 .. 1 /\ s[1] = o
    OBVIOUS
  <2> HIDE DEF s
  <2>2. f \in [1 .. 1 -> Nat] /\ f[1] = Chunks[o.op]
    BY <1>2, <2>1, SizesAssumption
  <2>3. ChunksUsed(s) = SumFunction(f)
    BY SumsUnfold
  <2> HIDE DEF f
  <2>4. SumFunction(f) = f[1]
    BY <2>2, SumOfHead
  <2>5. SizedOps(s)
    BY <1>2, <2>1 DEF SizedOps
  <2> QED BY <2>2, <2>3, <2>4, <2>5, Zenon DEF s
<1> QED BY <1>1, <1>2

\* A transaction that succeeds becomes the operation that chunks_for_tx names
\* (state.rs:103).
LEMMA PlannedName ==
  ASSUME NEW l, NEW tx \in AllTxs
  PROVE  PlannedOp(l, tx) \in Sized /\ (ExecuteTx(l, tx).ok => ExecuteTx(l, tx).op = PlannedOp(l, tx))
<1> DEFINE o == CreateOp(l, tx)
           r == ApplyOp(l, o)
<1>1. tx.kind \in {"Transfer", "Withdraw", "ChangePubKey", "ForcedExit", "Close"}
  BY StateAssumptions, State!TxFacts DEF AllTxs
<1>2. PlannedOp(l, tx) \in Sized
  BY <1>1 DEF PlannedOp, TransferName, Sized
<1>3. ASSUME Convertible(l, tx), r.ok
      PROVE  r.op = PlannedOp(l, tx)
  <2>1. tx.kind # "Close"
    BY <1>3 DEF Convertible
  <2>2. CASE tx.kind = "Transfer"
    <3>1. o.op = TransferName(l, tx.to) /\ o.op \in {"Transfer", "TransferToNew"}
      BY <2>2 DEF CreateOp, CreateTransfer, Noop, TransferName
    <3> HIDE DEF o
    <3>2. r = Transfer(l, o)
      BY <3>1 DEF ApplyOp
    <3>3. r.op = o.op
      BY <1>3, <3>2 DEF Transfer, TransferToSelf, Failure, Success
    <3> QED BY <2>2, <3>1, <3>3 DEF PlannedOp
  <2>3. CASE tx.kind = "Withdraw"
    <3>1. o.op = "Withdraw"
      BY <2>3 DEF CreateOp, CreateWithdraw, Noop
    <3> HIDE DEF o
    <3>2. r = Withdraw(l, o)
      BY <3>1 DEF ApplyOp
    <3> QED BY <1>3, <2>3, <3>2 DEF Withdraw, Failure, Success, PlannedOp
  <2>4. CASE tx.kind = "ChangePubKey"
    <3>1. o.op = "ChangePubKey"
      BY <2>4 DEF CreateOp, CreateChangePubKey, Noop
    <3> HIDE DEF o
    <3>2. r = ChangePubKey(l, o)
      BY <3>1 DEF ApplyOp
    <3> QED BY <1>3, <2>4, <3>2 DEF ChangePubKey, Failure, Success, PlannedOp
  <2>5. CASE tx.kind = "ForcedExit"
    <3>1. o.op = "ForcedExit"
      BY <2>5 DEF CreateOp, CreateForcedExit, Noop
    <3> HIDE DEF o
    <3>2. r = ForcedExit(l, o)
      BY <3>1 DEF ApplyOp
    <3> QED BY <1>3, <2>5, <3>2 DEF ForcedExit, Failure, Success, PlannedOp
  <2> QED BY <1>1, <2>1, <2>2, <2>3, <2>4, <2>5
<1> HIDE DEF r, o
<1>4. ExecuteTx(l, tx) = IF Convertible(l, tx) THEN r ELSE Failure(l)
  BY Zenon DEF ExecuteTx, r, o
<1>5. Failure(l).ok = FALSE
  BY DEF Failure
<1> QED BY <1>2, <1>3, <1>4, <1>5

\* An account that is there stays there: what is executed later is planned no smaller.
LEMMA PlannedShrinks ==
  ASSUME NEW l, NEW m, State!Grows(l, m), NEW tx \in AllTxs
  PROVE  Chunks[PlannedOp(m, tx)] <= Chunks[PlannedOp(l, tx)]
<1>1. Holder(m, tx.to) = {} => Holder(l, tx.to) = {}
  BY DEF State!Grows, Holder
<1>2. PlannedOp(m, tx) \in Sized /\ PlannedOp(l, tx) \in Sized
  BY PlannedName
<1>3. \/ PlannedOp(m, tx) = PlannedOp(l, tx)
      \/ PlannedOp(m, tx) = "Transfer" /\ PlannedOp(l, tx) = "TransferToNew"
  BY <1>1 DEF PlannedOp, TransferName
<1>4. \A op \in Sized : Chunks[op] \in Nat
  BY SizesAssumption
<1> QED BY <1>2, <1>3, <1>4, SizesAssumption

\* What transactions need of a block are numbers.
LEMMA NeededTyped ==
  ASSUME NEW l, NEW txs \in Seq(AllTxs)
  PROVE  ChunksNeeded(l, txs) \in Nat /\ GasNeeded(l, txs) \in Nat /\ Withdrawals(txs) \in Nat
<1> DEFINE n == Len(txs)
           f == [k \in DOMAIN txs |-> Chunks[PlannedOp(l, txs[k])]]
           g == [k \in DOMAIN txs |-> IF Convertible(l, txs[k]) THEN Gas[PlannedOp(l, txs[k])] ELSE 0]
<1>1. DOMAIN txs = 1 .. n /\ n \in Nat /\ \A k \in 1 .. n : txs[k] \in AllTxs
  BY LenProperties, ElementOfSeq
<1>2. \A k \in 1 .. n : PlannedOp(l, txs[k]) \in Sized
  BY <1>1, PlannedName
<1>3. \A op \in Sized : Chunks[op] \in Nat /\ Gas[op] \in Nat
  BY SizesAssumption
<1>4. f \in [1 .. n -> Nat] /\ g \in [1 .. n -> Nat]
  BY <1>1, <1>2, <1>3
<1>5. IsFiniteSet(1 .. n)
  BY <1>1, FS_Interval
<1>6. ChunksNeeded(l, txs) = SumFunction(f) /\ GasNeeded(l, txs) = SumFunction(g)
  BY SumsUnfold
<1> HIDE DEF f, g
<1>7. SumFunction(f) \in Nat /\ SumFunction(g) \in Nat
  BY <1>4, <1>5, SumIsNat
<1>8. Withdrawals(txs) \in Nat
  <2>1. {k \in DOMAIN txs : txs[k].kind = "Withdraw"} \subseteq 1 .. n
    BY <1>1
  <2>2. IsFiniteSet({k \in DOMAIN txs : txs[k].kind = "Withdraw"})
    BY <1>5, <2>1, FS_Subset
  <2> QED BY <2>2, FS_CardinalityType DEF Withdrawals
<1> QED BY <1>6, <1>7, <1>8, Zenon

\* No transaction of a batch takes more than was planned for it before the batch
\* (chunks_for_batch, state.rs:112).
LEMMA BatchTakes ==
  ASSUME NEW l \in Ledgers, NEW txs \in Seq(AllTxs), NEW run, NEW p, IsExecution(p, l, txs, run),
         NEW from \in Nat
  PROVE  LET ops == OpsOf(txs, run.results, from)
         IN  SizedOps(ops) /\ ChunksUsed(ops) <= ChunksNeeded(l, txs)
<1> DEFINE n == Len(txs)
           rs == run.results
           ops == OpsOf(txs, rs, from)
           f == [k \in DOMAIN ops |-> Chunks[ops[k].op]]
           g == [k \in DOMAIN txs |-> Chunks[PlannedOp(l, txs[k])]]
<1>1. DOMAIN txs = 1 .. n /\ n \in Nat /\ \A k \in 1 .. n : txs[k] \in AllTxs
  BY LenProperties, ElementOfSeq
<1>2. /\ p \in [0 .. n -> Ledgers] /\ p[0] = l /\ DOMAIN rs = 1 .. n
      /\ \A k \in 1 .. n : /\ rs[k] = ExecuteTx(p[k - 1], txs[k])
                           /\ rs[k].ok /\ p[k] = rs[k].ledger
  BY DEF IsExecution
<1>3. ops \in Seq(Ops) /\ Len(ops) = n
  <2>0. PICK us \in Seq(Updates) : us = <<>>
    BY EmptySeq
  <2> DEFINE x == Point(l, us, 0)
  <2>1. x \in Points /\ x.ledger = l
    BY PointFacts
  <2> HIDE DEF x, rs
  <2> QED BY <2>1, ExecutionRuns DEF rs
<1>4. DOMAIN ops = 1 .. n /\ \A k \in 1 .. n : ops[k].op = rs[k].op
  BY <1>2 DEF OpsOf, TxOp
<1> HIDE DEF n, rs, ops
<1>5. \A k \in 0 .. n : State!Grows(l, p[k])
  <2> DEFINE T == {k \in 0 .. n : State!Grows(l, p[k])}
  <2>1. 0 \in T
    <3>1. State!Grows(l, l)
      BY LeadsNot DEF Leads
    <3> QED BY <1>1, <1>2, <3>1
  <2>2. ASSUME NEW k \in 1 .. n, k - 1 \in T
        PROVE  k \in T
    <3>1. p[k - 1] \in Ledgers /\ p[k] \in Ledgers /\ txs[k] \in AllTxs /\ k \in 0 .. n
      BY <1>1, <1>2
    <3>2. State!Grows(p[k - 1], p[k])
      BY <1>2, <3>1, TxLeads DEF Leads
    <3>3. State!Grows(l, p[k - 1])
      BY <2>2
    <3>4. State!Grows(l, p[k])
      BY <3>1, <3>2, <3>3, StateAssumptions, State!GrowsOn DEF Ledgers
    <3> QED BY <3>1, <3>4
  <2>3. 0 .. n \subseteq T
    <3> HIDE DEF T
    <3> QED BY <1>1, <2>1, <2>2, AlongInterval
  <2> QED BY <2>3
<1>6. \A k \in 1 .. n : /\ ops[k].op \in Sized /\ PlannedOp(l, txs[k]) \in Sized
                        /\ Chunks[ops[k].op] <= Chunks[PlannedOp(l, txs[k])]
  <2> TAKE k \in 1 .. n
  <2>1. txs[k] \in AllTxs /\ State!Grows(l, p[k - 1])
    BY <1>1, <1>5
  <2>2. ops[k].op = PlannedOp(p[k - 1], txs[k])
    BY <1>2, <1>4, <2>1, PlannedName
  <2>3. PlannedOp(p[k - 1], txs[k]) \in Sized /\ PlannedOp(l, txs[k]) \in Sized
    BY <2>1, PlannedName
  <2>4. Chunks[PlannedOp(p[k - 1], txs[k])] <= Chunks[PlannedOp(l, txs[k])]
    BY <2>1, PlannedShrinks
  <2> QED BY <2>2, <2>3, <2>4
<1>7. \A op \in Sized : Chunks[op] \in Nat
  BY SizesAssumption
<1>8. /\ f \in [1 .. n -> Nat] /\ g \in [1 .. n -> Nat] /\ \A k \in 1 .. n : f[k] <= g[k]
  BY <1>1, <1>4, <1>6, <1>7
<1>9. IsFiniteSet(1 .. n)
  BY <1>1, FS_Interval
<1>10. ChunksUsed(ops) = SumFunction(f) /\ ChunksNeeded(l, txs) = SumFunction(g)
  BY SumsUnfold
<1> HIDE DEF f, g
<1>11. SumFunction(f) <= SumFunction(g)
  BY <1>8, <1>9, SumIsLarger
<1>12. SizedOps(ops)
  BY <1>3, <1>6 DEF SizedOps
<1> QED BY <1>10, <1>11, <1>12 DEF ops, rs

\* A batch takes nothing, or no more than was planned.
LEMMA ExecutionTakes ==
  ASSUME NEW l \in Ledgers, NEW txs \in Seq(AllTxs), NEW from \in Nat
  PROVE  LET rs == ExecuteBatch(l, txs).results
             ops == OpsOf(txs, rs, from)
         IN  /\ SizedOps(ops)
             /\ \/ Len(rs) = 0 /\ ChunksUsed(ops) = 0
                \/ Len(rs) = Len(txs) /\ ChunksUsed(ops) <= ChunksNeeded(l, txs)
<1> DEFINE run == ExecuteBatch(l, txs)
           ops == OpsOf(txs, run.results, from)
<1>1. CASE run.results = <<>>
  <2>1. ops = <<>> /\ Len(run.results) = 0
    BY <1>1, NoResults, EmptySeq
  <2> QED BY <2>1, UsedFew
<1>2. CASE \E p : IsExecution(p, l, txs, run)
  <2> HIDE DEF run
  <2>1. PICK p : IsExecution(p, l, txs, run)
    BY <1>2
  <2>2. Len(run.results) = Len(txs)
    BY <2>1 DEF IsExecution
  <2>3. SizedOps(ops) /\ ChunksUsed(ops) <= ChunksNeeded(l, txs)
    BY <2>1, BatchTakes
  <2> QED BY <2>2, <2>3 DEF run
<1> QED BY <1>1, <1>2, BatchLeads

-----------------------------------------------------------------------------
(* The steps that fill the open block *)

OpenBlocks ==
  [chunksLeft : Nat, index : Nat, before : Nat, iteration : Nat,
   withdrawals : Nat, gas : Nat, fast : BOOLEAN, stored : Nat]

\* What is in the block and the chunks that are left make no more than a block.
RoomInv ==
  /\ SizedOps(success) /\ pending \in OpenBlocks
  /\ ChunksUsed(success) + pending.chunksLeft <= MaxBlockSize

\* The size of the largest block
LEMMA SizeTyped == MaxBlockSize \in Nat
<1>1. Len(BlockSizes) \in 1 .. Len(BlockSizes)
  BY BlockSizesAssumption, LenProperties, EmptySeq
<1> QED BY <1>1, BlockSizesAssumption, ElementOfSeq DEF MaxBlockSize

\* An open block without operations has all its room.
LEMMA FreshRoom ==
  ASSUME NEW before \in Nat
  PROVE  /\ NewPending(before) \in OpenBlocks /\ NewPending(before).chunksLeft = MaxBlockSize
<1>1. Gas["Base"] \in Nat
  BY SizesAssumption
<1> QED BY <1>1, SizeTyped DEF NewPending, OpenBlocks

\* So has the block the keeper opens (PendingBlock::new).
LEMMA FreshHasRoom ==
  ASSUME NEW before \in Nat, FreshPending(before)
  PROVE  RoomInv'
<1>1. success' = <<>> /\ pending' = NewPending(before)
  BY DEF FreshPending
<1>2. SizedOps(<<>>) /\ ChunksUsed(<<>>) = 0
  BY UsedFew
<1>3. NewPending(before) \in OpenBlocks /\ NewPending(before).chunksLeft = MaxBlockSize
  BY FreshRoom
<1>4. SizedOps(success') /\ ChunksUsed(success') = 0
  BY <1>1, <1>2, Zenon
<1>5. pending' \in OpenBlocks /\ pending'.chunksLeft = MaxBlockSize
  BY <1>1, <1>3, Zenon
<1> QED BY <1>4, <1>5, SizeTyped DEF RoomInv

\* What is taken n times is there once, unless n is zero.
LEMMA TakeTwice ==
  ASSUME NEW n \in Nat, NEW c \in Nat
  PROVE  n * c \in Nat /\ 0 * c = 0 /\ (n # 0 => c <= n * c)
<1>1. CASE n = 0
  BY <1>1
<1>2. CASE n # 0
  <2>1. PICK m \in Nat : n = m + 1
    <3>1. n - 1 \in Nat /\ n = (n - 1) + 1
      BY <1>2
    <3> QED BY <3>1
  <2>2. m * c \in Nat
    OBVIOUS
  <2>3. n * c = m * c + c
    BY <2>1
  <2> QED BY <2>2, <2>3
<1> QED BY <1>1, <1>2

\* Transactions are executed: the counter goes down by no less than they use.
LEMMA TxsRoom ==
  ASSUME IInv, KeeperOK, RoomInv, NEW txs \in Seq(AllTxs), ApplyTxs(txs),
         Len(txs) * ChunksNeeded(accounts, txs) <= pending.chunksLeft
  PROVE  RoomInv'
<1> DEFINE rs == ExecuteBatch(accounts, txs).results
           ops == OpsOf(txs, rs, pending.index)
           c == ChunksNeeded(accounts, txs)
           used == ChunksUsed(ops)
           left == (pending.chunksLeft - Len(rs) * c) % UsizeValues
<1>1. accounts \in Ledgers /\ pending.index \in Nat /\ success \in Seq(Ops)
  BY DEF KeeperOK
<1>2. /\ success' = success \o ops
      /\ Count(txs, rs, c)
  BY Zenon DEF ApplyTxs, Record, OpsOf
<1>3. /\ SizedOps(ops)
      /\ \/ Len(rs) = 0 /\ used = 0
         \/ Len(rs) = Len(txs) /\ used <= c
  BY <1>1, ExecutionTakes
<1>4. c \in Nat /\ GasNeeded(accounts, txs) \in Nat /\ Withdrawals(txs) \in Nat
  BY NeededTyped
<1>5. Len(txs) \in Nat
  BY LenProperties
<1>6. used \in Nat
  BY <1>3, UsedTyped
<1>7. SizedOps(success) /\ ChunksUsed(success) \in Nat /\ pending.chunksLeft \in Nat
      /\ ChunksUsed(success) + pending.chunksLeft <= MaxBlockSize
  BY UsedTyped DEF RoomInv, OpenBlocks
<1>8. SizedOps(success') /\ ChunksUsed(success') = ChunksUsed(success) + used
  BY <1>2, <1>3, <1>7, UsedJoins, Zenon
<1>9. pending' = [pending EXCEPT
        !.chunksLeft = left,
        !.index = @ + Len(rs),
        !.gas = @ + GasNeeded(accounts, txs),
        !.withdrawals = @ + Withdrawals(txs),
        !.fast = @ \/ (Len(txs) = 1 /\ txs[1].kind = "Withdraw" /\ txs[1].fast)]
  BY <1>2, Zenon DEF Count
<1> HIDE DEF rs, c, used
<1>10. left \in Nat /\ used + left <= pending.chunksLeft
  <2> DEFINE taken == Len(rs) * c
  <2>1. taken \in Nat /\ taken <= pending.chunksLeft /\ used <= taken
    <3>1. CASE Len(rs) = 0 /\ used = 0
      BY <1>4, <1>7, <3>1, TakeTwice
    <3>2. CASE Len(rs) = Len(txs) /\ used <= c /\ Len(txs) # 0
      BY <1>4, <1>5, <1>6, <3>2, TakeTwice DEF c
    <3>3. CASE Len(txs) = 0 /\ Len(rs) = 0 /\ used # 0
      <4>1. txs = <<>>
        BY <3>3, EmptySeq
      <4>2. c = 0
        <5> DEFINE f == [k \in DOMAIN txs |-> Chunks[PlannedOp(accounts, txs[k])]]
        <5>1. DOMAIN f = {}
          BY <4>1, EmptyIsSeq
        <5>2. c = SumFunction(f)
          BY SumsUnfold, Zenon DEF c
        <5> HIDE DEF f
        <5> QED BY <5>1, <5>2, SumOfNone
      <4> QED BY <1>3, <1>6, <3>3, <4>2
    <3> QED BY <1>3, <1>5, <3>1, <3>2, <3>3
  <2> HIDE DEF taken
  <2>2. UsizeValues \in Nat /\ MaxBlockSize < UsizeValues /\ MaxBlockSize \in Nat
    BY SizesAssumption, SizeTyped
  <2>3. pending.chunksLeft - taken \in 0 .. UsizeValues - 1
    BY <1>7, <2>1, <2>2
  <2>4. left = pending.chunksLeft - taken
    BY <2>2, <2>3 DEF taken
  <2> HIDE DEF left
  <2> QED BY <1>6, <1>7, <2>1, <2>3, <2>4
<1> HIDE DEF left
<1>11. pending' \in OpenBlocks /\ pending'.chunksLeft = left
  <2>1. Len(rs) \in Nat
    BY <1>3, <1>5
  <2>2. pending \in OpenBlocks
    BY DEF RoomInv
  <2>3. PICK fast \in BOOLEAN :
           fast = (pending.fast \/ (Len(txs) = 1 /\ txs[1].kind = "Withdraw" /\ txs[1].fast))
    OBVIOUS
  <2>4. PICK index \in Nat, gas \in Nat, withdrawals \in Nat :
           /\ index = pending.index + Len(rs) /\ gas = pending.gas + GasNeeded(accounts, txs)
           /\ withdrawals = pending.withdrawals + Withdrawals(txs)
    <3>1. pending.index \in Nat /\ pending.gas \in Nat /\ pending.withdrawals \in Nat
      BY <2>2 DEF OpenBlocks
    <3>2. pending.index + Len(rs) \in Nat
      BY <2>1, <3>1
    <3>3. pending.gas + GasNeeded(accounts, txs) \in Nat
      BY <1>4, <3>1
    <3>4. pending.withdrawals + Withdrawals(txs) \in Nat
      BY <1>4, <3>1
    <3> QED BY <3>2, <3>3, <3>4, Zenon
  <2>5. pending' = [pending EXCEPT !.chunksLeft = left, !.index = index, !.gas = gas,
                                   !.withdrawals = withdrawals, !.fast = fast]
    BY <1>9, <2>3, <2>4, Zenon
  <2> QED BY <1>10, <2>2, <2>5 DEF OpenBlocks
<1> QED BY <1>6, <1>7, <1>8, <1>10, <1>11, SizeTyped DEF RoomInv

\* A priority operation is executed: the counter goes down by its chunks.
LEMMA PriorityRoom ==
  ASSUME IInv, KeeperOK, RoomInv, NEW id \in Ids, ApplyPriorityOp(id),
         PriorityOpFits(PriorityOps[id + 1])
  PROVE  RoomInv'
<1> DEFINE kind == PriorityOps[id + 1].kind
<1>1. kind \in Sized
  <2>1. id + 1 \in DOMAIN PriorityOps
    <3>1. Len(PriorityOps) \in Nat /\ DOMAIN PriorityOps = 1 .. Len(PriorityOps)
      BY BoundsAssumption, LenProperties
    <3> QED BY <3>1 DEF Ids
  <2>2. IsPriorityOp(PriorityOps[id + 1])
    BY <2>1, RequestsAssumption
  <2> QED BY <2>2 DEF IsPriorityOp, Sized
<1>2. PICK o : /\ o = PriorityOp(id, kind, pending.index)
               /\ o \in Ops /\ success' = success \o <<o>>
  BY PriorityRun, Zenon DEF Grows
<1>3. pending' = [pending EXCEPT !.chunksLeft = @ - Chunks[kind], !.index = @ + 1,
                                 !.gas = @ + Gas[kind]]
  BY Zenon DEF ApplyPriorityOp
<1>4. pending.chunksLeft >= Chunks[kind]
  BY DEF PriorityOpFits
<1> HIDE DEF kind
<1>5. Chunks[kind] \in Nat /\ Gas[kind] \in Nat
  BY <1>1, SizesAssumption
<1>6. o.op = kind
  BY <1>2 DEF PriorityOp
<1>7. SizedOps(success) /\ ChunksUsed(success) \in Nat /\ pending \in OpenBlocks
      /\ ChunksUsed(success) + pending.chunksLeft <= MaxBlockSize
  BY UsedTyped DEF RoomInv
<1>8. SizedOps(<<o>>) /\ ChunksUsed(<<o>>) = Chunks[kind]
  BY <1>1, <1>2, <1>6, UsedFew
<1>9. SizedOps(success') /\ ChunksUsed(success') = ChunksUsed(success) + Chunks[kind]
  BY <1>2, <1>7, <1>8, UsedJoins, Zenon
<1>10. pending' \in OpenBlocks /\ pending'.chunksLeft = pending.chunksLeft - Chunks[kind]
  <2>1. pending.index \in Nat /\ pending.gas \in Nat /\ pending.chunksLeft \in Nat
    BY <1>7 DEF OpenBlocks
  <2>2. PICK left \in Nat, index \in Nat, gas \in Nat :
           /\ left = pending.chunksLeft - Chunks[kind] /\ index = pending.index + 1
           /\ gas = pending.gas + Gas[kind]
    <3>1. pending.chunksLeft - Chunks[kind] \in Nat
      BY <1>4, <1>5, <2>1
    <3>2. pending.index + 1 \in Nat /\ pending.gas + Gas[kind] \in Nat
      BY <1>5, <2>1
    <3> QED BY <3>1, <3>2, Zenon
  <2>3. pending' = [pending EXCEPT !.chunksLeft = left, !.index = index, !.gas = gas]
    BY <1>3, <2>2, Zenon
  <2>4. pending' \in OpenBlocks /\ pending'.chunksLeft = left
    BY <1>7, <2>3 DEF OpenBlocks
  <2> QED BY <2>2, <2>4
<1>11. pending.chunksLeft \in Nat
  BY <1>7 DEF OpenBlocks
<1> QED BY <1>5, <1>7, <1>9, <1>10, <1>11, SizeTyped DEF RoomInv

\* The block is sealed, or the memory is lost: the next one is empty.
LEMMA EmptyHasRoom ==
  ASSUME IInv, Seal \/ Stop
  PROVE  RoomInv'
<1>1. currentPriorityOp \in Nat /\ 0 \in Nat
  BY DEF IInv, ControlTypeOK
<1>2. \E before \in Nat : FreshPending(before)
  BY <1>1, Zenon DEF Seal, Stop
<1> QED BY <1>2, FreshHasRoom

\* The pending block is stored.
LEMMA StoreRoom ==
  ASSUME KeeperOK, RoomInv, StorePending(NextIteration)
  PROVE  RoomInv'
<1>1. success' = success /\ pending' = [pending EXCEPT !.stored = Len(updates), !.iteration = NextIteration]
  BY DEF StorePending
<1>2. Len(updates) \in Nat
  BY LenProperties DEF KeeperOK
<1>3. pending \in OpenBlocks
  BY DEF RoomInv
<1>4. NextIteration \in Nat
  BY <1>3 DEF NextIteration, OpenBlocks
<1>5. pending' \in OpenBlocks /\ pending'.chunksLeft = pending.chunksLeft
  BY <1>1, <1>2, <1>3, <1>4 DEF OpenBlocks
<1> QED BY <1>1, <1>5 DEF RoomInv

\* Sealing, and trying again.
LEMMA SealAndRetryRoom ==
  ASSUME IInv, SealAndRetry
  PROVE  RoomInv'
BY EmptyHasRoom DEF SealAndRetry, Panic

\* A priority operation
LEMMA ExecutePriorityRoom ==
  ASSUME IInv, DataOK, RoomInv, ExecutePriority
  PROVE  RoomInv'
<1> DEFINE ids == miniBlock.priorityOps
           id == Head(ids)
<1>1. ids # <<>> /\ ids \in Seq(Ids)
  BY DEF ExecutePriority, DataOK, WorkOK
<1>2. id \in Ids
  BY <1>1, HeadTailProperties
<1>3. CASE PriorityOpFits(PriorityOps[id + 1]) /\ ApplyPriorityOp(id)
  <2> HIDE DEF id
  <2> QED BY <1>2, <1>3, PriorityRoom DEF DataOK
<1>4. CASE SealAndRetry
  BY <1>4, SealAndRetryRoom
<1> QED BY <1>3, <1>4 DEF ExecutePriority

\* Transactions, if the counter does not wrap
LEMMA ExecuteTxsRoom ==
  ASSUME IInv, DataOK, CounterHolds, RoomInv, ExecuteTxs
  PROVE  RoomInv'
<1> DEFINE all == miniBlock.txs
           txs == Head(all)
<1>1. all # <<>> /\ all \in Seq(Seq(AllTxs))
  BY DEF ExecuteTxs, DataOK, WorkOK
<1>2. txs \in Seq(AllTxs)
  BY <1>1, HeadTailProperties
<1>3. CASE TxsFit(txs) /\ ApplyTxs(txs)
  <2>1. Len(txs) * ChunksNeeded(accounts, txs) <= pending.chunksLeft
    BY <1>3, Zenon DEF CounterHolds, ExecuteTxs
  <2> HIDE DEF txs
  <2> QED BY <1>2, <1>3, <2>1, TxsRoom DEF DataOK
<1>4. CASE SealAndRetry
  BY <1>4, SealAndRetryRoom
<1> QED BY <1>3, <1>4 DEF ExecuteTxs

\* The end of a mini-block
LEMMA FinishRoom ==
  ASSUME IInv, DataOK, RoomInv, FinishMiniBlock
  PROVE  RoomInv'
<1>1. KeeperOK
  BY DEF DataOK
<1>2. Panic \/ Seal \/ StorePending(NextIteration)
  BY DEF FinishMiniBlock
<1> QED BY <1>1, <1>2, EmptyHasRoom, StoreRoom DEF Panic

\* A re-executed operation: a single transaction takes its chunks once.
LEMMA RestoreOpRoom ==
  ASSUME IInv, DataOK, RoomInv, RestoreOp
  PROVE  RoomInv'
<1> DEFINE op == Head(restore.ops)
           one == <<op.tx>>
<1>1. CASE Panic
  BY <1>1, EmptyHasRoom DEF Panic
<1>2. CASE op.type = "tx" /\ ApplyTxs(one) /\ one \in Seq(AllTxs) /\ ~ Panic
  <2>1. TxsFit(one)
    BY <1>2, Zenon DEF RestoreOp
  <2>2. Len(one) = 1
    OBVIOUS
  <2> HIDE DEF one, op
  <2>3. ChunksNeeded(accounts, one) \in Nat /\ ChunksNeeded(accounts, one) <= pending.chunksLeft
    <3>1. pending.chunksLeft \in Nat /\ ChunksNeeded(accounts, one) \in Nat
      BY <1>2, NeededTyped DEF RoomInv, OpenBlocks
    <3>2. pending.chunksLeft >= ChunksNeeded(accounts, one)
      BY <2>1 DEF TxsFit
    <3> QED BY <3>1, <3>2
  <2>4. Len(one) * ChunksNeeded(accounts, one) <= pending.chunksLeft
    BY <2>2, <2>3
  <2> QED BY <1>2, <2>4, TxsRoom DEF DataOK
<1>3. CASE op.type # "tx" /\ op.id \in Ids /\ ApplyPriorityOp(op.id) /\ ~ Panic
  <2>1. PriorityOpFits(PriorityOps[op.id + 1])
    BY <1>3, Zenon DEF RestoreOp
  <2> HIDE DEF op
  <2> QED BY <1>3, <2>1, PriorityRoom DEF DataOK
<1>4. \/ Panic
      \/ op.type = "tx" /\ ApplyTxs(one) /\ one \in Seq(AllTxs)
      \/ op.type # "tx" /\ op.id \in Ids /\ ApplyPriorityOp(op.id)
  BY RestoreOpCases, Zenon
<1> QED BY <1>1, <1>2, <1>3, <1>4

\* The restart, and the end of the re-execution
LEMMA RecoveryRoom ==
  ASSUME IInv, DataOK, RoomInv, Recovery
  PROVE  RoomInv'
<1>1. CASE Restart
  <2>1. FreshPending(UnprocessedPriorityOp(LastUpdated))
    BY <1>1 DEF Restart
  <2>2. UnprocessedPriorityOp(LastUpdated) \in Nat
    BY <1>1, RestartKeeps, <2>1 DEF IInv, ControlTypeOK, Restart
  <2> QED BY <2>1, <2>2, FreshHasRoom
<1>2. CASE FinishRestore
  <2>1. success' = success /\ pending' = [pending EXCEPT !.stored = Len(updates)]
    BY <1>2 DEF FinishRestore
  <2>2. Len(updates) \in Nat /\ pending \in OpenBlocks
    BY LenProperties DEF RoomInv, DataOK, KeeperOK
  <2>3. pending' \in OpenBlocks /\ pending'.chunksLeft = pending.chunksLeft
    BY <2>1, <2>2 DEF OpenBlocks
  <2> QED BY <2>1, <2>3 DEF RoomInv
<1> QED BY <1>1, <1>2, RestoreOpRoom DEF Recovery

\* Every step leaves room for what it puts into the open block.
LEMMA NextRoom ==
  ASSUME IInv, DataOK, CounterHolds, RoomInv, [Next]_vars
  PROVE  RoomInv'
<1>1. CASE UNCHANGED <<success, pending>>
  BY <1>1 DEF RoomInv
<1>2. CASE Keeper
  BY <1>2, ExecutePriorityRoom, ExecuteTxsRoom, FinishRoom DEF Keeper
<1>3. CASE Committer
  BY <1>1, <1>3, EmptyHasRoom DEF Committer, SavePendingBlock, CommitBlock, Panic, Memory
<1>4. CASE VerifyBlock \/ Environment \/ Propose
  BY <1>1, <1>4
  DEF VerifyBlock, Environment, ReportPriorityOp, Submit, Propose, ProposeMiniBlock, process, Memory
<1>5. CASE Crash
  BY <1>5, EmptyHasRoom DEF Crash
<1>6. CASE UNCHANGED vars
  BY <1>1, <1>6 DEF vars, process
<1> QED BY <1>2, <1>3, <1>4, <1>5, <1>6, RecoveryRoom DEF Next

\* The program starts with an empty block.
LEMMA InitRoom == Init => RoomInv
<1> SUFFICES ASSUME Init PROVE RoomInv
  OBVIOUS
<1>1. success = <<>> /\ pending = NewPending(0)
  BY DEF Init
<1>2. SizedOps(<<>>) /\ ChunksUsed(<<>>) = 0
  BY UsedFew
<1>3. NewPending(0) \in OpenBlocks /\ NewPending(0).chunksLeft = MaxBlockSize
  BY FreshRoom
<1>4. SizedOps(success) /\ ChunksUsed(success) = 0 /\ pending \in OpenBlocks
      /\ pending.chunksLeft = MaxBlockSize
  BY <1>1, <1>2, <1>3, Zenon
<1> QED BY <1>4, SizeTyped DEF RoomInv

\* What this invariant gives: the open block has its types and room for its content,
\* and the panic of seal_pending_block on the size of the block is out of reach.
LEMMA RoomGives ==
  ASSUME IInv, DataOK, RoomInv
  PROVE  TypeOK /\ ContentFits /\ ~ SealPanics
<1>1. miniBlock.priorityOps \in Seq(Nat)
  <2>1. miniBlock.priorityOps \in Seq(Ids) /\ Ids \subseteq Nat
    BY IdsFinite DEF DataOK, WorkOK
  <2> QED BY <2>1, SeqMonotonic
<1>2. pending \in OpenBlocks /\ ControlTypeOK
  BY DEF RoomInv, IInv
<1>3. TypeOK
  BY <1>1, <1>2 DEF TypeOK, OpenBlocks
<1>4. ChunksUsed(success) \in Nat /\ pending.chunksLeft \in Nat
  BY UsedTyped DEF RoomInv, OpenBlocks
<1>5. ChunksUsed(success) <= MaxBlockSize
  BY <1>4, SizeTyped DEF RoomInv
<1> QED BY <1>3, <1>4, <1>5, SizeTyped DEF ContentFits, SealPanics
=============================================================================
