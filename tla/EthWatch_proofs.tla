---------------------------- MODULE EthWatch_proofs ----------------------------
(***************************************************************************)
(* Theorems about the Ethereum watcher, for every number of confirmations, *)
(* every expiration, and every number of blocks, events, reorganisations,  *)
(* failing queries and restarts.                                           *)
(***************************************************************************)
EXTENDS EthWatch, DataFacts, TLAPS

-----------------------------------------------------------------------------
(* The inductive invariant *)

EventKinds == {"request", "completion"}
Blocks == [event : EventKinds, tx : Txs] \cup {Empty}
Unconfirmed == [id : Nat, tx : Txs, block : 1 .. MaxBlock]

\* What a task asks for, in this order.
Steps ==
    [down |-> {"none"}, idle |-> {"none"},
     restore |-> {"unconfirmed", "withdrawals", "requests"},
     poll |-> {"withdrawals", "requests", "unconfirmed"}]

ChainTyped ==
    /\ chain \in Seq(Blocks) /\ Height <= MaxBlock
    /\ Cardinality(Busy) <= MaxEvents
    /\ \A a, b \in Busy : chain[a].tx = chain[b].tx => a = b

TaskTyped ==
    /\ task \in DOMAIN Steps /\ step \in Steps[task]
    /\ target \in 0 .. Height /\ last \in 0 .. Height /\ started \in 0 .. Height
    /\ task = "poll" => last <= target
    /\ mode \in {"Working", "Backoff"}
    /\ unconfirmed \subseteq Unconfirmed /\ gathered.unconfirmed \subseteq Unconfirmed
    /\ gathered = [unconfirmed |-> gathered.unconfirmed, queue |-> gathered.queue]
    /\ ~ (task = "poll" /\ step = "unconfirmed") => gathered.queue = <<>>

\* The number of events of a kind before block b.
Number(event, b) == Cardinality({a \in BlocksWith(event) : a < b})

\* Block b has the event of this kind with number n, made by tx.
Has(b, event, n, tx) == chain[b] = [event |-> event, tx |-> tx] /\ Number(event, b) = n

\* A queue holds requests of blocks up to `top' under their serial ids; what is outdated
\* has been taken.
Holds(ops, top) ==
    \A id \in DOMAIN ops :
        /\ ops[id] \in Entries /\ ops[id].block <= top
        /\ Has(ops[id].block, "request", id, ops[id].tx)
        /\ ops[id].outdated => id < Len(served)

Confirmed == Height - Confirmations

Taken ==
    /\ served \in Seq(Txs)
    /\ \A n \in 1 .. Len(served) : \E b \in 1 .. Confirmed : Has(b, "request", n - 1, served[n])

Finished ==
    /\ DOMAIN completed \subseteq Txs
    /\ \A tx \in DOMAIN completed : \E b \in 1 .. Confirmed : Has(b, "completion", completed[tx], tx)

\* The blocks of which a watcher that has got to `block' must have seen the events.
SeenUpTo(block) ==
    {b \in 1 .. block - Confirmations :
        b \in started - 2 * Confirmations - Expiration .. started - 2 * Confirmations
        \/ b > started - Confirmations}

\* The requests of these blocks are in the queue or have been taken.
Kept(ops, blocks) ==
    \A b \in blocks : chain[b].event = "request" =>
        \/ \E id \in DOMAIN ops : ops[id].tx = chain[b].tx
        \/ \E n \in DOMAIN served : served[n] = chain[b].tx

Written(blocks) ==
    \A b \in blocks : chain[b].event = "completion" => chain[b].tx \in DOMAIN completed

\* While a poll runs, it has got the events of the steps behind it.
Polled ==
    /\ task \in {"idle", "poll"} => Kept(queue, SeenUpTo(last)) /\ Written(SeenUpTo(last))
    /\ task = "poll" /\ step \in {"requests", "unconfirmed"} => Written(SeenUpTo(target))
    /\ task = "poll" /\ step = "unconfirmed" =>
          Kept(gathered.queue, SeenUpTo(target)) /\ Holds(gathered.queue, target - Confirmations)

\* The blocks whose events a restart asks for.
Window == SaturatingSub(SaturatingSub(target, 2 * Confirmations), Expiration)
             .. SaturatingSub(target, 2 * Confirmations)

\* So has a restart. What it has got as unconfirmed lies behind what it will accept.
Restored ==
    /\ task = "restore" /\ step = "requests" => Written(Window \ {0})
    /\ task = "restore" /\ step \in {"withdrawals", "requests"} =>
          \A e \in gathered.unconfirmed :
              Number("request", SaturatingSub(target, 2 * Confirmations) + 1) <= e.id

IInv ==
    /\ ChainTyped /\ TaskTyped
    /\ Holds(queue, last - Confirmations) /\ Taken /\ Finished
    /\ Polled /\ Restored
    /\ NotTwice

-----------------------------------------------------------------------------
(* Blocks and serial ids *)

LEMMA ChainFacts ==
  ASSUME ChainTyped
  PROVE  /\ Height \in 0 .. MaxBlock /\ DOMAIN chain = 1 .. Height
         /\ \A b \in 1 .. Height : chain[b] \in Blocks
         /\ Busy \subseteq 1 .. Height /\ IsFiniteSet(Busy)
         /\ \A event \in EventKinds :
               /\ BlocksWith(event) \subseteq Busy
               /\ \A b \in BlocksWith(event) :
                     chain[b] = [event |-> event, tx |-> chain[b].tx] /\ chain[b].tx \in Txs
<1>1. Height \in Nat /\ DOMAIN chain = 1 .. Height
  BY LenProperties DEF ChainTyped, Height
<1>2. \A b \in 1 .. Height : chain[b] \in Blocks
  BY ElementOfSeq DEF ChainTyped, Height
<1>3. Busy \subseteq 1 .. Height /\ IsFiniteSet(Busy)
  <2>1. Busy \subseteq 1 .. Height
    BY <1>1 DEF Busy
  <2>2. IsFiniteSet(1 .. Height)
    BY <1>1, FS_Interval
  <2> QED BY <2>1, <2>2, FS_Subset
<1>4. ASSUME NEW event \in EventKinds, NEW b \in BlocksWith(event)
      PROVE  b \in Busy /\ chain[b] = [event |-> event, tx |-> chain[b].tx] /\ chain[b].tx \in Txs
  <2>1. b \in 1 .. Height /\ chain[b].event = event
    BY <1>1, <1>4 DEF BlocksWith
  <2>2. chain[b] \in Blocks
    BY <1>2, <2>1
  <2>3. chain[b] # Empty
    BY <2>1 DEF EventKinds, Empty
  <2>4. b \in Busy
    BY <1>1, <2>1, <2>3 DEF Busy
  <2> QED BY <2>1, <2>2, <2>3, <2>4 DEF Blocks
<1>5. Height \in 0 .. MaxBlock
  BY <1>1, EthWatchAssumption DEF ChainTyped
<1> QED BY <1>1, <1>2, <1>3, <1>4, <1>5

\* Serial ids grow with the blocks, and there are no more than events.
LEMMA NumberFacts ==
  ASSUME ChainTyped, NEW event \in EventKinds
  PROVE  /\ \A b : Number(event, b) \in 0 .. MaxEvents
         /\ \A a, b \in Int : a <= b => Number(event, a) <= Number(event, b)
         /\ \A a \in BlocksWith(event) : \A b \in Int :
               a < b => Number(event, a) < Number(event, b)
<1> DEFINE S(b) == {a \in BlocksWith(event) : a < b}
<1>1. \A b : IsFiniteSet(S(b)) /\ S(b) \subseteq Busy
  BY ChainFacts, FS_Subset
<1>2. \A b : Cardinality(S(b)) \in 0 .. MaxEvents
  <2>1. \A b : Cardinality(S(b)) \in Nat /\ Cardinality(S(b)) <= Cardinality(Busy)
    BY <1>1, ChainFacts, FS_Subset, FS_CardinalityType
  <2>2. Cardinality(Busy) <= MaxEvents /\ Cardinality(Busy) \in Nat
    BY ChainFacts, FS_CardinalityType DEF ChainTyped
  <2> HIDE DEF S
  <2> QED BY <2>1, <2>2, EthWatchAssumption
<1>3. BlocksWith(event) \subseteq Int
  BY ChainFacts
<1>4. ASSUME NEW a \in Int, NEW b \in Int, a <= b
      PROVE  Cardinality(S(a)) <= Cardinality(S(b))
  <2>1. S(a) \subseteq S(b)
    BY <1>3, <1>4
  <2> QED BY <1>1, <2>1, FS_Subset
<1>5. ASSUME NEW a \in BlocksWith(event), NEW b \in Int, a < b
      PROVE  Cardinality(S(a)) < Cardinality(S(b))
  <2>1. S(a) \subseteq S(b) /\ a \in S(b) /\ a \notin S(a)
    BY <1>3, <1>5
  <2>2. Cardinality(S(a)) <= Cardinality(S(b)) /\ Cardinality(S(a)) # Cardinality(S(b))
    BY <1>1, <2>1, FS_Subset
  <2> HIDE DEF S
  <2> QED BY <1>2, <2>2
<1> HIDE DEF S
<1>6. \A b : Number(event, b) = Cardinality(S(b))
  BY DEF Number, S
<1> QED BY <1>2, <1>4, <1>5, <1>6

\* An event is found in one block only, by its number and by its transaction.
LEMMA OneBlock ==
  ASSUME ChainTyped, NEW event \in EventKinds,
         NEW a \in BlocksWith(event), NEW b \in BlocksWith(event)
  PROVE  /\ Number(event, a) = Number(event, b) => a = b
         /\ chain[a].tx = chain[b].tx => a = b
<1>1. a \in Busy /\ b \in Busy /\ a \in Int /\ b \in Int
  BY ChainFacts
<1>2. chain[a].tx = chain[b].tx => a = b
  BY <1>1 DEF ChainTyped
<1>3. /\ a < b => Number(event, a) < Number(event, b)
      /\ b < a => Number(event, b) < Number(event, a)
  BY <1>1, NumberFacts
<1>4. Number(event, a) \in Int /\ Number(event, b) \in Int
  BY NumberFacts
<1> QED BY <1>1, <1>2, <1>3, <1>4

\* A block found with an event is one of the blocks that have it.
LEMMA HasIsBlock ==
  ASSUME ChainTyped, NEW event \in EventKinds, NEW b \in 1 .. Height, NEW n, NEW tx,
         Has(b, event, n, tx)
  PROVE  b \in BlocksWith(event) /\ chain[b].tx = tx /\ Number(event, b) = n
BY ChainFacts DEF Has, BlocksWith

\* The blocks up to k are the same after the step, and so are the numbers of their events.
SameUpTo(k) ==
    /\ k <= Height /\ k <= Height'
    /\ \A b \in 1 .. k : chain'[b] = chain[b]

LEMMA ChainRange == ChainTyped => Height \in Nat /\ DOMAIN chain = 1 .. Height
BY ChainFacts

LEMMA RequestsInRange == ChainTyped => \A b \in BlocksWith("request") : b \in 1 .. Height
BY ChainFacts DEF EventKinds

LEMMA NumbersStay ==
  ASSUME ChainTyped, ChainTyped', NEW k \in Int, SameUpTo(k),
         NEW event \in EventKinds, NEW b \in Int, b <= k + 1
  PROVE  Number(event, b)' = Number(event, b)
<1>1. Height \in Nat /\ DOMAIN chain = 1 .. Height
  BY ChainFacts
<1>2. (Height \in Nat /\ DOMAIN chain = 1 .. Height)'
  <2>1. ChainTyped' => (Height \in Nat /\ DOMAIN chain = 1 .. Height)'
    BY ChainRange, PTL
  <2> QED BY <2>1
<1>3. \A a : a \in {x \in BlocksWith(event) : x < b}' <=> a \in {x \in BlocksWith(event) : x < b}
  BY <1>1, <1>2 DEF SameUpTo, BlocksWith
<1>4. {x \in BlocksWith(event) : x < b}' = {x \in BlocksWith(event) : x < b}
  BY <1>3
<1> QED BY <1>4 DEF Number

-----------------------------------------------------------------------------
(* What the queries return *)

LEMMA LogsFacts ==
  ASSUME ChainTyped, NEW event \in EventKinds, NEW from, NEW to
  PROVE  /\ \A e \in Logs(event, from, to) :
               /\ e.block \in BlocksWith(event) /\ e.block \in from .. to
               /\ e = [id |-> Number(event, e.block), tx |-> chain[e.block].tx, block |-> e.block]
               /\ e \in Unconfirmed
         /\ \A b \in BlocksWith(event) : b \in from .. to =>
               Event(event, b) \in Logs(event, from, to)
<1>1. ASSUME NEW e \in Logs(event, from, to)
      PROVE  /\ e.block \in BlocksWith(event) /\ e.block \in from .. to
             /\ e = [id |-> Number(event, e.block), tx |-> chain[e.block].tx, block |-> e.block]
             /\ e \in Unconfirmed
  <2>1. PICK b \in BlocksWith(event) \cap (from .. to) : e = Event(event, b)
    BY DEF Logs
  <2>2. e = [id |-> Number(event, b), tx |-> chain[b].tx, block |-> b]
    BY <2>1 DEF Event, Number
  <2>3. Number(event, b) \in Nat
    BY NumberFacts, EthWatchAssumption
  <2>4. chain[b].tx \in Txs /\ b \in 1 .. MaxBlock
    <3>1. chain[b].tx \in Txs /\ b \in 1 .. Height /\ Height \in 0 .. MaxBlock
      BY ChainFacts
    <3> QED BY <3>1, EthWatchAssumption
  <2> QED BY <2>2, <2>3, <2>4 DEF Unconfirmed
<1>2. \A b \in BlocksWith(event) : b \in from .. to => Event(event, b) \in Logs(event, from, to)
  BY DEF Logs
<1> QED BY <1>1, <1>2

\* The requests received are held under their serial ids, and none is left out.
LEMMA ReceivedFacts ==
  ASSUME ChainTyped, NEW from \in Int, NEW to \in Int
  PROVE  LET ops == Received(Logs("request", from, to))
         IN  /\ Holds(ops, to) /\ \A id \in DOMAIN ops : ~ ops[id].outdated
             /\ \A b \in BlocksWith("request") : b \in from .. to =>
                   \E id \in DOMAIN ops : ops[id].tx = chain[b].tx
<1> DEFINE L == Logs("request", from, to)
           ops == Received(L)
<1>0. "request" \in EventKinds
  BY DEF EventKinds
<1>1. \A e \in L :
         /\ e.block \in BlocksWith("request") /\ e.block \in from .. to
         /\ e = [id |-> Number("request", e.block), tx |-> chain[e.block].tx, block |-> e.block]
         /\ e \in Unconfirmed
  BY <1>0, LogsFacts
<1>2. \A b \in BlocksWith("request") : b \in from .. to => Event("request", b) \in L
  BY <1>0, LogsFacts
<1> HIDE DEF L
<1>3. DOMAIN ops = {e.id : e \in L}
  BY DEF Received
<1>4. ASSUME NEW id \in DOMAIN ops
      PROVE  \E e \in L : e.id = id /\ ops[id] = [tx |-> e.tx, block |-> e.block, outdated |-> FALSE]
  <2> DEFINE e == CHOOSE x \in L : x.id = id
  <2>1. \E x \in L : x.id = id
    BY <1>3
  <2>2. e \in L /\ e.id = id
    BY <2>1
  <2>3. ops[id] = [tx |-> e.tx, block |-> e.block, outdated |-> FALSE]
    BY <1>3 DEF Received
  <2> QED BY <2>2, <2>3
<1>5. ASSUME NEW id \in DOMAIN ops
      PROVE  /\ ops[id] \in Entries /\ ops[id].block <= to /\ ~ ops[id].outdated
             /\ Has(ops[id].block, "request", id, ops[id].tx)
  <2>1. PICK e \in L : e.id = id /\ ops[id] = [tx |-> e.tx, block |-> e.block, outdated |-> FALSE]
    BY <1>4
  <2> HIDE DEF ops
  <2>2. chain[e.block] = [event |-> "request", tx |-> chain[e.block].tx]
    BY <1>0, <1>1, ChainFacts
  <2>3. Has(e.block, "request", id, e.tx)
    BY <1>1, <2>1, <2>2 DEF Has
  <2>4. e.tx \in Txs /\ e.block \in 1 .. MaxBlock
    BY <1>1 DEF Unconfirmed
  <2> QED BY <1>1, <2>1, <2>3, <2>4 DEF Entries
<1>6. ASSUME NEW b \in BlocksWith("request"), b \in from .. to
      PROVE  \E id \in DOMAIN ops : ops[id].tx = chain[b].tx
  <2> DEFINE f == Event("request", b)
  <2>1. f \in L /\ f.id = Number("request", b)
    BY <1>2, <1>6 DEF Event, Number
  <2>2. PICK e \in L : /\ e.id = f.id
                       /\ ops[f.id] = [tx |-> e.tx, block |-> e.block, outdated |-> FALSE]
    BY <1>3, <1>4, <2>1
  <2>3. e.block = b
    BY <1>0, <1>1, <2>1, <2>2, OneBlock
  <2>4. e.tx = chain[b].tx
    BY <1>1, <2>3
  <2> QED BY <1>3, <2>1, <2>2, <2>4
<1> HIDE DEF ops
<1>7. Holds(ops, to)
  BY <1>5 DEF Holds
<1> QED BY <1>5, <1>6, <1>7 DEF ops, L

\* The withdrawals stored have the index of their event.
LEMMA StoredFacts ==
  ASSUME ChainTyped, NEW from \in Int, NEW to \in Int
  PROVE  LET rows == Stored(Logs("completion", from, to))
         IN  /\ DOMAIN rows \subseteq Txs
             /\ \A tx \in DOMAIN rows :
                   \E b \in from .. to : b \in 1 .. Height /\ Has(b, "completion", rows[tx], tx)
             /\ \A b \in BlocksWith("completion") : b \in from .. to => chain[b].tx \in DOMAIN rows
<1> DEFINE L == Logs("completion", from, to)
           rows == Stored(L)
<1>0. "completion" \in EventKinds
  BY DEF EventKinds
<1>1. \A e \in L :
         /\ e.block \in BlocksWith("completion") /\ e.block \in from .. to
         /\ e = [id |-> Number("completion", e.block), tx |-> chain[e.block].tx, block |-> e.block]
         /\ e \in Unconfirmed
  BY <1>0, LogsFacts
<1>2. \A b \in BlocksWith("completion") : b \in from .. to => Event("completion", b) \in L
  BY <1>0, LogsFacts
<1> HIDE DEF L
<1>3. DOMAIN rows = {e.tx : e \in L}
  BY DEF Stored
<1>4. ASSUME NEW tx \in DOMAIN rows
      PROVE  \E b \in from .. to : b \in 1 .. Height /\ Has(b, "completion", rows[tx], tx)
  <2> DEFINE e == CHOOSE x \in L : x.tx = tx
  <2>1. \E x \in L : x.tx = tx
    BY <1>3
  <2>2. e \in L /\ e.tx = tx
    BY <2>1
  <2>3. rows[tx] = e.id
    BY <1>3 DEF Stored
  <2> HIDE DEF e, rows
  <2>4. /\ chain[e.block] = [event |-> "completion", tx |-> chain[e.block].tx]
        /\ e.block \in 1 .. Height
    BY <1>0, <1>1, <2>2, ChainFacts
  <2>5. e.block \in from .. to /\ Has(e.block, "completion", rows[tx], tx)
    BY <1>1, <2>2, <2>3, <2>4 DEF Has
  <2> QED BY <2>4, <2>5
<1>5. ASSUME NEW b \in BlocksWith("completion"), b \in from .. to
      PROVE  chain[b].tx \in DOMAIN rows
  <2>1. Event("completion", b).tx = chain[b].tx
    BY DEF Event
  <2> QED BY <1>2, <1>3, <1>5, <2>1
<1>6. DOMAIN rows \subseteq Txs
  BY <1>1, <1>3 DEF Unconfirmed
<1> QED BY <1>4, <1>5, <1>6 DEF L

LEMMA SiftedFacts ==
  ASSUME NEW ops
  PROVE  /\ \A id : id \in DOMAIN Sifted(ops) <=> id \in DOMAIN ops /\ ~ ops[id].outdated
         /\ \A id \in DOMAIN Sifted(ops) : Sifted(ops)[id] = ops[id]
BY DEF Sifted, Restrict

\* The longest run of ids from `first' on, of at most max.
LEMMA RequestsFacts ==
  ASSUME NEW first \in Nat
  PROVE  \E n \in 0 .. MaxRequested :
            /\ PriorityRequests(first, MaxRequested) = [i \in 1 .. n |-> first + i - 1]
            /\ \A id \in first .. first + n - 1 : id \in DOMAIN queue
<1> DEFINE Run(n) == \A id \in first .. first + n - 1 : id \in DOMAIN queue
           Good(n) == Run(n) /\ (n = MaxRequested \/ ~ Run(n + 1))
           runs == {n \in 0 .. MaxRequested : Run(n)}
           m == CHOOSE n \in 0 .. MaxRequested : Good(n)
<1>0. MaxRequested \in Nat
  BY EthWatchAssumption
<1>1. runs \subseteq 0 .. MaxRequested /\ 0 \in runs
  BY <1>0
<1>2. PICK k \in runs : \A n \in runs : n <= k
  BY <1>0, <1>1, MaxIsMember
<1>3. Good(k)
  <2>1. Run(k) /\ k \in 0 .. MaxRequested
    OBVIOUS
  <2>2. ASSUME k # MaxRequested, Run(k + 1)  PROVE FALSE
    <3>1. k + 1 \in runs
      BY <1>0, <2>1, <2>2
    <3> QED BY <1>2, <2>1, <3>1
  <2> QED BY <2>1, <2>2
<1>4. m \in 0 .. MaxRequested /\ Run(m)
  BY <1>3
<1>5. PriorityRequests(first, MaxRequested) = [i \in 1 .. m |-> first + i - 1]
  BY DEF PriorityRequests
<1> QED BY <1>4, <1>5

-----------------------------------------------------------------------------
(* The initial state *)

LEMMA NoneHeld == DOMAIN <<>> = {}
BY EmptySeq

LEMMA InitInv == Init => IInv
<1> SUFFICES ASSUME Init
             PROVE  IInv
  OBVIOUS
<1> USE DEF Init
<1>1. chain = <<>> /\ Height = 0 /\ DOMAIN chain = {} /\ chain \in Seq(Blocks)
  BY EmptySeq, NoneHeld DEF Height
<1>2. ChainTyped
  <2>1. Busy = {}
    BY <1>1 DEF Busy
  <2> QED BY <1>1, <2>1, FS_EmptySet, EthWatchAssumption DEF ChainTyped
<1>3. TaskTyped
  BY <1>1 DEF TaskTyped, Steps
<1>4. Taken
  BY EmptySeq DEF Taken
<1>5. Holds(queue, last - Confirmations) /\ Finished /\ NotTwice
  BY NoneHeld DEF Holds, Finished, NotTwice
<1>6. Polled /\ Restored
  BY DEF Polled, Restored
<1> QED BY <1>2, <1>3, <1>4, <1>5, <1>6 DEF IInv

-----------------------------------------------------------------------------
(* The chain grows or is reorganised *)

\* An element more or less in a finite set.
LEMMA FinitePlusOne ==
  ASSUME NEW S, IsFiniteSet(S), NEW x
  PROVE  /\ IsFiniteSet(S \cup {x}) /\ Cardinality(S \cup {x}) <= Cardinality(S) + 1
         /\ IsFiniteSet(S \ {x}) /\ Cardinality(S \ {x}) <= Cardinality(S)
         /\ x \in S => Cardinality(S \ {x}) = Cardinality(S) - 1
<1>1. Cardinality(S) \in Nat
  BY FS_CardinalityType
<1>2. /\ IsFiniteSet(S \cup {x})
      /\ Cardinality(S \cup {x}) = IF x \in S THEN Cardinality(S) ELSE Cardinality(S) + 1
  BY FS_AddElement
<1>3. /\ IsFiniteSet(S \ {x})
      /\ Cardinality(S \ {x}) = IF x \in S THEN Cardinality(S) - 1 ELSE Cardinality(S)
  BY FS_RemoveElement
<1> QED BY <1>1, <1>2, <1>3

\* Neither reaches a block that has its confirmations.
LEMMA ChainStep ==
  ASSUME ChainTyped, Mine \/ Reorg
  PROVE  ChainTyped' /\ Height <= Height' /\ SameUpTo(Height - Confirmations)
<1>0. /\ Height \in 0 .. MaxBlock /\ DOMAIN chain = 1 .. Height /\ chain \in Seq(Blocks)
      /\ Busy \subseteq 1 .. Height /\ IsFiniteSet(Busy) /\ Len(chain) = Height
      /\ Cardinality(Busy) \in Nat /\ Cardinality(Busy) <= MaxEvents
      /\ Confirmations \in Nat /\ MaxBlock \in Nat /\ MaxEvents \in Nat
  BY ChainFacts, FS_CardinalityType, EthWatchAssumption DEF ChainTyped, Height
<1>00. Empty \in Blocks
  BY DEF Blocks
<1>1. CASE Mine
  <2>1. Height < MaxBlock
    BY <1>1 DEF Mine
  <2>2. PICK x : /\ chain' = Append(chain, x)
                 /\ \/ x = Empty
                    \/ /\ Cardinality(Busy) < MaxEvents
                       /\ x.event \in EventKinds /\ x.tx \in Fresh
                       /\ x \in Blocks
    <3>1. CASE chain' = Append(chain, Empty)
      BY <3>1
    <3>2. CASE /\ Cardinality(Busy) < MaxEvents /\ Fresh # {}
               /\ \E event \in EventKinds :
                     chain' = Append(chain, [event |-> event, tx |-> CHOOSE tx \in Fresh : TRUE])
      <4>1. PICK event \in EventKinds :
               chain' = Append(chain, [event |-> event, tx |-> CHOOSE tx \in Fresh : TRUE])
        BY <3>2
      <4>2. (CHOOSE tx \in Fresh : TRUE) \in Fresh /\ Fresh \subseteq Txs
        BY <3>2 DEF Fresh
      <4> QED BY <3>2, <4>1, <4>2 DEF Blocks
    <3> QED BY <1>1, <3>1, <3>2 DEF Mine, EventKinds
  <2>3. x \in Blocks
    BY <1>00, <2>2
  <2>4. /\ chain' \in Seq(Blocks) /\ Height' = Height + 1
        /\ \A b \in 1 .. Height : chain'[b] = chain[b]
        /\ chain'[Height + 1] = x /\ DOMAIN chain' = 1 .. Height + 1
    <3>1. chain' \in Seq(Blocks) /\ Len(chain') = Len(chain) + 1
      BY <1>0, <2>2, <2>3, AppendProperties
    <3>2. \A b \in 1 .. Len(chain) : chain'[b] = chain[b]
      BY <1>0, <2>2, <2>3, AppendProperties
    <3>3. chain'[Len(chain) + 1] = x
      BY <1>0, <2>2, <2>3, AppendProperties
    <3>4. DOMAIN chain' = 1 .. Len(chain')
      BY <3>1, LenProperties
    <3> QED BY <1>0, <3>1, <3>2, <3>3, <3>4 DEF Height
  <2>5. SameUpTo(Height - Confirmations) /\ Height <= Height' /\ Height' <= MaxBlock
    BY <1>0, <2>1, <2>4 DEF SameUpTo
  <2>6. Busy' = IF x = Empty THEN Busy ELSE Busy \cup {Height + 1}
    <3>1. \A b : b \in Busy' <=> b \in (IF x = Empty THEN Busy ELSE Busy \cup {Height + 1})
      BY <1>0, <2>4 DEF Busy
    <3> QED BY <3>1
  <2>7. Cardinality(Busy') <= MaxEvents
    <3>1. Cardinality(Busy \cup {Height + 1}) <= Cardinality(Busy) + 1
      BY <1>0, FinitePlusOne
    <3>2. Cardinality(Busy \cup {Height + 1}) \in Nat
      BY <1>0, FS_AddElement, FS_CardinalityType
    <3> QED BY <1>0, <2>2, <2>6, <3>1, <3>2
  <2>8. ASSUME NEW a \in Busy', NEW b \in Busy', chain'[a].tx = chain'[b].tx
        PROVE  a = b
    <3>0. \A c \in Busy : chain'[c] = chain[c]
      BY <1>0, <2>4
    <3>1. \A c \in Busy' : (c \in Busy /\ chain'[c] = chain[c]) \/ (c = Height + 1 /\ x # Empty)
      <4>1. x = Empty => Busy' = Busy
        BY <2>6
      <4>2. x # Empty => Busy' = Busy \cup {Height + 1}
        BY <2>6
      <4>3. CASE x = Empty
        BY <3>0, <4>1, <4>3
      <4>4. CASE x # Empty
        BY <3>0, <4>2, <4>4
      <4> QED BY <4>3, <4>4
    <3>2. \A c \in Busy : x # Empty => chain[c].tx # x.tx
      BY <2>2 DEF Fresh
    <3>3. chain'[Height + 1] = x
      BY <2>4
    <3>4. CASE a \in Busy /\ chain'[a] = chain[a] /\ b \in Busy /\ chain'[b] = chain[b]
      BY <2>8, <3>4 DEF ChainTyped
    <3> QED BY <2>8, <3>1, <3>2, <3>3, <3>4
  <2> QED BY <2>4, <2>5, <2>7, <2>8 DEF ChainTyped
<1>2. CASE Reorg
  <2> DEFINE top == Max(Busy)
  <2>1. Busy # {}
    BY <1>2 DEF Reorg
  <2>2. top \in Busy /\ \A b \in Busy : top >= b
    <3>1. Busy \subseteq 0 .. Height /\ Height \in Nat
      BY <1>0
    <3> QED BY <2>1, <3>1, MaxIsMember
  <2>3. PICK t : t = top
    OBVIOUS
  <2>4. /\ t > Height - Confirmations
        /\ \/ chain' = [chain EXCEPT ![t] = Empty]
           \/ \E tx \in Fresh : chain' = [chain EXCEPT ![t].tx = tx]
           \/ t < Height /\ chain' = [chain EXCEPT ![t] = Empty, ![t + 1] = chain[t]]
    BY <1>2, <2>3 DEF Reorg
  <2>5. t \in Busy /\ t \in 1 .. Height /\ \A b \in Busy : b <= t
    BY <1>0, <2>2, <2>3
  <2> HIDE DEF top
  <2>6. chain \in [1 .. Height -> Blocks]
    BY <1>0, LenProperties DEF Height
  <2>7. \A s : s \in [1 .. Height -> Blocks] => s \in Seq(Blocks) /\ Len(s) = Height
    BY <1>0, SeqDef, LenProperties
  <2>8. ASSUME chain' \in [1 .. Height -> Blocks],
               \A b \in 1 .. Height : b < t => chain'[b] = chain[b],
               Cardinality(Busy') <= Cardinality(Busy),
               IsFiniteSet(Busy'),
               \A a, b \in Busy' : chain'[a].tx = chain'[b].tx => a = b
        PROVE  ChainTyped' /\ Height <= Height' /\ SameUpTo(Height - Confirmations)
    <3>1. chain' \in Seq(Blocks) /\ Height' = Height
      BY <2>7, <2>8 DEF Height
    <3>2. Cardinality(Busy') <= MaxEvents
      <4>1. Cardinality(Busy') \in Nat
        BY <2>8, FS_CardinalityType
      <4> QED BY <1>0, <2>8, <4>1
    <3>3. SameUpTo(Height - Confirmations)
      BY <1>0, <2>4, <2>5, <2>8, <3>1 DEF SameUpTo
    <3> QED BY <1>0, <2>8, <3>1, <3>2, <3>3 DEF ChainTyped
  <2>9. CASE chain' = [chain EXCEPT ![t] = Empty]
    <3>1. chain' \in [1 .. Height -> Blocks] /\ DOMAIN chain' = 1 .. Height
      BY <1>00, <2>6, <2>9
    <3>2. \A b \in 1 .. Height : chain'[b] = IF b = t THEN Empty ELSE chain[b]
      BY <2>6, <2>9
    <3>3. Busy' = Busy \ {t}
      <4>1. \A b : b \in Busy' <=> b \in Busy \ {t}
        BY <1>0, <3>1, <3>2 DEF Busy
      <4> QED BY <4>1
    <3>4. Cardinality(Busy') <= Cardinality(Busy) /\ IsFiniteSet(Busy')
      BY <1>0, <3>3, FinitePlusOne
    <3>5. \A a, b \in Busy' : chain'[a].tx = chain'[b].tx => a = b
      BY <1>0, <3>2, <3>3 DEF ChainTyped
    <3> QED BY <2>5, <2>8, <3>1, <3>2, <3>4, <3>5
  <2>10. CASE \E tx \in Fresh : chain' = [chain EXCEPT ![t].tx = tx]
    <3>1. PICK tx \in Fresh : chain' = [chain EXCEPT ![t].tx = tx]
      BY <2>10
    <3>2. PICK event \in EventKinds : chain[t] = [event |-> event, tx |-> chain[t].tx]
      <4>1. chain[t] \in Blocks /\ chain[t] # Empty
        BY <2>5, <2>6 DEF Busy
      <4> QED BY <4>1 DEF Blocks
    <3>3. tx \in Txs /\ \A b \in Busy : chain[b].tx # tx
      BY DEF Fresh
    <3>4. [event |-> event, tx |-> tx] \in Blocks /\ [event |-> event, tx |-> tx] # Empty
      BY <3>2, <3>3 DEF Blocks, EventKinds, Empty
    <3>5. [chain[t] EXCEPT !.tx = tx] = [event |-> event, tx |-> tx]
      BY <3>2
    <3>6. chain' = [chain EXCEPT ![t] = [event |-> event, tx |-> tx]]
      BY <3>1, <3>5
    <3>7. chain' \in [1 .. Height -> Blocks] /\ DOMAIN chain' = 1 .. Height
      BY <2>6, <3>4, <3>6
    <3>8. \A b \in 1 .. Height : chain'[b] = IF b = t THEN [event |-> event, tx |-> tx] ELSE chain[b]
      BY <2>6, <3>6
    <3>9. Busy' = Busy
      <4>1. \A b : b \in Busy' <=> b \in Busy
        BY <1>0, <2>5, <3>4, <3>7, <3>8 DEF Busy
      <4> QED BY <4>1
    <3>10. \A a, b \in Busy' : chain'[a].tx = chain'[b].tx => a = b
      <4>0. \A b \in Busy : chain'[b] = IF b = t THEN [event |-> event, tx |-> tx] ELSE chain[b]
        BY <1>0, <3>8
      <4>1. \A b \in Busy : chain'[b].tx = IF b = t THEN tx ELSE chain[b].tx
        BY <4>0
      <4> QED BY <3>3, <3>9, <4>1 DEF ChainTyped
    <3>11. Cardinality(Busy') <= Cardinality(Busy) /\ IsFiniteSet(Busy')
      BY <1>0, <3>9
    <3> QED BY <2>5, <2>8, <3>7, <3>8, <3>10, <3>11
  <2>11. CASE t < Height /\ chain' = [chain EXCEPT ![t] = Empty, ![t + 1] = chain[t]]
    <3>0. t + 1 \in 1 .. Height /\ chain[t] \in Blocks /\ chain[t] # Empty /\ t + 1 \notin Busy
      BY <1>0, <2>5, <2>6, <2>11 DEF Busy
    <3>1. chain' \in [1 .. Height -> Blocks] /\ DOMAIN chain' = 1 .. Height
      BY <1>00, <2>6, <2>11, <3>0
    <3>2. \A b \in 1 .. Height :
             chain'[b] = IF b = t + 1 THEN chain[t] ELSE IF b = t THEN Empty ELSE chain[b]
      BY <1>0, <2>5, <2>6, <2>11, <3>0
    <3>3. Busy' = (Busy \ {t}) \cup {t + 1}
      <4>1. \A b : b \in Busy' <=> b \in (Busy \ {t}) \cup {t + 1}
        BY <1>0, <2>5, <3>0, <3>1, <3>2 DEF Busy
      <4> QED BY <4>1
    <3>4. Cardinality(Busy') <= Cardinality(Busy) /\ IsFiniteSet(Busy')
      <4>1. IsFiniteSet(Busy \ {t}) /\ Cardinality(Busy \ {t}) = Cardinality(Busy) - 1
        BY <1>0, <2>5, FinitePlusOne
      <4> DEFINE S == Busy \ {t}
      <4>2. IsFiniteSet(S \cup {t + 1}) /\ Cardinality(S \cup {t + 1}) <= Cardinality(S) + 1
        BY <4>1, FinitePlusOne
      <4> QED BY <1>0, <3>3, <4>1, <4>2
    <3>5. \A a, b \in Busy' : chain'[a].tx = chain'[b].tx => a = b
      <4>1. \A b \in Busy' : \E c \in Busy : /\ chain'[b] = chain[c]
                                             /\ b = IF c = t THEN t + 1 ELSE c
        BY <1>0, <2>5, <3>0, <3>2, <3>3
      <4> QED BY <4>1 DEF ChainTyped
    <3> QED BY <1>0, <2>5, <2>8, <3>1, <3>2, <3>4, <3>5
  <2> QED BY <2>4, <2>9, <2>10, <2>11
<1> QED BY <1>1, <1>2

\* What was found in the blocks that have their confirmations is found there again.
LEMMA ChainStepInv ==
  ASSUME IInv, Mine \/ Reorg
  PROVE  IInv'
<1> DEFINE C == Height - Confirmations
<1>1. ChainTyped /\ TaskTyped
  BY DEF IInv
<1>2. ChainTyped' /\ Height <= Height' /\ SameUpTo(C)
  BY <1>1, ChainStep
<1>3. UNCHANGED <<task_vars, state, mode, completed, served, started>>
  BY DEF Mine, Reorg
<1>4. UNCHANGED <<task, step, target, gathered, last, unconfirmed, queue, mode, completed, served,
                  started>>
  BY <1>3 DEF task_vars, state
<1>5. /\ Height \in Nat /\ Height' \in Nat /\ C \in Int /\ C <= Confirmed' /\ Confirmed' \in Int
      /\ Confirmations \in Nat /\ Expiration \in Nat
  <2>1. Height \in Nat
    BY <1>1, ChainRange
  <2>2. ChainTyped' => (Height \in Nat /\ DOMAIN chain = 1 .. Height)'
    BY ChainRange, PTL
  <2> QED BY <1>2, <2>1, <2>2, EthWatchAssumption DEF Confirmed
<1>6. target \in 0 .. Height /\ last \in 0 .. Height /\ started \in 0 .. Height
  BY <1>1 DEF TaskTyped
<1>7. PICK c \in Int : c = C
  BY <1>5
<1>8. \A event \in EventKinds : \A b \in Int : b <= c + 1 => Number(event, b)' = Number(event, b)
  BY <1>1, <1>2, <1>7, NumbersStay
<1>9. \A b \in 1 .. c : chain'[b] = chain[b]
  BY <1>2, <1>7 DEF SameUpTo
<1>10. \A event \in EventKinds : \A b \in 1 .. c : \A n, tx :
          Has(b, event, n, tx) => Has(b, event, n, tx)'
  BY <1>8, <1>9 DEF Has
<1>11. "request" \in EventKinds /\ "completion" \in EventKinds
  BY DEF EventKinds
<1> HIDE DEF C
<1>12. TaskTyped'
  BY <1>1, <1>2, <1>4, <1>5, <1>6 DEF TaskTyped
<1>13. ASSUME NEW ops, NEW top \in Int, top <= c, Holds(ops, top)
       PROVE  Holds(ops, top)'
  <2> SUFFICES ASSUME NEW id \in DOMAIN ops
               PROVE  /\ ops[id] \in Entries /\ ops[id].block <= top
                      /\ Has(ops[id].block, "request", id, ops[id].tx)'
                      /\ ops[id].outdated => id < Len(served')
    BY DEF Holds
  <2>1. /\ ops[id] \in Entries /\ ops[id].block <= top
        /\ Has(ops[id].block, "request", id, ops[id].tx)
        /\ ops[id].outdated => id < Len(served)
    BY <1>13 DEF Holds
  <2>2. ops[id].block \in 1 .. c
    BY <1>13, <2>1, EthWatchAssumption DEF Entries
  <2> QED BY <1>4, <1>10, <1>11, <2>1, <2>2
<1>14. Holds(queue, last - Confirmations)'
  <2>1. PICK q, l : q = queue /\ l = last
    OBVIOUS
  <2>2. Holds(q, l - Confirmations)
    BY <2>1 DEF IInv
  <2>3. l - Confirmations \in Int /\ l - Confirmations <= c
    BY <1>5, <1>6, <1>7, <2>1 DEF C
  <2>4. Holds(q, l - Confirmations)'
    BY <1>13, <2>2, <2>3
  <2> QED BY <1>4, <2>1, <2>4 DEF Holds
<1>15. Taken'
  <2>1. \A n \in 1 .. Len(served) : \E b \in 1 .. c : Has(b, "request", n - 1, served[n])
    BY <1>7 DEF IInv, Taken, Confirmed, C
  <2>2. 1 .. c \subseteq 1 .. Confirmed'
    BY <1>5, <1>7
  <2>3. ASSUME NEW n \in 1 .. Len(served)
        PROVE  \E b \in 1 .. Confirmed' : Has(b, "request", n - 1, served[n])'
    <3>1. PICK s : s = served[n]
      OBVIOUS
    <3>2. PICK b \in 1 .. c : Has(b, "request", n - 1, s)
      BY <2>1, <3>1
    <3>3. Has(b, "request", n - 1, s)'
      BY <1>10, <1>11, <3>2
    <3>4. Has(b, "request", n - 1, served[n])'
      BY <1>4, <3>1, <3>3
    <3> QED BY <2>2, <3>4
  <2> QED BY <1>4, <2>3 DEF IInv, Taken
<1>16. Finished'
  <2>1. \A tx \in DOMAIN completed : \E b \in 1 .. c : Has(b, "completion", completed[tx], tx)
    BY <1>7 DEF IInv, Finished, Confirmed, C
  <2>2. 1 .. c \subseteq 1 .. Confirmed'
    BY <1>5, <1>7
  <2>3. ASSUME NEW tx \in DOMAIN completed
        PROVE  \E b \in 1 .. Confirmed' : Has(b, "completion", completed[tx], tx)'
    <3>1. PICK n : n = completed[tx]
      OBVIOUS
    <3>2. PICK b \in 1 .. c : Has(b, "completion", n, tx)
      BY <2>1, <3>1
    <3>3. Has(b, "completion", n, tx)'
      BY <1>10, <1>11, <3>2
    <3>4. Has(b, "completion", completed[tx], tx)'
      BY <1>4, <3>1, <3>3
    <3> QED BY <2>2, <3>4
  <2> QED BY <1>4, <2>3 DEF IInv, Finished
<1>17. Polled'
  <2>1. /\ \A b \in SeenUpTo(last) : chain'[b] = chain[b]
        /\ \A b \in SeenUpTo(target) : chain'[b] = chain[b]
    <3>1. last - Confirmations <= c /\ target - Confirmations <= c
      BY <1>5, <1>6, <1>7 DEF C
    <3>2. /\ \A b \in SeenUpTo(last) : b \in 1 .. last - Confirmations
          /\ \A b \in SeenUpTo(target) : b \in 1 .. target - Confirmations
      BY DEF SeenUpTo
    <3> QED BY <1>5, <1>6, <1>9, <3>1, <3>2
  <2>2. SeenUpTo(last)' = SeenUpTo(last) /\ SeenUpTo(target)' = SeenUpTo(target)
    BY <1>4 DEF SeenUpTo
  <2>3. /\ Kept(queue, SeenUpTo(last)) => Kept(queue, SeenUpTo(last))'
        /\ Written(SeenUpTo(last)) => Written(SeenUpTo(last))'
        /\ Written(SeenUpTo(target)) => Written(SeenUpTo(target))'
        /\ Kept(gathered.queue, SeenUpTo(target)) => Kept(gathered.queue, SeenUpTo(target))'
    BY <1>4, <2>1, <2>2 DEF Kept, Written
  <2>4. Holds(gathered.queue, target - Confirmations) =>
           Holds(gathered.queue, target - Confirmations)'
    <3>1. PICK q, t : q = gathered.queue /\ t = target
      OBVIOUS
    <3>2. t - Confirmations \in Int /\ t - Confirmations <= c
      BY <1>5, <1>6, <1>7, <3>1 DEF C
    <3>3. Holds(q, t - Confirmations) => Holds(q, t - Confirmations)'
      BY <1>13, <3>2
    <3> QED BY <1>4, <3>1, <3>3 DEF Holds
  <2> QED BY <1>4, <2>3, <2>4 DEF IInv, Polled
<1>18. Restored'
  <2> DEFINE w == SaturatingSub(target, 2 * Confirmations)
  <2>1. w \in Nat /\ (w = 0 \/ w <= c)
    BY <1>5, <1>6, <1>7 DEF SaturatingSub, C
  <2>2. Window' = Window /\ w' = w
    BY <1>4 DEF Window, SaturatingSub
  <2>3. \A b \in Window \ {0} : chain'[b] = chain[b]
    <3>1. \A b \in Window \ {0} : b \in 1 .. c
      BY <1>5, <1>6, <1>7, <2>1 DEF Window, SaturatingSub
    <3> QED BY <1>9, <3>1
  <2>4. Written(Window \ {0}) => Written(Window \ {0})'
    BY <1>4, <2>2, <2>3 DEF Written
  <2>5. Number("request", w + 1)' = Number("request", w + 1)
    <3>1. PICK v \in Int : v = w + 1
      BY <2>1
    <3>2. CASE w <= c
      <4>1. Number("request", v)' = Number("request", v)
        BY <1>8, <1>11, <2>1, <3>1, <3>2
      <4> QED BY <2>2, <3>1, <4>1
    <3>3. CASE w = 0
      <4>1. \A b \in BlocksWith("request") : b \in 1 .. Height
        BY <1>1, <1>11, ChainFacts
      <4>2. \A b \in BlocksWith("request")' : b \in 1 .. Height'
        <5>1. ChainTyped' => (\A b \in BlocksWith("request") : b \in 1 .. Height)'
          BY RequestsInRange, PTL
        <5> QED BY <1>2, <5>1
      <4>3. {a \in BlocksWith("request") : a < 1} = {} /\ {a \in BlocksWith("request") : a < 1}' = {}
        BY <4>1, <4>2
      <4>4. Number("request", 1)' = Number("request", 1)
        BY <4>3 DEF Number
      <4>5. v = 1
        BY <3>1, <3>3
      <4> QED BY <2>2, <3>1, <4>4, <4>5
    <3> QED BY <2>1, <3>2, <3>3
  <2> HIDE DEF w
  <2>6. ASSUME task = "restore", step \in {"withdrawals", "requests"}, NEW e \in gathered.unconfirmed
        PROVE  Number("request", w + 1)' <= e.id
    <3>1. Number("request", w + 1) <= e.id
      BY <2>6 DEF IInv, Restored, w
    <3> QED BY <2>5, <3>1
  <2> QED BY <1>4, <2>4, <2>6 DEF IInv, Restored, w
<1>19. NotTwice'
  BY <1>4 DEF IInv, NotTwice
<1> QED BY <1>2, <1>12, <1>14, <1>15, <1>16, <1>17, <1>18, <1>19 DEF IInv

-----------------------------------------------------------------------------
(* The steps of the watcher and of the proposer *)

\* They leave the chain alone, and with it what was found there.
LEMMA SameChain ==
  ASSUME chain' = chain
  PROVE  /\ Height' = Height /\ Confirmed' = Confirmed
         /\ \A event, b : Number(event, b)' = Number(event, b)
         /\ \A b, event, n, tx : Has(b, event, n, tx)' = Has(b, event, n, tx)
         /\ ChainTyped => ChainTyped'
BY DEF Height, Confirmed, Number, Has, BlocksWith, ChainTyped, Busy

\* What a step that changes neither the queue nor the histories keeps.
LEMMA Kept0 ==
  ASSUME IInv, chain' = chain, served' = served, completed' = completed
  PROVE  /\ ChainTyped' /\ Taken' /\ Finished'
         /\ UNCHANGED <<last, queue>> => Holds(queue, last - Confirmations)'
         /\ UNCHANGED <<unconfirmed, queue>> => NotTwice'
         /\ UNCHANGED <<last, queue, started>> /\ task \in {"idle", "poll"} =>
               Kept(queue, SeenUpTo(last))' /\ Written(SeenUpTo(last))'
<1>1. /\ Height' = Height /\ Confirmed' = Confirmed
      /\ \A b, event, n, tx : Has(b, event, n, tx)' = Has(b, event, n, tx)
      /\ ChainTyped'
  BY SameChain DEF IInv
<1>2. Taken'
  BY <1>1 DEF IInv, Taken
<1>3. Finished'
  BY <1>1 DEF IInv, Finished
<1>4. ASSUME UNCHANGED <<last, queue>>
      PROVE  Holds(queue, last - Confirmations)'
  BY <1>1, <1>4 DEF IInv, Holds
<1>5. ASSUME UNCHANGED <<unconfirmed, queue>>
      PROVE  NotTwice'
  BY <1>5 DEF IInv, NotTwice
<1>6. ASSUME UNCHANGED <<last, queue, started>>, task \in {"idle", "poll"}
      PROVE  Kept(queue, SeenUpTo(last))' /\ Written(SeenUpTo(last))'
  BY <1>6 DEF IInv, Polled, Kept, Written, SeenUpTo
<1> QED BY <1>1, <1>2, <1>3, <1>4, <1>5, <1>6

\* The numbers of blocks.
LEMMA Numbers ==
  ASSUME IInv
  PROVE  /\ Height \in Nat /\ Height <= MaxBlock /\ DOMAIN chain = 1 .. Height
         /\ target \in 0 .. Height /\ last \in 0 .. Height /\ started \in 0 .. Height
         /\ task = "poll" => last <= target
         /\ Confirmations \in Nat /\ Expiration \in Nat
         /\ "request" \in EventKinds /\ "completion" \in EventKinds
BY ChainRange, EthWatchAssumption DEF IInv, ChainTyped, TaskTyped, EventKinds

LEMMA QueryFailsInv ==
  ASSUME IInv, QueryFails
  PROVE  IInv'
<1>1. /\ task \in {"restore", "poll"}
      /\ task' = (IF task = "restore" THEN "down" ELSE "idle")
      /\ mode' \in IF task = "poll" THEN {"Working", "Backoff"} ELSE {mode}
      /\ step' = "none" /\ target' = 0 /\ gathered' = [unconfirmed |-> {}, queue |-> <<>>]
      /\ UNCHANGED <<last, unconfirmed, queue, chain, completed, served, started>>
  BY DEF QueryFails, Fail, state
<1>2. TaskTyped'
  BY <1>1, Numbers, SameChain DEF IInv, TaskTyped, Steps
<1>3. Polled' /\ Restored'
  BY <1>1, Kept0 DEF Polled, Restored
<1> QED BY <1>1, <1>2, <1>3, Kept0 DEF IInv

LEMMA RestoreInv ==
  ASSUME IInv, Restore
  PROVE  IInv'
<1>1. /\ task' = "restore" /\ step' = "unconfirmed" /\ target' = Height
      /\ gathered' = [unconfirmed |-> {}, queue |-> <<>>]
      /\ UNCHANGED <<last, unconfirmed, queue, chain, mode, completed, served, started>>
  BY DEF Restore, Begin, state
<1>2. TaskTyped'
  BY <1>1, Numbers, SameChain DEF IInv, TaskTyped, Steps
<1>3. Polled' /\ Restored'
  BY <1>1 DEF Polled, Restored
<1> QED BY <1>1, <1>2, <1>3, Kept0 DEF IInv

LEMMA PollInv ==
  ASSUME IInv, Poll
  PROVE  IInv'
<1>1. /\ task = "idle" /\ mode' = "Working"
      /\ UNCHANGED <<last, unconfirmed, queue, chain, completed, served, started>>
      /\ \/ /\ Height > last
            /\ task' = "poll" /\ step' = "withdrawals" /\ target' = Height
            /\ gathered' = [unconfirmed |-> {}, queue |-> <<>>]
         \/ UNCHANGED <<task, step, target, gathered>>
  BY DEF Poll, Begin, state, task_vars
<1>2. TaskTyped'
  <2>1. CASE task' = "poll"
    BY <1>1, <2>1, Numbers, SameChain DEF IInv, TaskTyped, Steps
  <2>2. CASE UNCHANGED <<task, step, target, gathered>>
    BY <1>1, <2>2, SameChain DEF IInv, TaskTyped, Steps
  <2> QED BY <1>1, <2>1, <2>2
<1>3. Polled' /\ Restored'
  BY <1>1, Kept0 DEF IInv, Polled, Restored
<1> QED BY <1>1, <1>2, <1>3, Kept0 DEF IInv

LEMMA RestartInv ==
  ASSUME IInv, Restart
  PROVE  IInv'
<1>1. /\ task' = "down" /\ step' = "none" /\ target' = 0
      /\ gathered' = [unconfirmed |-> {}, queue |-> <<>>]
      /\ last' = 0 /\ unconfirmed' = {} /\ queue' = <<>> /\ mode' = "Working"
      /\ UNCHANGED <<chain, completed, served, started>>
  BY DEF Restart
<1>2. TaskTyped'
  BY <1>1, Numbers, SameChain DEF IInv, TaskTyped, Steps
<1>3. Polled' /\ Restored'
  BY <1>1 DEF Polled, Restored
<1>4. Holds(queue, last - Confirmations)' /\ NotTwice'
  BY <1>1, NoneHeld DEF Holds, NotTwice
<1> QED BY <1>1, <1>2, <1>3, <1>4, Kept0 DEF IInv

\* What is outdated has been taken, and stays in the queue.
LEMMA AgeInv ==
  ASSUME IInv, Age
  PROVE  IInv'
<1>1. /\ task = "idle"
      /\ UNCHANGED <<chain, task, step, target, gathered, last, unconfirmed, mode, completed,
                     served, started>>
  BY DEF Age, task_vars
<1>2. PICK id \in DOMAIN queue : id < Len(served) /\ queue' = [queue EXCEPT ![id].outdated = TRUE]
  BY DEF Age
<1>3. TaskTyped'
  BY <1>1, SameChain DEF IInv, TaskTyped
<1>4. /\ \A x \in DOMAIN queue : queue[x] \in Entries
      /\ DOMAIN queue' = DOMAIN queue
      /\ \A x \in DOMAIN queue :
            queue'[x] = IF x = id THEN [queue[id] EXCEPT !.outdated = TRUE] ELSE queue[x]
  BY <1>2 DEF IInv, Holds
<1>5. \A x \in DOMAIN queue :
         /\ queue'[x] \in Entries
         /\ queue'[x].block = queue[x].block /\ queue'[x].tx = queue[x].tx
         /\ queue'[x].outdated => queue[x].outdated \/ x = id
  <2>1. \A x \in DOMAIN queue : x # id => queue'[x] = queue[x] /\ queue[x] \in Entries
    BY <1>4
  <2>2. queue'[id] = [queue[id] EXCEPT !.outdated = TRUE] /\ queue[id] \in Entries
    BY <1>4
  <2>3. /\ queue'[id] \in Entries
        /\ queue'[id].block = queue[id].block /\ queue'[id].tx = queue[id].tx
    BY <2>2 DEF Entries
  <2> QED BY <2>1, <2>3
<1>6. Holds(queue, last - Confirmations)'
  <2>1. ASSUME NEW x \in DOMAIN queue
        PROVE  /\ queue'[x] \in Entries /\ queue'[x].block <= last - Confirmations
               /\ Has(queue'[x].block, "request", x, queue'[x].tx)
               /\ queue'[x].outdated => x < Len(served)
    <3>1. /\ queue[x].block <= last - Confirmations
          /\ Has(queue[x].block, "request", x, queue[x].tx)
          /\ queue[x].outdated => x < Len(served)
      BY DEF IInv, Holds
    <3> QED BY <1>2, <1>5, <3>1
  <2> QED BY <1>1, <1>4, <2>1, SameChain DEF Holds
<1>7. NotTwice'
  BY <1>1, <1>4 DEF IInv, NotTwice
<1>8. Polled'
  <2>1. Kept(queue, SeenUpTo(last)) => Kept(queue, SeenUpTo(last))'
    BY <1>1, <1>4, <1>5 DEF Kept, SeenUpTo
  <2>2. Written(SeenUpTo(last)) => Written(SeenUpTo(last))'
    BY <1>1 DEF Written, SeenUpTo
  <2> QED BY <1>1, <2>1, <2>2 DEF IInv, Polled
<1>9. Restored'
  BY <1>1 DEF Restored
<1> QED BY <1>1, <1>3, <1>6, <1>7, <1>8, <1>9, Kept0 DEF IInv

\* The proposer takes the next requests of the contract, in their order.
LEMMA GetPriorityQueueOpsInv ==
  ASSUME IInv, GetPriorityQueueOps
  PROVE  IInv'
<1>1. /\ task = "idle"
      /\ UNCHANGED <<chain, task, step, target, gathered, last, unconfirmed, queue, mode,
                     completed, started>>
  BY DEF GetPriorityQueueOps, task_vars, state
<1>2. served \in Seq(Txs) /\ Len(served) \in Nat /\ DOMAIN served = 1 .. Len(served)
  BY LenProperties DEF IInv, Taken
<1>3. PICK n \in 0 .. MaxRequested :
         /\ PriorityRequests(Len(served), MaxRequested) = [i \in 1 .. n |-> Len(served) + i - 1]
         /\ \A id \in Len(served) .. Len(served) + n - 1 : id \in DOMAIN queue
  BY <1>2, RequestsFacts
<1>4. n \in Nat
  BY EthWatchAssumption
<1> DEFINE f == [i \in 1 .. n |-> queue[Len(served) + i - 1].tx]
<1>5. served' = served \o f
  <2> DEFINE ids == [i \in 1 .. n |-> Len(served) + i - 1]
  <2>1. served' = served \o [i \in DOMAIN ids |-> queue[ids[i]].tx]
    BY <1>3 DEF GetPriorityQueueOps
  <2>2. [i \in DOMAIN ids |-> queue[ids[i]].tx] = f
    OBVIOUS
  <2> QED BY <2>1, <2>2
<1>6. \A id \in DOMAIN queue : /\ queue[id].tx \in Txs
                               /\ queue[id].block \in 1 .. last - Confirmations
                               /\ Has(queue[id].block, "request", id, queue[id].tx)
  BY Numbers DEF IInv, Holds, Entries
<1> DEFINE L == Len(served)
<1>L. L \in Nat /\ L = Len(served)
  BY <1>2
<1> HIDE DEF L
<1>70. \A i \in 1 .. n : L + i - 1 \in DOMAIN queue
  <2>1. \A id \in L .. L + n - 1 : id \in DOMAIN queue
    BY <1>3, <1>L
  <2>2. \A i \in 1 .. n : L + i - 1 \in L .. L + n - 1
    BY <1>4, <1>L
  <2> QED BY <2>1, <2>2
<1>71. \A i \in 1 .. n : f[i] = queue[L + i - 1].tx
  BY <1>L
<1>7. f \in Seq(Txs) /\ Len(f) = n
  <2>2. f \in [1 .. n -> Txs]
    BY <1>6, <1>70, <1>L
  <2> HIDE DEF f
  <2>3. f \in Seq(Txs)
    BY <1>4, <2>2, SeqDef
  <2> QED BY <1>4, <2>2, <2>3, LenProperties
<1> HIDE DEF f
<1>8. /\ served' \in Seq(Txs) /\ Len(served') = L + n
      /\ \A i \in 1 .. L + n : served'[i] = IF i <= L THEN served[i] ELSE f[i - L]
  BY <1>2, <1>5, <1>7, <1>L, ConcatProperties
<1>9. TaskTyped'
  BY <1>1, SameChain DEF IInv, TaskTyped
<1>10. Holds(queue, last - Confirmations)'
  <2>1. \A id \in DOMAIN queue : id < Len(served) => id < Len(served')
    <3>1. \A id \in DOMAIN queue : id \in Int
      <4>1. \A id \in DOMAIN queue : queue[id].block \in 1 .. last - Confirmations
                                     /\ Number("request", queue[id].block) = id
        BY <1>6 DEF Has
      <4> QED BY <4>1, NumberFacts, Numbers DEF IInv
    <3> QED BY <1>2, <1>4, <1>8, <1>L, <3>1
  <2> QED BY <1>1, <2>1, SameChain DEF IInv, Holds
<1>11. Taken'
  <2>1. ASSUME NEW i \in 1 .. L + n
        PROVE  \E b \in 1 .. Confirmed : Has(b, "request", i - 1, served'[i])
    <3>1. CASE i <= L
      <4>1. i \in 1 .. Len(served) /\ served'[i] = served[i]
        BY <1>4, <1>8, <1>L, <3>1
      <4>2. \E b \in 1 .. Confirmed : Has(b, "request", i - 1, served[i])
        BY <4>1 DEF IInv, Taken
      <4> QED BY <4>1, <4>2
    <3>2. CASE i > L
      <4>1. i - L \in 1 .. n /\ L + (i - L) - 1 = i - 1
        BY <1>4, <1>L, <3>2
      <4>2. served'[i] = f[i - L]
        BY <1>4, <1>8, <1>L, <3>2
      <4>3. f[i - L] = queue[L + (i - L) - 1].tx /\ L + (i - L) - 1 \in DOMAIN queue
        BY <1>70, <1>71, <4>1
      <4>4. served'[i] = queue[i - 1].tx /\ i - 1 \in DOMAIN queue
        BY <4>1, <4>2, <4>3
      <4>5. queue[i - 1].block \in 1 .. Confirmed
        BY <1>6, <4>4, Numbers DEF Confirmed
      <4> QED BY <1>6, <4>4, <4>5
    <3> QED BY <1>4, <1>L, <3>1, <3>2
  <2> QED BY <1>1, <1>8, <2>1, SameChain DEF Taken
<1>12. Finished' /\ ChainTyped'
  BY <1>1, SameChain DEF IInv, Finished
<1>13. Polled'
  <2>0. \A m \in DOMAIN served : m \in DOMAIN served' /\ served'[m] = served[m]
    <3>1. DOMAIN served' = 1 .. Len(served')
      BY <1>8, LenProperties
    <3>2. 1 .. L \subseteq 1 .. L + n
      BY <1>4, <1>L
    <3>3. \A m \in 1 .. L : served'[m] = served[m]
      BY <1>4, <1>8, <1>L
    <3> QED BY <1>2, <1>8, <1>L, <3>1, <3>2, <3>3
  <2>1. Kept(queue, SeenUpTo(last)) => Kept(queue, SeenUpTo(last))'
    BY <1>1, <2>0 DEF Kept, SeenUpTo
  <2>2. Written(SeenUpTo(last)) => Written(SeenUpTo(last))'
    BY <1>1 DEF Written, SeenUpTo
  <2> QED BY <1>1, <2>1, <2>2 DEF IInv, Polled
<1>14. Restored' /\ NotTwice'
  BY <1>1 DEF IInv, Restored, NotTwice
<1> QED BY <1>9, <1>10, <1>11, <1>12, <1>13, <1>14 DEF IInv

\* Where the blocks lie that a query asks for.
LEMMA Bounds ==
  ASSUME IInv
  PROVE  /\ AcceptedFrom \in Nat /\ AcceptedTo \in Nat
         /\ \A x, y \in Nat : SaturatingSub(x, y) \in Nat
         /\ task = "restore" => AcceptedFrom .. AcceptedTo = Window
         /\ task = "poll" => \A b \in 1 .. target - Confirmations :
               b \in 1 .. last - Confirmations \/ b \in AcceptedFrom .. AcceptedTo
         /\ task \in {"poll", "restore"} =>
               \A b \in 1 .. AcceptedTo : b <= target - Confirmations
<1>1. \A x, y \in Nat : SaturatingSub(x, y) \in Nat
  BY DEF SaturatingSub
<1>2. AcceptedFrom \in Nat /\ AcceptedTo \in Nat
  <2>1. /\ target \in Nat /\ last + 1 \in Nat /\ Confirmations \in Nat
        /\ 2 * Confirmations \in Nat /\ Expiration \in Nat
    BY Numbers
  <2>2. /\ SaturatingSub(SaturatingSub(target, 2 * Confirmations), Expiration) \in Nat
        /\ SaturatingSub(last + 1, Confirmations) \in Nat
        /\ SaturatingSub(target, 2 * Confirmations) \in Nat
        /\ SaturatingSub(target, Confirmations) \in Nat
    BY <1>1, <2>1
  <2> QED BY <2>2 DEF AcceptedFrom, AcceptedTo
<1>3. task = "restore" => AcceptedFrom .. AcceptedTo = Window
  BY DEF AcceptedFrom, AcceptedTo, Window
<1>4. ASSUME task = "poll", NEW b \in 1 .. target - Confirmations
      PROVE  b \in 1 .. last - Confirmations \/ b \in AcceptedFrom .. AcceptedTo
  BY <1>4, Numbers DEF AcceptedFrom, AcceptedTo, SaturatingSub
<1>5. ASSUME task \in {"poll", "restore"}, NEW b \in 1 .. AcceptedTo
      PROVE  b <= target - Confirmations
  BY <1>5, Numbers DEF AcceptedTo, SaturatingSub
<1> QED BY <1>1, <1>2, <1>3, <1>4, <1>5

\* A restart asks for the unconfirmed operations first.
LEMMA RestoreUnconfirmedInv ==
  ASSUME IInv, RestoreUnconfirmed
  PROVE  IInv'
<1> DEFINE U == UnconfirmedOps(SaturatingSub(target, Confirmations))
           w == SaturatingSub(target, 2 * Confirmations)
           v == SaturatingSub(SaturatingSub(target, Confirmations), Confirmations)
<1>1. /\ task = "restore" /\ step = "unconfirmed" /\ step' = "withdrawals"
      /\ gathered' = [gathered EXCEPT !.unconfirmed = U]
      /\ UNCHANGED <<task, target, last, unconfirmed, queue, chain, mode, completed, served, started>>
  BY DEF RestoreUnconfirmed, state
<1>2. U = Logs("request", v + 1, Height) /\ v = w /\ w \in Nat
  BY Numbers DEF UnconfirmedOps, SaturatingSub
<1> HIDE DEF v, U
<1>3. ASSUME NEW e \in U
      PROVE  e \in Unconfirmed /\ Number("request", w + 1) <= e.id
  <2>1. /\ e.block \in (v + 1) .. Height /\ e.id = Number("request", e.block)
        /\ e \in Unconfirmed
    BY <1>2, <1>3, Numbers, LogsFacts DEF IInv
  <2>2. e.block \in Int /\ w + 1 <= e.block
    BY <1>2, <2>1
  <2> QED BY <1>2, <2>1, <2>2, Numbers, NumberFacts DEF IInv
<1>4. /\ gathered' = [unconfirmed |-> U, queue |-> gathered.queue]
      /\ gathered'.unconfirmed = U /\ gathered'.queue = gathered.queue
  BY <1>1 DEF IInv, TaskTyped
<1>5. TaskTyped'
  BY <1>1, <1>3, <1>4, SameChain DEF IInv, TaskTyped, Steps
<1>6. Number("request", w + 1)' = Number("request", w + 1)
  BY <1>1, SameChain DEF Number, BlocksWith, SaturatingSub
<1>7. Polled' /\ Restored'
  BY <1>1, <1>3, <1>4, <1>6 DEF Polled, Restored
<1> QED BY <1>1, <1>5, <1>7, Kept0 DEF IInv

\* The completed withdrawals of the accepted blocks get their rows.
LEMMA StoreCompleteWithdrawalsInv ==
  ASSUME IInv, StoreCompleteWithdrawals
  PROVE  IInv'
<1> DEFINE rows == Stored(Logs("completion", AcceptedFrom, AcceptedTo))
<1>1. /\ step = "withdrawals" /\ step' = "requests"
      /\ completed' = Extended(completed, rows)
      /\ UNCHANGED <<chain, task, target, gathered, last, unconfirmed, queue, mode, served, started>>
  BY DEF StoreCompleteWithdrawals, state
<1>2. /\ DOMAIN rows \subseteq Txs
      /\ \A tx \in DOMAIN rows :
            \E b \in AcceptedFrom .. AcceptedTo : b \in 1 .. Height /\ Has(b, "completion", rows[tx], tx)
      /\ \A b \in BlocksWith("completion") :
            b \in AcceptedFrom .. AcceptedTo => chain[b].tx \in DOMAIN rows
  <2>1. ChainTyped /\ AcceptedFrom \in Int /\ AcceptedTo \in Int
    BY Bounds DEF IInv
  <2> QED BY <2>1, StoredFacts
<1> HIDE DEF rows
<1>3. task \in {"restore", "poll"}
  BY <1>1 DEF IInv, TaskTyped, Steps
<1>4. /\ DOMAIN completed' = DOMAIN completed \cup DOMAIN rows
      /\ \A tx \in DOMAIN completed' :
            completed'[tx] = IF tx \in DOMAIN rows THEN rows[tx] ELSE completed[tx]
  BY <1>1 DEF Extended
<1>5. TaskTyped'
  BY <1>1, <1>3, SameChain DEF IInv, TaskTyped, Steps
<1>6. Holds(queue, last - Confirmations)' /\ Taken' /\ NotTwice' /\ ChainTyped'
  BY <1>1, SameChain DEF IInv, Holds, Taken, NotTwice
<1>7. Finished'
  <2>1. ASSUME NEW tx \in DOMAIN completed'
        PROVE  \E b \in 1 .. Confirmed : Has(b, "completion", completed'[tx], tx)
    <3>1. CASE tx \in DOMAIN rows
      <4>1. PICK b \in AcceptedFrom .. AcceptedTo :
               b \in 1 .. Height /\ Has(b, "completion", rows[tx], tx)
        BY <1>2, <3>1
      <4>2. b \in 1 .. Confirmed
        BY <1>3, <4>1, Bounds, Numbers DEF Confirmed
      <4> QED BY <1>4, <3>1, <4>1, <4>2
    <3>2. CASE tx \notin DOMAIN rows
      BY <1>4, <3>2 DEF IInv, Finished
    <3> QED BY <3>1, <3>2
  <2>2. DOMAIN completed' \subseteq Txs
    BY <1>2, <1>4 DEF IInv, Finished
  <2> QED BY <1>1, <2>1, <2>2, SameChain DEF Finished
<1>8. \A b \in 1 .. Height : chain[b].event = "completion" /\ b \in AcceptedFrom .. AcceptedTo =>
         chain[b].tx \in DOMAIN completed'
  BY <1>2, <1>4, Numbers DEF BlocksWith
<1>9. Polled'
  <2>1. CASE task = "poll"
    <3>1. Kept(queue, SeenUpTo(last))'
      BY <1>1, <2>1 DEF IInv, Polled, Kept, SeenUpTo
    <3>2. Written(SeenUpTo(last)) /\ Written(SeenUpTo(last))'
      BY <1>1, <1>4, <2>1 DEF IInv, Polled, Written, SeenUpTo
    <3>3. ASSUME NEW b \in SeenUpTo(target), chain[b].event = "completion"
          PROVE  chain[b].tx \in DOMAIN completed'
      <4>1. b \in 1 .. target - Confirmations /\ b \in 1 .. Height
        BY Numbers DEF SeenUpTo
      <4>2. b \in SeenUpTo(last) \/ b \in AcceptedFrom .. AcceptedTo
        BY <2>1, <4>1, Bounds DEF SeenUpTo
      <4> QED BY <1>4, <1>8, <3>2, <3>3, <4>1, <4>2 DEF Written
    <3>4. Written(SeenUpTo(target))'
      BY <1>1, <3>3 DEF Written, SeenUpTo
    <3> QED BY <1>1, <2>1, <3>1, <3>2, <3>4 DEF Polled
  <2>2. CASE task = "restore"
    BY <1>1, <2>2 DEF Polled
  <2> QED BY <1>3, <2>1, <2>2
<1>10. Restored'
  <2>1. ASSUME task = "restore"
        PROVE  Written(Window \ {0})'
    <3>1. \A b \in Window \ {0} : b \in AcceptedFrom .. AcceptedTo /\ b \in 1 .. Height
      <4>1. Window = AcceptedFrom .. AcceptedTo
        BY <2>1, Bounds
      <4>2. \A b \in 1 .. AcceptedTo : b \in 1 .. Height
        BY <2>1, Bounds, Numbers
      <4>3. \A b \in (AcceptedFrom .. AcceptedTo) \ {0} : b \in 1 .. AcceptedTo
        BY Bounds
      <4> QED BY <4>1, <4>2, <4>3
    <3>2. Window' = Window
      BY <1>1 DEF Window, SaturatingSub
    <3> QED BY <1>1, <1>8, <3>1, <3>2 DEF Written
  <2>2. ASSUME task = "restore", NEW e \in gathered.unconfirmed
        PROVE  Number("request", SaturatingSub(target, 2 * Confirmations) + 1)' <= e.id
    <3>1. Number("request", SaturatingSub(target, 2 * Confirmations) + 1) <= e.id
      BY <1>1, <2>2 DEF IInv, Restored
    <3> QED BY <1>1, <3>1 DEF Number, BlocksWith, SaturatingSub
  <2> QED BY <1>1, <2>1, <2>2 DEF Restored
<1> QED BY <1>5, <1>6, <1>7, <1>9, <1>10 DEF IInv

\* The last query of a restart: the state is replaced as a whole.
LEMMA RestoreQueueInv ==
  ASSUME IInv, RestoreQueue
  PROVE  IInv'
<1> DEFINE ops == Received(Logs("request", AcceptedFrom, AcceptedTo))
<1>1. /\ task = "restore" /\ step = "requests"
      /\ task' = "idle" /\ step' = "none" /\ target' = 0
      /\ gathered' = [unconfirmed |-> {}, queue |-> <<>>]
      /\ last' = target /\ started' = target
      /\ unconfirmed' = gathered.unconfirmed /\ queue' = ops
      /\ UNCHANGED <<chain, mode, completed, served>>
  BY DEF RestoreQueue, SetNewState
<1>2. /\ Holds(ops, AcceptedTo)
      /\ \A b \in BlocksWith("request") : b \in AcceptedFrom .. AcceptedTo =>
            \E id \in DOMAIN ops : ops[id].tx = chain[b].tx
  <2>1. ChainTyped /\ AcceptedFrom \in Int /\ AcceptedTo \in Int
    BY Bounds DEF IInv
  <2> QED BY <2>1, ReceivedFacts
<1> HIDE DEF ops
<1>3. TaskTyped'
  BY <1>1, Numbers, SameChain DEF IInv, TaskTyped, Steps
<1>4. Holds(queue, last - Confirmations)'
  <2>1. ASSUME NEW id \in DOMAIN ops
        PROVE  /\ ops[id] \in Entries /\ ops[id].block <= target - Confirmations
               /\ Has(ops[id].block, "request", id, ops[id].tx)
               /\ ops[id].outdated => id < Len(served)
    <3>1. /\ ops[id] \in Entries /\ ops[id].block <= AcceptedTo
          /\ Has(ops[id].block, "request", id, ops[id].tx)
          /\ ops[id].outdated => id < Len(served)
      BY <1>2 DEF Holds
    <3>2. ops[id].block \in 1 .. AcceptedTo
      BY <3>1, Bounds, EthWatchAssumption DEF Entries
    <3> QED BY <1>1, <3>1, <3>2, Bounds
  <2> QED BY <1>1, <2>1, SameChain DEF Holds
<1>5. ASSUME NEW b \in SeenUpTo(last)'
      PROVE  b \in AcceptedFrom .. AcceptedTo /\ b \in Window \ {0} /\ b \in 1 .. Height
  <2>1. b \in 1 .. target - Confirmations
        /\ \/ b \in target - 2 * Confirmations - Expiration .. target - 2 * Confirmations
           \/ b > target - Confirmations
    BY <1>1, <1>5 DEF SeenUpTo
  <2>2. b \in Window
    BY <1>1, <2>1, Numbers DEF Window, SaturatingSub
  <2>3. Window = AcceptedFrom .. AcceptedTo
    BY <1>1, Bounds
  <2> QED BY <2>1, <2>2, <2>3, Numbers
<1>6. Polled'
  <2>2. Kept(queue, SeenUpTo(last))'
    <3>1. ASSUME NEW b \in SeenUpTo(last)', chain[b].event = "request"
          PROVE  \E id \in DOMAIN ops : ops[id].tx = chain[b].tx
      BY <1>2, <1>5, <3>1, Numbers DEF BlocksWith
    <3> QED BY <1>1, <3>1 DEF Kept
  <2>3. Written(SeenUpTo(last))'
    BY <1>1, <1>5 DEF IInv, Restored, Written
  <2> QED BY <1>1, <2>2, <2>3 DEF Polled
<1>7. Restored'
  BY <1>1 DEF Restored
<1>8. NotTwice'
  <2> DEFINE w == SaturatingSub(target, 2 * Confirmations)
  <2>1. ASSUME NEW e \in gathered.unconfirmed
        PROVE  e.id \notin DOMAIN ops
    <3>1. Number("request", w + 1) <= e.id
      BY <1>1 DEF IInv, Restored
    <3>2. ASSUME e.id \in DOMAIN ops
          PROVE  FALSE
      <4>1. /\ ops[e.id] \in Entries /\ ops[e.id].block <= AcceptedTo
            /\ Has(ops[e.id].block, "request", e.id, ops[e.id].tx)
        BY <1>2, <3>2 DEF Holds
      <4>2. AcceptedTo = w /\ w \in Nat /\ ops[e.id].block \in 1 .. w /\ w <= Height
        <5>1. AcceptedTo = w /\ w \in Nat /\ w <= Height
          BY <1>1, Numbers DEF AcceptedTo, SaturatingSub
        <5> QED BY <4>1, <5>1, EthWatchAssumption DEF Entries
      <4>3. /\ ops[e.id].block \in BlocksWith("request")
            /\ Number("request", ops[e.id].block) = e.id
        <5>1. ChainTyped /\ "request" \in EventKinds /\ ops[e.id].block \in 1 .. Height
          BY <4>2, Numbers DEF IInv
        <5> QED BY <4>1, <5>1, HasIsBlock
      <4>4. e.id < Number("request", w + 1) /\ e.id \in Int /\ Number("request", w + 1) \in Int
        <5>1. ChainTyped /\ "request" \in EventKinds /\ MaxEvents \in Nat
          BY Numbers, EthWatchAssumption DEF IInv
        <5>2. ops[e.id].block < w + 1 /\ w + 1 \in Int
          BY <4>2
        <5>3. Number("request", ops[e.id].block) < Number("request", w + 1)
          BY <4>3, <5>1, <5>2, NumberFacts
        <5>4. Number("request", ops[e.id].block) \in Int /\ Number("request", w + 1) \in Int
          BY <5>1, NumberFacts
        <5> QED BY <4>3, <5>3, <5>4
      <4> QED BY <3>1, <4>4
    <3> QED BY <3>2
  <2> QED BY <1>1, <2>1 DEF NotTwice
<1> QED BY <1>1, <1>3, <1>4, <1>6, <1>7, <1>8, Kept0 DEF IInv

\* A poll adds the confirmed requests to what it has, without what is outdated:
\* that has been taken.
LEMMA PollPriorityOpsInv ==
  ASSUME IInv, PollPriorityOps
  PROVE  IInv'
<1> DEFINE new == Received(Logs("request", AcceptedFrom, AcceptedTo))
           all == Extended(Sifted(queue), new)
<1>1. /\ task = "poll" /\ step = "requests" /\ step' = "unconfirmed"
      /\ gathered' = [gathered EXCEPT !.queue = all]
      /\ UNCHANGED <<chain, task, target, last, unconfirmed, queue, mode, completed, served, started>>
  BY DEF PollPriorityOps, state
<1>2. /\ Holds(new, AcceptedTo)
      /\ \A b \in BlocksWith("request") : b \in AcceptedFrom .. AcceptedTo =>
            \E id \in DOMAIN new : new[id].tx = chain[b].tx
  <2>1. ChainTyped /\ AcceptedFrom \in Int /\ AcceptedTo \in Int
    BY Bounds DEF IInv
  <2> QED BY <2>1, ReceivedFacts
<1> HIDE DEF new
<1>3. /\ \A id : id \in DOMAIN all <=>
            id \in DOMAIN new \/ (id \in DOMAIN queue /\ ~ queue[id].outdated)
      /\ \A id \in DOMAIN all : all[id] = IF id \in DOMAIN new THEN new[id] ELSE queue[id]
  BY SiftedFacts DEF Extended
<1> HIDE DEF all
<1>4. gathered'.queue = all /\ gathered' = [unconfirmed |-> gathered.unconfirmed, queue |-> all]
      /\ gathered'.unconfirmed = gathered.unconfirmed
  BY <1>1 DEF IInv, TaskTyped
<1>5. TaskTyped'
  BY <1>1, <1>4, SameChain DEF IInv, TaskTyped, Steps
<1>6. \A id \in DOMAIN new : /\ new[id] \in Entries /\ new[id].block \in 1 .. target - Confirmations
                             /\ Has(new[id].block, "request", id, new[id].tx)
                             /\ new[id].outdated => id < Len(served)
  <2>1. \A id \in DOMAIN new : new[id] \in Entries /\ new[id].block \in 1 .. AcceptedTo
    BY <1>2, Bounds, EthWatchAssumption DEF Holds, Entries
  <2> QED BY <1>1, <1>2, <2>1, Bounds, Numbers DEF Holds
<1>7. \A id \in DOMAIN queue : /\ queue[id] \in Entries
                               /\ queue[id].block \in 1 .. last - Confirmations
                               /\ Has(queue[id].block, "request", id, queue[id].tx)
                               /\ queue[id].outdated => id < Len(served)
  BY Numbers DEF IInv, Holds, Entries
<1>8. Holds(gathered.queue, target - Confirmations)'
  <2>1. ASSUME NEW id \in DOMAIN all
        PROVE  /\ all[id] \in Entries /\ all[id].block <= target - Confirmations
               /\ Has(all[id].block, "request", id, all[id].tx)
               /\ all[id].outdated => id < Len(served)
    <3>1. CASE id \in DOMAIN new
      BY <1>3, <1>6, <3>1, Numbers
    <3>2. CASE id \notin DOMAIN new
      <4>1. id \in DOMAIN queue /\ all[id] = queue[id]
        BY <1>3, <3>2
      <4>2. queue[id].block <= target - Confirmations
        BY <1>1, <1>7, <4>1, Numbers
      <4> QED BY <1>7, <4>1, <4>2
    <3> QED BY <3>1, <3>2
  <2> QED BY <1>1, <1>4, <2>1, SameChain DEF Holds
\* A request of this number and transaction is the only one.
<1>9. ASSUME NEW id \in DOMAIN queue, NEW b, NEW tx, Has(b, "request", id, tx), b \in 1 .. Height
      PROVE  tx = queue[id].tx
  <2>1. queue[id].block \in 1 .. Height /\ Has(queue[id].block, "request", id, queue[id].tx)
    BY <1>7, Numbers
  <2>2. /\ b \in BlocksWith("request") /\ chain[b].tx = tx /\ Number("request", b) = id
        /\ queue[id].block \in BlocksWith("request") /\ chain[queue[id].block].tx = queue[id].tx
        /\ Number("request", queue[id].block) = id
    BY <1>9, <2>1, HasIsBlock, Numbers DEF IInv
  <2> QED BY <2>2, OneBlock, Numbers DEF IInv
<1>10. ASSUME NEW b \in SeenUpTo(target), chain[b].event = "request"
       PROVE  \/ \E id \in DOMAIN all : all[id].tx = chain[b].tx
              \/ \E n \in DOMAIN served : served[n] = chain[b].tx
  <2>1. b \in 1 .. target - Confirmations /\ b \in 1 .. Height
    BY Numbers DEF SeenUpTo
  <2>2. CASE b \in AcceptedFrom .. AcceptedTo
    <3>1. b \in BlocksWith("request")
      BY <1>10, <2>1, Numbers DEF BlocksWith
    <3>2. PICK id \in DOMAIN new : new[id].tx = chain[b].tx
      BY <1>2, <2>2, <3>1
    <3> QED BY <1>3, <3>2
  <2>3. CASE b \in 1 .. last - Confirmations
    <3>1. b \in SeenUpTo(last)
      BY <2>3 DEF SeenUpTo
    <3>2. CASE \E n \in DOMAIN served : served[n] = chain[b].tx
      BY <3>2
    <3>3. CASE \E id \in DOMAIN queue : queue[id].tx = chain[b].tx
      <4>1. PICK id \in DOMAIN queue : queue[id].tx = chain[b].tx
        BY <3>3
      <4>2. CASE queue[id].outdated
        <5>1. served \in Seq(Txs) /\ DOMAIN served = 1 .. Len(served) /\ Len(served) \in Nat
          BY LenProperties DEF IInv, Taken
        <5>2. id \in Nat
          <6>1. Number("request", queue[id].block) = id
            BY <1>7 DEF Has
          <6> QED BY <6>1, NumberFacts, Numbers DEF IInv
        <5>3. id + 1 \in 1 .. Len(served)
          BY <1>7, <4>2, <5>1, <5>2
        <5>4. PICK a \in 1 .. Confirmed : Has(a, "request", (id + 1) - 1, served[id + 1])
          BY <5>3 DEF IInv, Taken
        <5>5. a \in 1 .. Height /\ (id + 1) - 1 = id
          BY <5>2, Numbers DEF Confirmed
        <5>6. served[id + 1] = queue[id].tx
          BY <1>9, <5>4, <5>5
        <5> QED BY <4>1, <5>1, <5>3, <5>6
      <4>3. CASE ~ queue[id].outdated
        <5>1. id \in DOMAIN all
          BY <1>3, <4>3
        <5>2. all[id].tx = queue[id].tx
          <6>1. CASE id \in DOMAIN new
            <7>1. new[id].block \in 1 .. Height /\ Has(new[id].block, "request", id, new[id].tx)
              BY <1>6, <6>1, Numbers
            <7> QED BY <1>3, <1>9, <5>1, <6>1, <7>1
          <6>2. CASE id \notin DOMAIN new
            BY <1>3, <5>1, <6>2
          <6> QED BY <6>1, <6>2
        <5> QED BY <4>1, <5>1, <5>2
      <4> QED BY <4>2, <4>3
    <3> QED BY <1>1, <1>10, <3>1, <3>2, <3>3 DEF IInv, Polled, Kept
  <2> QED BY <1>1, <2>1, <2>2, <2>3, Bounds
<1>11. Polled'
  <2>1. Kept(gathered.queue, SeenUpTo(target))'
    BY <1>1, <1>4, <1>10 DEF Kept, SeenUpTo
  <2>2. Written(SeenUpTo(target))'
    BY <1>1 DEF IInv, Polled, Written, SeenUpTo
  <2>3. Kept(queue, SeenUpTo(last))' /\ Written(SeenUpTo(last))'
    BY <1>1, Kept0
  <2> QED BY <1>1, <1>8, <2>1, <2>2, <2>3 DEF Polled
<1>12. Restored'
  BY <1>1 DEF Restored
<1> QED BY <1>1, <1>5, <1>11, <1>12, Kept0 DEF IInv

\* The last query of a poll: the state is replaced as a whole.
LEMMA PollUnconfirmedInv ==
  ASSUME IInv, PollUnconfirmed
  PROVE  IInv'
<1> DEFINE U == UnconfirmedOps(target)
           w == SaturatingSub(target, Confirmations)
<1>1. /\ task = "poll" /\ step = "unconfirmed"
      /\ task' = "idle" /\ step' = "none" /\ target' = 0
      /\ gathered' = [unconfirmed |-> {}, queue |-> <<>>]
      /\ last' = target /\ started' = started
      /\ unconfirmed' = U /\ queue' = gathered.queue
      /\ UNCHANGED <<chain, mode, completed, served>>
  BY DEF PollUnconfirmed, SetNewState
<1>2. /\ Holds(gathered.queue, target - Confirmations)
      /\ Kept(gathered.queue, SeenUpTo(target)) /\ Written(SeenUpTo(target))
  BY <1>1 DEF IInv, Polled
<1>3. \A e \in U : /\ e \in Unconfirmed /\ e.id = Number("request", e.block)
                   /\ e.block \in w + 1 .. Height
  <2>1. U = Logs("request", w + 1, Height)
    BY DEF UnconfirmedOps
  <2> HIDE DEF U, w
  <2> QED BY <2>1, LogsFacts, Numbers DEF IInv
<1> HIDE DEF U
<1>4. TaskTyped'
  BY <1>1, <1>3, Numbers, SameChain DEF IInv, TaskTyped, Steps
<1>5. Holds(queue, last - Confirmations)'
  BY <1>1, <1>2, SameChain DEF Holds
<1>6. Polled'
  <2>1. Kept(queue, SeenUpTo(last))' /\ Written(SeenUpTo(last))'
    BY <1>1, <1>2 DEF Kept, Written, SeenUpTo
  <2> QED BY <1>1, <2>1 DEF Polled
<1>7. Restored'
  BY <1>1 DEF Restored
<1>8. NotTwice'
  <2>1. ASSUME NEW e \in U, e.id \in DOMAIN gathered.queue
        PROVE  FALSE
    <3> DEFINE b == gathered.queue[e.id].block
    <3>1. /\ gathered.queue[e.id] \in Entries /\ b <= target - Confirmations
          /\ Has(b, "request", e.id, gathered.queue[e.id].tx)
      BY <1>2, <2>1 DEF Holds
    <3>2. b \in 1 .. Height /\ b < w + 1
      BY <3>1, Numbers, EthWatchAssumption DEF Entries, SaturatingSub
    <3> HIDE DEF b
    <3>3. b \in BlocksWith("request") /\ Number("request", b) = e.id
      BY <3>1, <3>2, Numbers, HasIsBlock DEF IInv
    <3>4. e.block \in Int /\ b < e.block
      <4>1. w \in Nat
        BY Numbers DEF SaturatingSub
      <4> HIDE DEF w
      <4> QED BY <1>3, <3>2, <4>1
    <3>5. Number("request", b) < Number("request", e.block) /\ Number("request", b) \in Int
      BY <3>3, <3>4, Numbers, NumberFacts DEF IInv
    <3> QED BY <1>3, <3>3, <3>5
  <2> QED BY <1>1, <2>1 DEF NotTwice
<1> QED BY <1>1, <1>4, <1>5, <1>6, <1>7, <1>8, Kept0 DEF IInv

LEMMA NextInv == IInv /\ [Next]_vars => IInv'
<1> SUFFICES ASSUME IInv, [Next]_vars
             PROVE  IInv'
  OBVIOUS
<1>1. CASE Mine \/ Reorg
  BY <1>1, ChainStepInv
<1>2. CASE Restore
  BY <1>2, RestoreInv
<1>3. CASE Poll
  BY <1>3, PollInv
<1>4. CASE RestoreUnconfirmed
  BY <1>4, RestoreUnconfirmedInv
<1>5. CASE StoreCompleteWithdrawals
  BY <1>5, StoreCompleteWithdrawalsInv
<1>6. CASE RestoreQueue
  BY <1>6, RestoreQueueInv
<1>7. CASE PollPriorityOps
  BY <1>7, PollPriorityOpsInv
<1>8. CASE PollUnconfirmed
  BY <1>8, PollUnconfirmedInv
<1>9. CASE GetPriorityQueueOps
  BY <1>9, GetPriorityQueueOpsInv
<1>10. CASE QueryFails
  BY <1>10, QueryFailsInv
<1>11. CASE Age
  BY <1>11, AgeInv
<1>12. CASE Restart
  BY <1>12, RestartInv
<1>13. CASE UNCHANGED vars
  <2>1. UNCHANGED <<chain, task, step, target, gathered, last, unconfirmed, queue, mode,
                    completed, served, started>>
    BY <1>13 DEF vars, task_vars, state
  <2>2. TaskTyped'
    BY <2>1, SameChain DEF IInv, TaskTyped
  <2>3. Polled' /\ Restored'
    BY <2>1, SameChain DEF IInv, Polled, Restored, Kept, Written, Holds, SeenUpTo, Window,
                           SaturatingSub
  <2> QED BY <2>1, <2>2, <2>3, Kept0 DEF IInv
<1> QED BY <1>1, <1>2, <1>3, <1>4, <1>5, <1>6, <1>7, <1>8, <1>9, <1>10, <1>11, <1>12, <1>13
        DEF Next, Watch

LEMMA Invariant == Spec => []IInv
BY InitInv, NextInv, PTL DEF Spec

-----------------------------------------------------------------------------
(* The theorems *)

\* What Number counts is what the properties count.
LEMMA NumberIsCount ==
  ASSUME IInv, NEW event \in EventKinds, NEW b \in 1 .. Height
  PROVE  Number(event, b) = Cardinality({j \in 1 .. b - 1 : chain[j].event = event})
<1>1. DOMAIN chain = 1 .. Height /\ Height \in Nat
  BY Numbers
<1>2. \A a : a \in {x \in BlocksWith(event) : x < b} <=> a \in {j \in 1 .. b - 1 : chain[j].event = event}
  BY <1>1 DEF BlocksWith
<1>3. {x \in BlocksWith(event) : x < b} = {j \in 1 .. b - 1 : chain[j].event = event}
  BY <1>2
<1> QED BY <1>3 DEF Number

LEMMA QueueHolds == IInv => QueueIsContractQueue
<1> SUFFICES ASSUME IInv
             PROVE  QueueIsContractQueue
  OBVIOUS
<1>1. ASSUME NEW n, NEW tx, NEW b \in 1 .. Confirmed, Has(b, "request", n, tx)
      PROVE  IsRequest(n, tx, Confirmed)
  <2>1. b \in 1 .. Height
    BY Numbers DEF Confirmed
  <2> QED BY <1>1, <2>1, NumberIsCount, Numbers DEF Has, IsRequest
<1>2. \A id \in DOMAIN queue : /\ queue[id] \in Entries /\ queue[id].block \in 1 .. Confirmed
                               /\ Has(queue[id].block, "request", id, queue[id].tx)
  BY Numbers DEF IInv, Holds, Entries, Confirmed
<1>3. QueueIsFinal
  BY <1>1, <1>2 DEF QueueIsFinal, Confirmed
<1>4. served \in Seq(Txs) /\ DOMAIN served = 1 .. Len(served) /\ Len(served) \in Nat
  BY LenProperties DEF IInv, Taken
<1>5. ServedIsContractQueue
  <2>1. \A n \in DOMAIN served : IsRequest(n - 1, served[n], Confirmed)
    BY <1>1, <1>4 DEF IInv, Taken
  <2> QED BY <2>1 DEF ServedIsContractQueue, Confirmed
<1>6. IsInjective(served) /\ Range(served) \subseteq Txs
  <2>1. ASSUME NEW m \in 1 .. Len(served), NEW n \in 1 .. Len(served), served[m] = served[n]
        PROVE  m = n
    <3>1. PICK a \in 1 .. Confirmed : Has(a, "request", m - 1, served[m])
      BY DEF IInv, Taken
    <3>2. PICK b \in 1 .. Confirmed : Has(b, "request", n - 1, served[n])
      BY DEF IInv, Taken
    <3>3. a \in 1 .. Height /\ b \in 1 .. Height
      BY Numbers DEF Confirmed
    <3>4. /\ a \in BlocksWith("request") /\ chain[a].tx = served[m] /\ Number("request", a) = m - 1
          /\ b \in BlocksWith("request") /\ chain[b].tx = served[n] /\ Number("request", b) = n - 1
      BY <3>1, <3>2, <3>3, HasIsBlock, Numbers DEF IInv
    <3>5. a = b
      BY <2>1, <3>4, OneBlock, Numbers DEF IInv
    <3> QED BY <1>4, <3>4, <3>5
  <2>2. \A n \in 1 .. Len(served) : served[n] \in Txs
    BY <1>4, ElementOfSeq
  <2>3. Range(served) = {served[n] : n \in 1 .. Len(served)}
    BY <1>4, RangeIsImage
  <2> QED BY <1>4, <2>1, <2>2, <2>3 DEF IsInjective
<1>7. ASSUME NEW ops, NEW top, Holds(ops, top), top <= Height, top \in Int
      PROVE  DOMAIN ops \subseteq 0 .. MaxEvents /\ Range(ops) \subseteq Entries
  <2>1. \A id \in DOMAIN ops : ops[id] \in Entries /\ Number("request", ops[id].block) = id
    BY <1>7 DEF Holds, Has
  <2>2. DOMAIN ops \subseteq 0 .. MaxEvents
    BY <2>1, NumberFacts, Numbers DEF IInv
  <2> QED BY <2>1, <2>2, RangeIsImage
<1>8. DOMAIN queue \subseteq 0 .. MaxEvents /\ Range(queue) \subseteq Entries
  BY <1>7, Numbers DEF IInv
<1>9. DOMAIN gathered.queue \subseteq 0 .. MaxEvents /\ Range(gathered.queue) \subseteq Entries
  <2>1. CASE task = "poll" /\ step = "unconfirmed"
    BY <1>7, <2>1, Numbers DEF IInv, Polled
  <2>2. CASE ~ (task = "poll" /\ step = "unconfirmed")
    <3>1. DOMAIN gathered.queue = {}
      BY <2>2, NoneHeld DEF IInv, TaskTyped
    <3> QED BY <3>1, RangeIsImage
  <2> QED BY <2>1, <2>2
<1>10. /\ task \in {"down", "restore", "idle", "poll"}
       /\ step \in {"none", "unconfirmed", "withdrawals", "requests"}
       /\ (task \in {"restore", "poll"}) = (step # "none")
       /\ {target, last, started} \subseteq 0 .. Height
       /\ mode \in {"Working", "Backoff"} /\ DOMAIN completed \subseteq Txs
  BY DEF IInv, TaskTyped, Finished, Steps
<1>11. \A e \in unconfirmed \cup gathered.unconfirmed : e.tx \in Txs /\ e.block \in 1 .. MaxBlock
  BY DEF IInv, TaskTyped, Unconfirmed
<1>12. TypeOK
  BY <1>6, <1>8, <1>9, <1>10, <1>11 DEF TypeOK, IInv, ChainTyped, Blocks, EventKinds
<1> QED BY <1>3, <1>5, <1>12 DEF QueueIsContractQueue, IInv

\* What is offered to the proposer and what it has taken is the contract's queue, in its
\* order and under its serial ids, and no reorganisation reaches it
\* (process_new_blocks, get_priority_requests): whatever blocks are replaced, queries fail
\* or restarts come between the queries of one poll.
THEOREM QueueIsTheContracts == Spec => []QueueIsContractQueue
BY Invariant, QueueHolds, PTL

LEMMA SeenHolds == IInv => SeenIsKept
<1> SUFFICES ASSUME IInv
             PROVE  SeenIsKept
  OBVIOUS
<1>1. Seen = SeenUpTo(last)
  BY DEF Seen, SeenUpTo
<1>2. task \in {"idle", "poll"} => Kept(queue, Seen) /\ Written(Seen)
  BY <1>1 DEF IInv, Polled
<1>3. ASSUME NEW tx \in DOMAIN completed
      PROVE  \E i \in 1 .. Height - Confirmations :
                /\ chain[i] = [event |-> "completion", tx |-> tx]
                /\ completed[tx] = Cardinality({j \in 1 .. i - 1 : chain[j].event = "completion"})
  <2>1. PICK b \in 1 .. Confirmed : Has(b, "completion", completed[tx], tx)
    BY DEF IInv, Finished
  <2>2. b \in 1 .. Height /\ b \in 1 .. Height - Confirmations
    BY Numbers DEF Confirmed
  <2> QED BY <2>1, <2>2, NumberIsCount, Numbers DEF Has
<1> QED BY <1>2, <1>3 DEF SeenIsKept, NothingSkipped, WithdrawalsStored, Kept, Written

\* No failure, backoff or restart makes the watcher pass a confirmed request without
\* keeping it or a completed withdrawal without storing it, apart from the window that a
\* restart leaves out (process_new_blocks, restore_state_from_eth).
THEOREM NothingSeenIsLost == Spec => []SeenIsKept
BY Invariant, SeenHolds, PTL
=============================================================================
