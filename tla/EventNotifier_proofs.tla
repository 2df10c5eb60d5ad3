------------------------- MODULE EventNotifier_proofs -------------------------
(***************************************************************************)
(* Theorems about the subscriptions of the API server, for every set of    *)
(* operations and subscribers and every number of blocks and restarts.     *)
(***************************************************************************)
EXTENDS EventNotifier, DataFacts, TLAPS

-----------------------------------------------------------------------------
(* The inductive invariant *)

Rows == [block : 1 .. MaxBlock, success : BOOLEAN, index : 0 .. Cardinality(Ops)]
Subs == [state : {"none", "requested", "waiting", "answered"}, entity : Ops \cup {Account},
         action : Actions, answer : Answer]
BlockEvents == [action : Actions, block : Nat]
TxEvents == [block : 1 .. MaxBlock, ops : SUBSET Ops]

\* A transaction is executed once; its row stays. Priority operations succeed.
TablesTyped ==
    /\ DOMAIN executed \subseteq Ops
    /\ \A o \in DOMAIN executed :
          /\ executed[o] \in Rows /\ executed[o].block <= committed + 1
          /\ o \in PriorityOps => executed[o].success
    /\ confirmed \in Nat /\ verified \in Nat /\ committed \in Nat
    /\ confirmed <= verified /\ verified <= committed /\ committed <= MaxBlock
    /\ pending \in {0, committed + 1} /\ (pending # 0 => pending <= MaxBlock)

ChannelsTyped ==
    /\ fetcher = [pc |-> fetcher.pc, committed |-> fetcher.committed,
                  verified |-> fetcher.verified, pending |-> fetcher.pending]
    /\ fetcher.pc \in {"verified", "committed", "pending"}
    /\ fetcher.committed \in Nat /\ fetcher.verified \in Nat
    /\ fetcher.committed <= committed /\ fetcher.verified <= verified
    /\ blockEvents \in Seq(BlockEvents) /\ txEvents \in Seq(TxEvents)
    /\ subs \in [Subscribers -> Subs]

\* Nothing is sent before it is in the tables.
EventsTrue ==
    /\ \A k \in 1 .. Len(blockEvents) :
          blockEvents[k].action = "VERIFY" => blockEvents[k].block <= verified
    /\ \A k \in 1 .. Len(txEvents) : txEvents[k].ops \subseteq InBlock(txEvents[k].block)

\* A cached block is confirmed.
CacheTrue == \A b \in DOMAIN blockInfos : blockInfos[b] = TRUE /\ b \in 1 .. confirmed

\* What a subscription was answered is so, and an operation with an answer has a row.
TrueSub(sub) ==
    sub.state = "answered" =>
        /\ sub.entity # Account => sub.entity \in DOMAIN executed
        /\ sub.entity \in DOMAIN executed =>
              /\ sub.answer.block = executed[sub.entity].block
              /\ sub.answer.success = executed[sub.entity].success
        /\ sub.answer.verified => sub.answer.block <= verified
        /\ sub.action = "VERIFY" => sub.answer.verified

Truth ==
    /\ TablesTyped /\ ChannelsTyped /\ EventsTrue /\ CacheTrue
    /\ \A s \in Subscribers : TrueSub(subs[s])

\* The event for a subscription that waits is still to come.
Remembered(sub) ==
    sub.state = "waiting" /\ sub.entity \in DOMAIN executed =>
        EventAhead(sub.action, executed[sub.entity].block)

\* The last conjunct when nobody asks for VERIFY between it and its confirmation.
IInv == Truth /\ (~ WatchUnconfirmed => \A s \in Subscribers : Remembered(subs[s]))

-----------------------------------------------------------------------------
(* Answers *)

\* An event about a block that holds the operation answers truly.
LEMMA EventAnswers ==
  ASSUME TablesTyped, NEW sub \in Subs, NEW block, NEW action \in Actions, sub.action = action,
         sub.entity \in InBlock(block), action = "VERIFY" => block <= verified
  PROVE  LET new == Answered(sub, EventAnswer(sub.entity, block, action))
         IN  new \in Subs /\ new.state = "answered" /\ TrueSub(new)
<1> DEFINE o == sub.entity
           answer == EventAnswer(o, block, action)
           new == Answered(sub, answer)
<1>1. o \in DOMAIN executed /\ executed[o].block = block /\ executed[o] \in Rows
  BY DEF InBlock, TablesTyped
<1>2. answer = [block |-> block, committed |-> TRUE, verified |-> action = "VERIFY",
                success |-> executed[o].success]
  BY DEF EventAnswer
<1>20. /\ answer.block = block /\ answer.success = executed[o].success
       /\ answer.verified <=> action = "VERIFY"
  <2> HIDE DEF answer
  <2>1. PICK v : v = (action = "VERIFY")
    OBVIOUS
  <2>2. answer = [block |-> block, committed |-> TRUE, verified |-> v,
                  success |-> executed[o].success]
    BY <1>2, <2>1
  <2>3. answer.block = block /\ answer.success = executed[o].success /\ answer.verified = v
    BY <2>2
  <2> QED BY <2>1, <2>3
<1>3. answer \in Answer
  <2>1. block \in 0 .. MaxBlock /\ executed[o].success \in BOOLEAN /\ (action = "VERIFY") \in BOOLEAN
    BY <1>1, NotifierAssumption DEF Rows
  <2> QED BY <1>2, <2>1 DEF Answer
<1> HIDE DEF answer
<1>4. /\ new \in Subs /\ new.state = "answered" /\ new.answer = answer
      /\ new.entity = o /\ new.action = action
  BY <1>3 DEF Answered, Subs
<1> HIDE DEF new
<1>5. TrueSub(new)
  BY <1>1, <1>20, <1>4 DEF TrueSub
<1> QED BY <1>4, <1>5 DEF new, answer

\* An account is answered from the tables, for VERIFY from the verified blocks.
LEMMA AccountAnswers ==
  ASSUME TablesTyped, NEW sub \in Subs, sub.entity = Account
  PROVE  LET new == Answered(sub, AccountAnswer(sub.action))
         IN  new \in Subs /\ new.state = "answered" /\ TrueSub(new)
<1> DEFINE action == sub.action
           answer == AccountAnswer(action)
           new == Answered(sub, answer)
           S == {0} \cup {executed[o].block : o \in {p \in DOMAIN executed :
                    executed[p].success /\ (action = "VERIFY" => executed[p].block <= verified)}}
<1>1. S \subseteq 0 .. MaxBlock /\ S # {}
  <2>1. \A o \in DOMAIN executed : executed[o].block \in 1 .. MaxBlock
    BY DEF TablesTyped, Rows
  <2> QED BY <2>1, NotifierAssumption
<1>2. Max(S) \in S
  BY <1>1, MaxIsMember, NotifierAssumption
<1>3. Max(S) \in 0 .. MaxBlock /\ (action = "VERIFY" => Max(S) <= verified)
  BY <1>1, <1>2 DEF TablesTyped
<1>4. AccountAt(action) = Max(S)
  BY DEF AccountAt
<1> HIDE DEF S
<1>5. answer = [block |-> Max(S), committed |-> TRUE, verified |-> action = "VERIFY",
                success |-> TRUE]
  BY <1>4 DEF AccountAnswer
<1>50. answer.block = Max(S) /\ (answer.verified <=> action = "VERIFY")
  <2> HIDE DEF answer
  <2>1. PICK v : v = (action = "VERIFY")
    OBVIOUS
  <2>2. answer = [block |-> Max(S), committed |-> TRUE, verified |-> v, success |-> TRUE]
    BY <1>5, <2>1
  <2>3. answer.block = Max(S) /\ answer.verified = v
    BY <2>2
  <2> QED BY <2>1, <2>3
<1>6. answer \in Answer
  <2>1. (action = "VERIFY") \in BOOLEAN
    OBVIOUS
  <2> QED BY <1>3, <1>5, <2>1 DEF Answer
<1> HIDE DEF answer
<1>7. /\ new \in Subs /\ new.state = "answered" /\ new.answer = answer
      /\ new.entity = Account /\ new.action = action
  BY <1>6 DEF Answered, Subs
<1> HIDE DEF new
<1>8. Account \notin DOMAIN executed
  BY NotifierAssumption DEF TablesTyped
<1>9. TrueSub(new)
  BY <1>3, <1>50, <1>7, <1>8 DEF TrueSub
<1> QED BY <1>7, <1>9 DEF new, answer

-----------------------------------------------------------------------------
(* The core: the tables grow *)

\* An operation gets its row in the block that is not committed yet, and nothing is
\* taken back: what has been sent, cached and answered stays true.
LEMMA TablesGrow ==
  ASSUME IInv, TablesTyped', UNCHANGED <<fetcher, blockEvents, txEvents, blockInfos, subs>>,
         committed <= committed', verified <= verified', confirmed <= confirmed',
         \A o \in DOMAIN executed : o \in DOMAIN executed' /\ executed'[o] = executed[o],
         \A o \in DOMAIN executed' : o \notin DOMAIN executed => executed'[o].block = committed + 1
  PROVE  IInv'
<1>1. /\ committed \in Nat /\ verified \in Nat /\ confirmed \in Nat
      /\ committed' \in Nat /\ verified' \in Nat /\ confirmed' \in Nat
      /\ fetcher.committed \in Nat /\ fetcher.verified \in Nat
      /\ fetcher.committed <= committed /\ fetcher.verified <= verified /\ verified <= committed
  BY DEF IInv, Truth, TablesTyped, ChannelsTyped
<1>2. ChannelsTyped'
  BY <1>1 DEF IInv, Truth, ChannelsTyped
<1>3. EventsTrue'
  <2>1. \A b : InBlock(b) \subseteq InBlock(b)'
    BY DEF InBlock
  <2>2. ASSUME NEW k \in 1 .. Len(blockEvents), blockEvents[k].action = "VERIFY"
        PROVE  blockEvents[k].block <= verified'
    <3>1. blockEvents[k] \in BlockEvents
      BY ElementOfSeq DEF IInv, Truth, ChannelsTyped
    <3>2. blockEvents[k].block \in Nat /\ blockEvents[k].block <= verified
      BY <2>2, <3>1 DEF IInv, Truth, EventsTrue, BlockEvents
    <3> QED BY <1>1, <3>2
  <2>3. \A k \in 1 .. Len(txEvents) : txEvents[k].ops \subseteq InBlock(txEvents[k].block)'
    BY <2>1 DEF IInv, Truth, EventsTrue
  <2>4. \A k \in 1 .. Len(txEvents) :
           InBlock(txEvents[k].block)' = {o \in DOMAIN executed' : executed'[o].block = txEvents[k].block}
    BY DEF InBlock
  <2> QED BY <2>2, <2>3, <2>4 DEF EventsTrue, InBlock
<1>4. CacheTrue'
  BY <1>1 DEF IInv, Truth, CacheTrue
<1>5. ASSUME NEW s \in Subscribers
      PROVE  TrueSub(subs[s])'
  <2>1. TrueSub(subs[s]) /\ subs[s] \in Subs
    BY DEF IInv, Truth, ChannelsTyped
  <2>2. subs[s].answer.block \in Nat
    BY <2>1, NotifierAssumption DEF Subs, Answer
  <2>3. subs[s].entity # Account \/ subs[s].entity \notin DOMAIN executed'
    BY NotifierAssumption DEF TablesTyped
  <2> QED BY <1>1, <2>1, <2>2, <2>3 DEF TrueSub
<1>6. ASSUME ~ WatchUnconfirmed, NEW s \in Subscribers
      PROVE  Remembered(subs[s])'
  <2>1. Remembered(subs[s])
    BY <1>6 DEF IInv
  <2>2. \A action, b : EventAhead(action, b)' <=> EventAhead(action, b)
    BY DEF EventAhead
  <2>3. \A action : EventAhead(action, committed + 1)
    BY <1>1 DEF EventAhead
  <2>4. \A o \in DOMAIN executed' : o \in DOMAIN executed \/ executed'[o].block = committed + 1
    OBVIOUS
  <2>5. PICK e, a : e = subs[s].entity /\ a = subs[s].action
    OBVIOUS
  <2>6. ASSUME subs[s].state = "waiting", e \in DOMAIN executed'
        PROVE  EventAhead(a, executed'[e].block)
    BY <2>1, <2>3, <2>4, <2>5, <2>6 DEF Remembered
  <2>7. ASSUME subs[s].state = "waiting", e \in DOMAIN executed'
        PROVE  EventAhead(a, executed[e].block)'
    <3>1. PICK b : b = executed'[e].block
      OBVIOUS
    <3>2. EventAhead(a, b)'
      BY <2>2, <2>6, <2>7, <3>1
    <3> QED BY <3>1, <3>2 DEF EventAhead
  <2> QED BY <2>5, <2>7 DEF Remembered, EventAhead
<1> QED BY <1>2, <1>3, <1>4, <1>5, <1>6 DEF IInv, Truth

LEMMA ExecuteInv ==
  ASSUME IInv, NEW o \in Ops, NEW success \in BOOLEAN, Execute(o, success)
  PROVE  IInv'
<1> DEFINE n == IF success THEN Cardinality(Succeeded(committed + 1)) ELSE 0
           row == [block |-> committed + 1, success |-> success, index |-> n]
<1>1. /\ o \in Ops \ DOMAIN executed /\ committed < MaxBlock
      /\ o \in PriorityOps => success
      /\ executed' = [p \in DOMAIN executed \cup {o} |-> IF p = o THEN row ELSE executed[p]]
      /\ pending' = committed + 1
      /\ UNCHANGED <<committed, verified, confirmed, fetcher, blockEvents, txEvents, blockInfos, subs>>
  BY DEF Execute
<1>2. n \in 0 .. Cardinality(Ops)
  <2>1. Succeeded(committed + 1) \subseteq Ops
    BY DEF Succeeded, InBlock, IInv, Truth, TablesTyped
  <2>2. /\ Cardinality(Ops) \in Nat /\ Cardinality(Succeeded(committed + 1)) \in Nat
        /\ Cardinality(Succeeded(committed + 1)) <= Cardinality(Ops)
    BY <2>1, FS_Subset, FS_CardinalityType, NotifierAssumption
  <2> QED BY <2>2
<1> HIDE DEF n
<1>3. TablesTyped
  BY DEF IInv, Truth
<1>4. row \in Rows
  BY <1>1, <1>2, <1>3, NotifierAssumption DEF Rows, TablesTyped
<1>5. TablesTyped'
  <2>1. \A p \in DOMAIN executed' : p = o \/ p \in DOMAIN executed
    BY <1>1
  <2>2. \A p \in DOMAIN executed : executed'[p] = executed[p]
    BY <1>1
  <2>3. executed'[o] = row
    BY <1>1
  <2>4. row.block = committed + 1 /\ row.success = success
    OBVIOUS
  <2>5. committed + 1 <= MaxBlock /\ committed \in Nat
    BY <1>1, <1>3, NotifierAssumption DEF TablesTyped
  <2> HIDE DEF row
  <2>6. ASSUME NEW p \in DOMAIN executed'
        PROVE  /\ executed'[p] \in Rows /\ executed'[p].block <= committed + 1
               /\ p \in PriorityOps => executed'[p].success
    BY <1>1, <1>3, <1>4, <2>1, <2>2, <2>3, <2>4, <2>5 DEF TablesTyped
  <2>7. DOMAIN executed' \subseteq Ops
    BY <1>1, <1>3 DEF TablesTyped
  <2> QED BY <1>1, <1>3, <2>5, <2>6, <2>7 DEF TablesTyped
<1>6. /\ \A p \in DOMAIN executed : p \in DOMAIN executed' /\ executed'[p] = executed[p]
      /\ \A p \in DOMAIN executed' : p \notin DOMAIN executed => executed'[p].block = committed + 1
  BY <1>1
<1>7. committed <= committed' /\ verified <= verified' /\ confirmed <= confirmed'
  BY <1>1, <1>3 DEF TablesTyped
<1> QED BY <1>1, <1>5, <1>6, <1>7, TablesGrow

\* COMMIT, VERIFY and its confirmation go on by one block.
LEMMA BlocksInv ==
  ASSUME IInv, CommitBlock \/ VerifyBlock \/ ConfirmBlock
  PROVE  IInv'
<1>1. TablesTyped
  BY DEF IInv, Truth
<1>2. UNCHANGED <<executed, fetcher, blockEvents, txEvents, blockInfos, subs>>
  BY DEF CommitBlock, VerifyBlock, ConfirmBlock
<1>3. /\ TablesTyped'
      /\ committed <= committed' /\ verified <= verified' /\ confirmed <= confirmed'
  <2>1. CASE CommitBlock
    <3>1. PICK o \in DOMAIN executed : executed[o].block = committed + 1
      BY <2>1 DEF CommitBlock, Succeeded, InBlock
    <3>2. executed[o].block <= MaxBlock
      BY <1>1, NotifierAssumption DEF TablesTyped, Rows
    <3>3. /\ committed' = committed + 1 /\ committed' <= MaxBlock /\ pending' = 0
          /\ UNCHANGED <<executed, verified, confirmed>>
      BY <2>1, <3>1, <3>2 DEF CommitBlock
    <3>4. \A p \in DOMAIN executed : executed[p].block \in Int
      BY <1>1 DEF TablesTyped, Rows
    <3> QED BY <1>1, <3>3, <3>4 DEF TablesTyped
  <2>2. CASE VerifyBlock
    BY <1>1, <2>2 DEF VerifyBlock, TablesTyped
  <2>3. CASE ConfirmBlock
    BY <1>1, <2>3 DEF ConfirmBlock, TablesTyped
  <2> QED BY <2>1, <2>2, <2>3
<1> QED BY <1>2, <1>3, TablesGrow

-----------------------------------------------------------------------------
(* The fetcher *)

\* A step of the fetcher or the notifier leaves the tables alone.
LEMMA SameTables ==
  ASSUME UNCHANGED tables
  PROVE  /\ TablesTyped => TablesTyped'
         /\ \A sub : TrueSub(sub)' <=> TrueSub(sub)
         /\ \A b : InBlock(b)' = InBlock(b)
         /\ UNCHANGED <<executed, committed, verified, confirmed, pending>>
BY DEF tables, TablesTyped, TrueSub, InBlock

\* A channel that gets more events still has those it had.
LEMMA ChannelGrows ==
  ASSUME NEW S, NEW s \in Seq(S), NEW t \in Seq(S)
  PROVE  /\ s \o t \in Seq(S) /\ Len(s) \in Nat
         /\ \A k \in 1 .. Len(s) : k \in 1 .. Len(s \o t) /\ (s \o t)[k] = s[k]
         /\ \A k \in 1 .. Len(t) :
               Len(s) + k \in 1 .. Len(s \o t) /\ (s \o t)[Len(s) + k] = t[k]
         /\ \A k \in 1 .. Len(s \o t) :
               \/ k \in 1 .. Len(s)
               \/ k - Len(s) \in 1 .. Len(t) /\ (s \o t)[k] = t[k - Len(s)]
<1>1. /\ s \o t \in Seq(S) /\ Len(s \o t) = Len(s) + Len(t)
      /\ \A k \in 1 .. Len(s) + Len(t) :
            (s \o t)[k] = IF k <= Len(s) THEN s[k] ELSE t[k - Len(s)]
  BY ConcatProperties
<1>2. Len(s) \in Nat /\ Len(t) \in Nat
  BY LenProperties
<1> DEFINE st == s \o t
<1> HIDE DEF st
<1>3. /\ Len(st) = Len(s) + Len(t)
      /\ \A k \in 1 .. Len(s) + Len(t) : st[k] = IF k <= Len(s) THEN s[k] ELSE t[k - Len(s)]
  BY <1>1 DEF st
<1>4. \A k \in 1 .. Len(s) : k \in 1 .. Len(st) /\ st[k] = s[k]
  BY <1>2, <1>3
<1>5. \A k \in 1 .. Len(t) : Len(s) + k \in 1 .. Len(st) /\ st[Len(s) + k] = t[k]
  BY <1>2, <1>3
<1>6. \A k \in 1 .. Len(st) :
         \/ k \in 1 .. Len(s)
         \/ k - Len(s) \in 1 .. Len(t) /\ st[k] = t[k - Len(s)]
  BY <1>2, <1>3
<1> QED BY <1>1, <1>2, <1>4, <1>5, <1>6 DEF st

\* The events of a gap: one for each block of it.
LEMMA GapEvents ==
  ASSUME NEW action \in Actions, NEW from \in Nat, NEW to \in Nat
  PROVE  LET events == Events(action, from, to)
         IN  /\ events \in Seq(BlockEvents)
             /\ \A k \in 1 .. Len(events) : events[k].action = action /\ events[k].block <= to
             /\ \A b \in Nat : from < b /\ b <= to =>
                   \E k \in 1 .. Len(events) : events[k] = [action |-> action, block |-> b]
<1> DEFINE events == Events(action, from, to)
           n == IF from <= to THEN to - from ELSE 0
<1>1. n \in Nat /\ 1 .. n = 1 .. to - from
  OBVIOUS
<1>2. events = [k \in 1 .. n |-> [action |-> action, block |-> from + k]]
  BY <1>1 DEF Events
<1> HIDE DEF events
<1>3. events \in [1 .. n -> BlockEvents]
  BY <1>1, <1>2 DEF BlockEvents
<1>4. events \in Seq(BlockEvents) /\ Len(events) = n
  <2>1. events \in Seq(BlockEvents)
    BY <1>1, <1>3, SeqDef
  <2> QED BY <1>1, <1>3, <2>1, LenProperties
<1>5. \A k \in 1 .. n : events[k] = [action |-> action, block |-> from + k]
  BY <1>2
<1>6. \A k \in 1 .. n : events[k].action = action /\ events[k].block <= to
  <2>1. \A k \in 1 .. n : from + k <= to
    OBVIOUS
  <2> HIDE DEF n
  <2>2. ASSUME NEW k \in 1 .. n
        PROVE  events[k].action = action /\ events[k].block = from + k
    <3>1. events[k] = [action |-> action, block |-> from + k]
      BY <1>5
    <3> QED BY <3>1
  <2> QED BY <2>1, <2>2
<1>7. ASSUME NEW b \in Nat, from < b, b <= to
      PROVE  \E k \in 1 .. n : events[k] = [action |-> action, block |-> b]
  <2>1. b - from \in 1 .. n /\ from + (b - from) = b
    BY <1>7
  <2>2. events[b - from] = [action |-> action, block |-> from + (b - from)]
    BY <1>5, <2>1
  <2> QED BY <2>1, <2>2
<1> QED BY <1>4, <1>6, <1>7 DEF events

\* FetchVerified and FetchCommitted send the blocks of the gap and remember its end.
LEMMA FetchBlocksInv ==
  ASSUME IInv, NEW action \in Actions, NEW from, NEW to,
         from = (IF action = "COMMIT" THEN fetcher.committed ELSE fetcher.verified),
         to = (IF action = "COMMIT" THEN committed ELSE verified),
         blockEvents' = blockEvents \o Events(action, from, to),
         fetcher' = IF action = "COMMIT"
                    THEN [fetcher EXCEPT !.pc = "pending", !.committed = to]
                    ELSE [fetcher EXCEPT !.pc = "committed", !.verified = to],
         UNCHANGED <<tables, txEvents, blockInfos, subs>>
  PROVE  IInv'
<1> DEFINE new == Events(action, from, to)
<1>1. /\ TablesTyped /\ ChannelsTyped /\ EventsTrue
      /\ committed \in Nat /\ verified \in Nat /\ from \in Nat /\ to \in Nat
      /\ fetcher.committed \in Nat /\ fetcher.verified \in Nat
      /\ blockEvents \in Seq(BlockEvents)
  <2>1. TablesTyped /\ ChannelsTyped /\ EventsTrue
    BY DEF IInv, Truth
  <2>2. committed \in Nat /\ verified \in Nat
    BY <2>1 DEF TablesTyped
  <2>3. /\ fetcher.committed \in Nat /\ fetcher.verified \in Nat
        /\ blockEvents \in Seq(BlockEvents)
    BY <2>1 DEF ChannelsTyped
  <2> QED BY <2>1, <2>2, <2>3
<1>2. /\ new \in Seq(BlockEvents)
      /\ \A k \in 1 .. Len(new) : new[k].action = action /\ new[k].block <= to
      /\ \A b \in Nat : from < b /\ b <= to =>
            \E k \in 1 .. Len(new) : new[k] = [action |-> action, block |-> b]
  <2>1. from \in Nat /\ to \in Nat
    BY <1>1
  <2>2. action \in Actions
    OBVIOUS
  <2> QED BY ONLY <2>1, <2>2, GapEvents
<1>3. blockEvents' = blockEvents \o new
  OBVIOUS
<1> HIDE DEF new
<1>4. /\ blockEvents' \in Seq(BlockEvents) /\ Len(blockEvents) \in Nat
      /\ \A k \in 1 .. Len(blockEvents) : k \in 1 .. Len(blockEvents') /\ blockEvents'[k] = blockEvents[k]
      /\ \A k \in 1 .. Len(new) : /\ Len(blockEvents) + k \in 1 .. Len(blockEvents')
                                  /\ blockEvents'[Len(blockEvents) + k] = new[k]
      /\ \A k \in 1 .. Len(blockEvents') :
            \/ k \in 1 .. Len(blockEvents)
            \/ k - Len(blockEvents) \in 1 .. Len(new) /\ blockEvents'[k] = new[k - Len(blockEvents)]
  <2>1. blockEvents \in Seq(BlockEvents) /\ new \in Seq(BlockEvents)
    BY <1>1, <1>2
  <2> DEFINE all == blockEvents \o new
  <2>2. /\ all \in Seq(BlockEvents) /\ Len(blockEvents) \in Nat
        /\ \A k \in 1 .. Len(blockEvents) : k \in 1 .. Len(all) /\ all[k] = blockEvents[k]
        /\ \A k \in 1 .. Len(new) :
              Len(blockEvents) + k \in 1 .. Len(all) /\ all[Len(blockEvents) + k] = new[k]
        /\ \A k \in 1 .. Len(all) :
              \/ k \in 1 .. Len(blockEvents)
              \/ k - Len(blockEvents) \in 1 .. Len(new) /\ all[k] = new[k - Len(blockEvents)]
    BY <2>1, ChannelGrows
  <2>3. blockEvents' = all
    BY <1>3
  <2> HIDE DEF all
  <2> QED BY <2>2, <2>3
<1>5. /\ fetcher'.pc \in {"committed", "pending"} /\ fetcher'.pending = fetcher.pending
      /\ fetcher'.committed = (IF action = "COMMIT" THEN to ELSE fetcher.committed)
      /\ fetcher'.verified = (IF action = "COMMIT" THEN fetcher.verified ELSE to)
      /\ fetcher' = [pc |-> fetcher'.pc, committed |-> fetcher'.committed,
                     verified |-> fetcher'.verified, pending |-> fetcher'.pending]
  BY <1>1 DEF ChannelsTyped
<1>6. ChannelsTyped'
  BY <1>1, <1>4, <1>5, SameTables DEF ChannelsTyped
<1>7. EventsTrue'
  <2>1. ASSUME NEW k \in 1 .. Len(blockEvents'), blockEvents'[k].action = "VERIFY"
        PROVE  blockEvents'[k].block <= verified
    <3>1. CASE k \in 1 .. Len(blockEvents)
      BY <1>1, <1>4, <2>1, <3>1 DEF EventsTrue
    <3>2. CASE k - Len(blockEvents) \in 1 .. Len(new) /\ blockEvents'[k] = new[k - Len(blockEvents)]
      BY <1>2, <2>1, <3>2
    <3> QED BY <1>4, <3>1, <3>2
  <2> QED BY <1>1, <2>1, SameTables DEF EventsTrue
<1>8. CacheTrue' /\ \A s \in Subscribers : TrueSub(subs[s])'
  <2>1. \A s \in Subscribers : TrueSub(subs[s])' <=> TrueSub(subs[s])
    BY SameTables DEF TrueSub
  <2> QED BY <2>1, SameTables DEF IInv, Truth, CacheTrue
<1>9. ASSUME ~ WatchUnconfirmed, NEW s \in Subscribers
      PROVE  Remembered(subs[s])'
  <2>1. Remembered(subs[s])
    BY <1>9 DEF IInv
  <2>2. ASSUME NEW a \in Actions, NEW b \in Nat, EventAhead(a, b)
        PROVE  EventAhead(a, b)'
    <3>1. CASE \E k \in DOMAIN blockEvents : blockEvents[k] = [action |-> a, block |-> b]
      <4>1. DOMAIN blockEvents = 1 .. Len(blockEvents) /\ DOMAIN blockEvents' = 1 .. Len(blockEvents')
        BY <1>1, <1>4, LenProperties
      <4> QED BY <1>4, <3>1, <4>1 DEF EventAhead
    <3>2. CASE b > (IF a = "COMMIT" THEN fetcher.committed ELSE fetcher.verified)
      <4>1. CASE a = action /\ b <= to
        <5>1. PICK k \in 1 .. Len(new) : new[k] = [action |-> a, block |-> b]
          BY <1>2, <3>2, <4>1
        <5>2. DOMAIN blockEvents' = 1 .. Len(blockEvents')
          BY <1>4, LenProperties
        <5>3. blockEvents'[Len(blockEvents) + k] = [action |-> a, block |-> b]
          BY <1>4, <5>1
        <5> QED BY <1>4, <5>1, <5>2, <5>3 DEF EventAhead
      <4>2. CASE a = action /\ ~ (b <= to)
        <5>1. b > (IF a = "COMMIT" THEN fetcher'.committed ELSE fetcher'.verified)
          BY <1>1, <1>5, <4>2
        <5> QED BY <5>1 DEF EventAhead
      <4>3. CASE a # action
        <5>1. b > (IF a = "COMMIT" THEN fetcher'.committed ELSE fetcher'.verified)
          BY <1>5, <3>2, <4>3 DEF Actions
        <5> QED BY <5>1 DEF EventAhead
      <4> QED BY <4>1, <4>2, <4>3
    <3> QED BY <2>2, <3>1, <3>2 DEF EventAhead
  <2>3. ASSUME subs[s].state = "waiting", subs[s].entity \in DOMAIN executed
        PROVE  EventAhead(subs[s].action, executed[subs[s].entity].block)'
    <3>1. PICK a, b : a = subs[s].action /\ b = executed[subs[s].entity].block
      OBVIOUS
    <3>2. a \in Actions /\ b \in Nat
      BY <1>1, <2>3, <3>1, NotifierAssumption DEF ChannelsTyped, TablesTyped, Subs, Rows
    <3>3. EventAhead(a, b)'
      BY <2>1, <2>2, <2>3, <3>1, <3>2 DEF Remembered
    <3> QED BY <3>1, <3>3, SameTables DEF EventAhead
  <2> QED BY <2>3, SameTables DEF Remembered
<1> QED BY <1>1, <1>6, <1>7, <1>8, <1>9, SameTables DEF IInv, Truth

\* update_pending_block sends operations of the pending block only.
LEMMA FetchPendingInv ==
  ASSUME IInv, FetchPending
  PROVE  IInv'
<1>1. /\ TablesTyped /\ ChannelsTyped /\ EventsTrue
      /\ UNCHANGED <<tables, blockEvents, blockInfos, subs>>
  BY DEF IInv, Truth, FetchPending
<1>2. /\ fetcher'.pc = "verified" /\ fetcher'.committed = fetcher.committed
      /\ fetcher'.verified = fetcher.verified
      /\ fetcher' = [pc |-> fetcher'.pc, committed |-> fetcher'.committed,
                     verified |-> fetcher'.verified, pending |-> fetcher'.pending]
  <2>1. PICK p : fetcher' = [fetcher EXCEPT !.pc = "verified", !.pending = p]
    BY DEF FetchPending
  <2> QED BY <1>1, <2>1 DEF ChannelsTyped
<1>3. \/ txEvents' = txEvents
      \/ /\ pending # 0
         /\ \E ops \in SUBSET InBlock(pending) :
               txEvents' = Append(txEvents, [block |-> pending, ops |-> ops])
  <2> DEFINE new == PendingNow
             old == IF fetcher.pending.number = new.number THEN fetcher.pending
                    ELSE [NoPending EXCEPT !.number = new.number]
             changed == new.number > fetcher.committed /\ new # old
  <2>1. CASE txEvents' # txEvents
    <3>1. /\ changed
          /\ \E failures \in kSubset(new.failures - old.failures, Failed(pending)) :
                txEvents' = Append(txEvents, [block |-> pending, ops |->
                   {o \in Succeeded(pending) : executed[o].index >= old.successes} \cup failures])
      BY <2>1 DEF FetchPending
    <3>2. pending # 0
      <4>1. new.number > fetcher.committed
        BY <3>1
      <4>2. pending = 0 => new.number = 0
        BY DEF PendingNow, NoPending
      <4> QED BY <1>1, <4>1, <4>2 DEF ChannelsTyped
    <3>3. PICK failures \in kSubset(new.failures - old.failures, Failed(pending)) :
             txEvents' = Append(txEvents, [block |-> pending, ops |->
                {o \in Succeeded(pending) : executed[o].index >= old.successes} \cup failures])
      BY <3>1
    <3>4. failures \subseteq InBlock(pending)
      BY DEF kSubset, Failed
    <3>5. {o \in Succeeded(pending) : executed[o].index >= old.successes} \subseteq InBlock(pending)
      BY DEF Succeeded
    <3> HIDE DEF new, old, changed
    <3> QED BY <3>2, <3>3, <3>4, <3>5
  <2> QED BY <2>1
<1>4. txEvents' \in Seq(TxEvents)
      /\ \A k \in 1 .. Len(txEvents') : txEvents'[k].ops \subseteq InBlock(txEvents'[k].block)
  <2>1. CASE txEvents' = txEvents
    BY <1>1, <2>1 DEF ChannelsTyped, EventsTrue
  <2>2. CASE txEvents' # txEvents
    <3>1. PICK ops \in SUBSET InBlock(pending) :
             txEvents' = Append(txEvents, [block |-> pending, ops |-> ops])
      BY <1>3, <2>2
    <3>2. pending \in 1 .. MaxBlock /\ ops \in SUBSET Ops
      BY <1>1, <1>3, <2>2, NotifierAssumption DEF TablesTyped, InBlock
    <3> DEFINE e == [block |-> pending, ops |-> ops]
    <3>3. e \in TxEvents /\ e.ops = ops /\ e.block = pending
      BY <3>2 DEF TxEvents
    <3> HIDE DEF e
    <3>4. txEvents \in Seq(TxEvents) /\ txEvents' = Append(txEvents, e)
      BY <1>1, <3>1 DEF ChannelsTyped, e
    <3>5. /\ txEvents' \in Seq(TxEvents) /\ Len(txEvents') = Len(txEvents) + 1
          /\ \A k \in 1 .. Len(txEvents) : txEvents'[k] = txEvents[k]
          /\ txEvents'[Len(txEvents) + 1] = e
      BY <3>3, <3>4, AppendProperties
    <3>6. Len(txEvents) \in Nat
      BY <3>4, LenProperties
    <3>7. \A k \in 1 .. Len(txEvents') : k \in 1 .. Len(txEvents) \/ k = Len(txEvents) + 1
      BY <3>5, <3>6
    <3> QED BY <1>1, <3>1, <3>3, <3>5, <3>7 DEF EventsTrue
  <2> QED BY <2>1, <2>2
<1>5. ChannelsTyped'
  BY <1>1, <1>2, <1>4, SameTables DEF ChannelsTyped
<1>6. EventsTrue'
  BY <1>1, <1>4, SameTables DEF EventsTrue, InBlock
<1>7. CacheTrue' /\ \A s \in Subscribers : TrueSub(subs[s])'
  <2>1. \A s \in Subscribers : TrueSub(subs[s])' <=> TrueSub(subs[s])
    BY <1>1, SameTables DEF TrueSub
  <2> QED BY <1>1, <2>1, SameTables DEF IInv, Truth, CacheTrue
<1>8. ASSUME ~ WatchUnconfirmed, NEW s \in Subscribers
      PROVE  Remembered(subs[s])'
  BY <1>1, <1>2, <1>8, SameTables DEF IInv, Remembered, EventAhead
<1> QED BY <1>1, <1>5, <1>6, <1>7, <1>8, SameTables DEF IInv, Truth

LEMMA FetchInv ==
  ASSUME IInv, Fetch
  PROVE  IInv'
<1>1. CASE FetchVerified
  <2>1. PICK f, t : f = fetcher.verified /\ t = verified
    OBVIOUS
  <2>2. "VERIFY" \in Actions
    BY DEF Actions
  <2> QED BY <1>1, <2>1, <2>2, FetchBlocksInv DEF FetchVerified
<1>2. CASE FetchCommitted
  <2>1. PICK f, t : f = fetcher.committed /\ t = committed
    OBVIOUS
  <2>2. "COMMIT" \in Actions
    BY DEF Actions
  <2> QED BY <1>2, <2>1, <2>2, FetchBlocksInv DEF FetchCommitted
<1>3. CASE FetchPending
  BY <1>3, FetchPendingInv
<1> QED BY <1>1, <1>2, <1>3 DEF Fetch

-----------------------------------------------------------------------------
(* The notifier *)

\* A subscription that an event does not answer waits for a later one.
LEMMA HandleBlockInv ==
  ASSUME IInv, HandleBlock
  PROVE  IInv'
<1> DEFINE event == Head(blockEvents)
<1>1. /\ TablesTyped /\ ChannelsTyped /\ EventsTrue
      /\ blockEvents # <<>> /\ blockEvents' = Tail(blockEvents)
      /\ UNCHANGED <<tables, fetcher, txEvents, blockInfos>>
  BY DEF IInv, Truth, HandleBlock
<1>2. /\ Len(blockEvents) \in Nat \ {0} /\ event = blockEvents[1]
      /\ blockEvents' \in Seq(BlockEvents) /\ Len(blockEvents') = Len(blockEvents) - 1
      /\ \A k \in 1 .. Len(blockEvents) - 1 : blockEvents'[k] = blockEvents[k + 1]
  <2>1. blockEvents \in Seq(BlockEvents)
    BY <1>1 DEF ChannelsTyped
  <2>2. Len(blockEvents) \in Nat \ {0}
    BY <1>1, <2>1, EmptySeq
  <2> QED BY <1>1, <2>1, <2>2, HeadTailProperties
<1>3. event.action \in Actions /\ (event.action = "VERIFY" => event.block <= verified)
  <2>1. 1 \in 1 .. Len(blockEvents)
    BY <1>2
  <2>2. blockEvents[1] \in BlockEvents
    BY <1>1, <2>1, ElementOfSeq DEF ChannelsTyped
  <2> QED BY <1>1, <1>2, <2>1, <2>2 DEF EventsTrue, BlockEvents
<1> HIDE DEF event
<1>4. ASSUME NEW s \in Subscribers
      PROVE  subs'[s] =
                IF subs[s].state = "waiting" /\ subs[s].entity = Account /\ subs[s].action = event.action
                THEN Answered(subs[s], AccountAnswer(event.action))
                ELSE IF /\ subs[s].state = "waiting" /\ subs[s].entity \in InBlock(event.block)
                        /\ subs[s].action = event.action
                THEN Answered(subs[s], EventAnswer(subs[s].entity, event.block, event.action))
                ELSE subs[s]
  BY DEF HandleBlock, Notified, event
<1>5. DOMAIN subs' = Subscribers /\ subs' = [s \in Subscribers |-> subs'[s]]
  BY DEF HandleBlock
<1>6. ASSUME NEW s \in Subscribers
      PROVE  /\ subs[s] \in Subs /\ TrueSub(subs[s])
             /\ subs'[s] \in Subs /\ TrueSub(subs'[s])
             /\ subs'[s] # subs[s] => subs'[s].state = "answered"
             /\ subs'[s].state = "waiting" => subs'[s] = subs[s]
             /\ (subs[s].entity \in InBlock(event.block) /\ subs[s].action = event.action) =>
                   subs'[s].state # "waiting"
  <2>1. subs[s] \in Subs /\ TrueSub(subs[s])
    BY DEF IInv, Truth, ChannelsTyped
  <2>2. PICK sub : sub = subs[s]
    OBVIOUS
  <2>3. CASE sub.state = "waiting" /\ sub.entity = Account /\ sub.action = event.action
    <3>1. subs'[s] = Answered(sub, AccountAnswer(sub.action))
      BY <1>4, <2>2, <2>3
    <3>2. subs'[s] \in Subs /\ TrueSub(subs'[s]) /\ subs'[s].state = "answered"
      BY <1>1, <2>1, <2>2, <2>3, <3>1, AccountAnswers
    <3> QED BY <2>1, <3>2
  <2>4. CASE /\ ~ (sub.state = "waiting" /\ sub.entity = Account /\ sub.action = event.action)
             /\ sub.state = "waiting" /\ sub.entity \in InBlock(event.block)
             /\ sub.action = event.action
    <3>1. subs'[s] = Answered(sub, EventAnswer(sub.entity, event.block, event.action))
      BY <1>4, <2>2, <2>4
    <3>2. subs'[s] \in Subs /\ TrueSub(subs'[s]) /\ subs'[s].state = "answered"
      BY <1>1, <1>3, <2>1, <2>2, <2>4, <3>1, EventAnswers
    <3> QED BY <2>1, <3>2
  <2>5. CASE /\ ~ (sub.state = "waiting" /\ sub.entity = Account /\ sub.action = event.action)
             /\ ~ (/\ sub.state = "waiting" /\ sub.entity \in InBlock(event.block)
                   /\ sub.action = event.action)
    <3>1. subs'[s] = sub
      BY <1>4, <2>2, <2>5
    <3> QED BY <2>1, <2>2, <2>5, <3>1
  <2> QED BY <2>3, <2>4, <2>5
<1>7. ChannelsTyped'
  <2>1. subs' \in [Subscribers -> Subs]
    BY <1>5, <1>6
  <2> QED BY <1>1, <1>2, <2>1, SameTables DEF ChannelsTyped
<1>8. EventsTrue'
  <2>1. ASSUME NEW k \in 1 .. Len(blockEvents'), blockEvents'[k].action = "VERIFY"
        PROVE  blockEvents'[k].block <= verified
    <3>1. k + 1 \in 1 .. Len(blockEvents) /\ blockEvents'[k] = blockEvents[k + 1]
      BY <1>2
    <3> QED BY <1>1, <2>1, <3>1 DEF EventsTrue
  <2> QED BY <1>1, <2>1, SameTables DEF EventsTrue
<1>9. CacheTrue' /\ \A s \in Subscribers : TrueSub(subs[s])'
  <2>1. \A s \in Subscribers : TrueSub(subs[s])' <=> TrueSub(subs'[s])
    BY <1>1, SameTables DEF TrueSub
  <2> QED BY <1>1, <1>6, <2>1, SameTables DEF IInv, Truth, CacheTrue
<1>10. ASSUME ~ WatchUnconfirmed, NEW s \in Subscribers
       PROVE  Remembered(subs[s])'
  <2> SUFFICES ASSUME subs'[s].state = "waiting", subs'[s].entity \in DOMAIN executed
               PROVE  Remembered(subs[s])'
    BY <1>1, SameTables DEF Remembered
  <2>1. subs'[s] = subs[s] /\ Remembered(subs[s])
    BY <1>6, <1>10 DEF IInv
  <2>2. PICK a, b : a = subs[s].action /\ b = executed[subs[s].entity].block
    OBVIOUS
  <2>3. EventAhead(a, b)
    BY <1>10, <2>1, <2>2 DEF Remembered
  <2>4. EventAhead(a, b)'
    <3>1. CASE b > (IF a = "COMMIT" THEN fetcher.committed ELSE fetcher.verified)
      BY <1>1, <3>1 DEF EventAhead
    <3>2. CASE \E k \in DOMAIN blockEvents : blockEvents[k] = [action |-> a, block |-> b]
      <4>1. DOMAIN blockEvents = 1 .. Len(blockEvents) /\ DOMAIN blockEvents' = 1 .. Len(blockEvents')
        BY <1>1, <1>2, LenProperties DEF ChannelsTyped
      <4>2. PICK k \in 1 .. Len(blockEvents) : blockEvents[k] = [action |-> a, block |-> b]
        BY <3>2, <4>1
      <4>3. k # 1
        <5>1. ASSUME k = 1
              PROVE  FALSE
          <6>1. event.action = a /\ event.block = b
            BY <1>2, <4>2, <5>1
          <6>2. subs[s].entity \in InBlock(event.block)
            BY <1>10, <2>1, <2>2, <6>1 DEF InBlock
          <6> QED BY <1>6, <1>10, <2>2, <6>1, <6>2
        <5> QED BY <5>1
      <4>4. k - 1 \in 1 .. Len(blockEvents') /\ blockEvents'[k - 1] = blockEvents[k]
        BY <1>2, <4>3
      <4> QED BY <4>1, <4>2, <4>4 DEF EventAhead
    <3> QED BY <2>3, <3>1, <3>2 DEF EventAhead
  <2>5. Remembered(subs[s])' <=> EventAhead(a, b)'
    BY <1>1, <2>1, <2>2, SameTables DEF Remembered, EventAhead
  <2> QED BY <2>4, <2>5
<1> QED BY <1>1, <1>7, <1>8, <1>9, <1>10, SameTables DEF IInv, Truth

LEMMA HandleTxsInv ==
  ASSUME IInv, HandleTxs
  PROVE  IInv'
<1> DEFINE event == Head(txEvents)
<1>1. /\ TablesTyped /\ ChannelsTyped /\ EventsTrue
      /\ txEvents # <<>> /\ txEvents' = Tail(txEvents)
      /\ UNCHANGED <<tables, fetcher, blockEvents, blockInfos>>
  BY DEF IInv, Truth, HandleTxs
<1>2. /\ Len(txEvents) \in Nat \ {0} /\ event = txEvents[1]
      /\ txEvents' \in Seq(TxEvents) /\ Len(txEvents') = Len(txEvents) - 1
      /\ \A k \in 1 .. Len(txEvents) - 1 : txEvents'[k] = txEvents[k + 1]
  <2>1. txEvents \in Seq(TxEvents)
    BY <1>1 DEF ChannelsTyped
  <2>2. Len(txEvents) \in Nat \ {0}
    BY <1>1, <2>1, EmptySeq
  <2> QED BY <1>1, <2>1, <2>2, HeadTailProperties
<1>3. event.ops \subseteq InBlock(event.block)
  <2>1. 1 \in 1 .. Len(txEvents)
    BY <1>2
  <2> QED BY <1>1, <1>2, <2>1 DEF EventsTrue
<1> HIDE DEF event
<1>4. ASSUME NEW s \in Subscribers
      PROVE  subs'[s] = IF /\ subs[s].state = "waiting" /\ subs[s].entity \in event.ops
                           /\ subs[s].action = "COMMIT"
                        THEN Answered(subs[s], EventAnswer(subs[s].entity, event.block, "COMMIT"))
                        ELSE subs[s]
  BY DEF HandleTxs, Notified, event
<1>5. DOMAIN subs' = Subscribers /\ subs' = [s \in Subscribers |-> subs'[s]]
  BY DEF HandleTxs, Notified
<1>6. ASSUME NEW s \in Subscribers
      PROVE  /\ subs'[s] \in Subs /\ TrueSub(subs'[s])
             /\ subs'[s].state = "waiting" => subs'[s] = subs[s]
  <2>1. subs[s] \in Subs /\ TrueSub(subs[s])
    BY DEF IInv, Truth, ChannelsTyped
  <2>2. PICK sub : sub = subs[s]
    OBVIOUS
  <2>3. CASE sub.state = "waiting" /\ sub.entity \in event.ops /\ sub.action = "COMMIT"
    <3>1. subs'[s] = Answered(sub, EventAnswer(sub.entity, event.block, "COMMIT"))
      BY <1>4, <2>2, <2>3
    <3>2. "COMMIT" \in Actions /\ "COMMIT" # "VERIFY" /\ sub.entity \in InBlock(event.block)
      BY <1>3, <2>3 DEF Actions
    <3>3. subs'[s] \in Subs /\ TrueSub(subs'[s]) /\ subs'[s].state = "answered"
      BY <1>1, <2>1, <2>2, <2>3, <3>1, <3>2, EventAnswers
    <3> QED BY <3>3
  <2>4. CASE ~ (sub.state = "waiting" /\ sub.entity \in event.ops /\ sub.action = "COMMIT")
    <3>1. subs'[s] = subs[s]
      BY <1>4, <2>2, <2>4
    <3> QED BY <2>1, <3>1
  <2> QED BY <2>3, <2>4
<1>7. ChannelsTyped'
  <2>1. subs' \in [Subscribers -> Subs]
    BY <1>5, <1>6
  <2> QED BY <1>1, <1>2, <2>1, SameTables DEF ChannelsTyped
<1>8. EventsTrue'
  <2>1. ASSUME NEW k \in 1 .. Len(txEvents')
        PROVE  txEvents'[k].ops \subseteq InBlock(txEvents'[k].block)
    <3>1. k + 1 \in 1 .. Len(txEvents) /\ txEvents'[k] = txEvents[k + 1]
      BY <1>2
    <3> QED BY <1>1, <3>1 DEF EventsTrue
  <2> QED BY <1>1, <2>1, SameTables DEF EventsTrue, InBlock
<1>9. CacheTrue' /\ \A s \in Subscribers : TrueSub(subs[s])'
  <2>1. \A s \in Subscribers : TrueSub(subs[s])' <=> TrueSub(subs'[s])
    BY <1>1, SameTables DEF TrueSub
  <2> QED BY <1>1, <1>6, <2>1, SameTables DEF IInv, Truth, CacheTrue
<1>10. ASSUME ~ WatchUnconfirmed, NEW s \in Subscribers
       PROVE  Remembered(subs[s])'
  BY <1>1, <1>6, <1>10, SameTables DEF IInv, Remembered, EventAhead
<1> QED BY <1>1, <1>7, <1>8, <1>9, <1>10, SameTables DEF IInv, Truth

-----------------------------------------------------------------------------
(* The subscriptions *)

\* One subscription changes: it has a true answer or none, and if it waits it waits
\* for an event.
LEMMA SubChanges ==
  ASSUME IInv, UNCHANGED <<tables, fetcher, blockEvents, txEvents>>, CacheTrue',
         NEW s \in Subscribers, NEW sub \in Subs, TrueSub(sub),
         ~ WatchUnconfirmed => Remembered(sub),
         subs' = [subs EXCEPT ![s] = sub]
  PROVE  IInv'
<1>1. /\ TablesTyped /\ ChannelsTyped /\ EventsTrue /\ subs \in [Subscribers -> Subs]
  BY DEF IInv, Truth, ChannelsTyped
<1>2. \A r \in Subscribers : subs'[r] = IF r = s THEN sub ELSE subs[r]
  BY <1>1
<1>3. ChannelsTyped'
  <2>1. subs' \in [Subscribers -> Subs]
    BY <1>1
  <2> QED BY <1>1, <2>1, SameTables DEF ChannelsTyped
<1>4. EventsTrue'
  BY <1>1, SameTables DEF EventsTrue, InBlock
<1>5. \A r \in Subscribers : TrueSub(subs[r])'
  <2>1. \A r \in Subscribers : TrueSub(subs[r])' <=> TrueSub(subs'[r])
    BY SameTables DEF TrueSub
  <2> QED BY <1>2, <2>1 DEF IInv, Truth
<1>6. ASSUME ~ WatchUnconfirmed, NEW r \in Subscribers
      PROVE  Remembered(subs[r])'
  <2>1. Remembered(subs[r])' <=> Remembered(subs'[r])
    BY SameTables DEF Remembered, EventAhead
  <2> QED BY <1>2, <1>6, <2>1 DEF IInv
<1> QED BY <1>1, <1>3, <1>4, <1>5, <1>6, SameTables DEF IInv, Truth

LEMMA NewSub == NoSub \in Subs
BY NotifierAssumption DEF NoSub, NoAnswer, Subs, Answer, Actions

\* What the tables answer is so; they answer once the operation is in a block, a
\* transaction already while it is in the pending block.
LEMMA TableAnswers ==
  ASSUME TablesTyped, CacheTrue, NEW o \in Ops
  PROVE  LET answers == IF o \in Txs THEN TxAnswer(o) ELSE PriorityOpAnswer(o)
         IN  /\ \A a \in answers :
                   /\ a \in Answer /\ o \in DOMAIN executed
                   /\ a.block = executed[o].block /\ a.success = executed[o].success
                   /\ a.verified <=> executed[o].block <= confirmed
             /\ \A a, b \in answers : a = b
             /\ o \in DOMAIN executed /\ (o \in Txs \/ executed[o].block <= committed) => answers # {}
<1>1. CASE o \in Txs
  <2> DEFINE a == [block |-> executed[o].block, committed |-> executed[o].success,
                   verified |-> executed[o].block <= confirmed, success |-> executed[o].success]
  <2>1. TxAnswer(o) = IF o \in DOMAIN executed THEN {a} ELSE {}
    BY DEF TxAnswer
  <2>2. ASSUME o \in DOMAIN executed
        PROVE  /\ a \in Answer /\ a.block = executed[o].block /\ a.success = executed[o].success
               /\ a.verified <=> executed[o].block <= confirmed
    <3>1. PICK v : v = (executed[o].block <= confirmed)
      OBVIOUS
    <3>v. v \in BOOLEAN
      BY <3>1
    <3>2. executed[o].block \in 0 .. MaxBlock /\ executed[o].success \in BOOLEAN
      BY <2>2, NotifierAssumption DEF TablesTyped, Rows
    <3> DEFINE r == [block |-> executed[o].block, committed |-> executed[o].success,
                     verified |-> v, success |-> executed[o].success]
    <3>3. a = r
      BY <3>1
    <3>4. /\ r \in Answer /\ r.block = executed[o].block /\ r.success = executed[o].success
          /\ r.verified = v
      BY <3>2, <3>v DEF Answer
    <3> HIDE DEF a, r
    <3> QED BY <3>1, <3>3, <3>4
  <2> HIDE DEF a
  <2> QED BY <1>1, <2>1, <2>2
<1>2. CASE o \notin Txs
  <2> DEFINE a == [block |-> executed[o].block, committed |-> TRUE,
                   verified |-> IsVerified(executed[o].block), success |-> TRUE]
  <2>1. PriorityOpAnswer(o) =
           IF o \in DOMAIN executed /\ executed[o].block <= committed THEN {a} ELSE {}
    BY DEF PriorityOpAnswer
  <2>2. ASSUME o \in DOMAIN executed
        PROVE  /\ a \in Answer /\ a.block = executed[o].block /\ a.success = executed[o].success
               /\ a.verified <=> executed[o].block <= confirmed
    <3>1. PICK v : v = IsVerified(executed[o].block)
      OBVIOUS
    <3>2. v \in BOOLEAN /\ (v <=> executed[o].block <= confirmed)
      <4>1. PICK b : b = executed[o].block
        OBVIOUS
      <4>2. CASE b \in DOMAIN blockInfos
        <5>1. blockInfos[b] = TRUE /\ b <= confirmed
          BY <4>2 DEF CacheTrue
        <5>2. v = TRUE
          BY <3>1, <4>1, <4>2, <5>1 DEF IsVerified
        <5> QED BY <4>1, <5>1, <5>2
      <4>3. CASE b \notin DOMAIN blockInfos
        <5>1. v = (b <= confirmed)
          BY <3>1, <4>1, <4>3 DEF IsVerified
        <5>2. v \in BOOLEAN
          BY <5>1
        <5>3. v <=> b <= confirmed
          BY <5>1
        <5> QED BY <4>1, <5>2, <5>3
      <4> QED BY <4>2, <4>3
    <3>3. executed[o].block \in 0 .. MaxBlock /\ executed[o].success = TRUE
      BY <1>2, <2>2, NotifierAssumption DEF TablesTyped, Rows, Ops
    <3> DEFINE r == [block |-> executed[o].block, committed |-> TRUE, verified |-> v,
                     success |-> TRUE]
    <3>4. a = r
      BY <3>1
    <3>5. r \in Answer /\ r.block = executed[o].block /\ r.success = TRUE /\ r.verified = v
      BY <3>2, <3>3 DEF Answer
    <3> HIDE DEF a, r
    <3> QED BY <3>2, <3>3, <3>4, <3>5
  <2> HIDE DEF a
  <2> QED BY <1>2, <2>1, <2>2
<1> QED BY <1>1, <1>2

\* A late subscriber is answered from the tables; one that the tables do not answer
\* has its event still to come, as COMMIT is read after the block is in the tables
\* and nobody asks for VERIFY between it and its confirmation.
LEMMA AddOperationInv ==
  ASSUME IInv, NEW s \in Subscribers, AddOperation(s)
  PROVE  IInv'
<1> DEFINE old == subs[s]
           o == old.entity
           answers == IF o \in Txs THEN TxAnswer(o) ELSE PriorityOpAnswer(o)
<1>1. /\ old.state = "requested" /\ o # Account
      /\ WatchUnconfirmed \/ old.action = "COMMIT" \/ verified = confirmed
      /\ IF o \in PriorityOps /\ answers # {} THEN CacheBlock(executed[o].block)
         ELSE UNCHANGED blockInfos
      /\ IF Final(answers, old.action) = {} THEN Insert(s)
         ELSE subs' = [subs EXCEPT ![s] = Answered(@, CHOOSE a \in answers : TRUE)]
      /\ UNCHANGED <<tables, fetcher, blockEvents, txEvents>>
  BY DEF AddOperation
<1>2. TablesTyped /\ ChannelsTyped /\ CacheTrue /\ old \in Subs /\ subs \in [Subscribers -> Subs]
  BY DEF IInv, Truth, ChannelsTyped
<1>3. o \in Ops /\ old.action \in Actions
  BY <1>1, <1>2 DEF Subs
<1>4. /\ \A a \in answers :
            /\ a \in Answer /\ o \in DOMAIN executed
            /\ a.block = executed[o].block /\ a.success = executed[o].success
            /\ a.verified <=> executed[o].block <= confirmed
      /\ \A a, b \in answers : a = b
      /\ o \in DOMAIN executed /\ (o \in Txs \/ executed[o].block <= committed) => answers # {}
  BY <1>2, <1>3, TableAnswers
<1> HIDE DEF answers
<1>5. /\ committed \in Nat /\ verified \in Nat /\ confirmed \in Nat
      /\ confirmed <= verified /\ verified <= committed
      /\ fetcher.committed \in Nat /\ fetcher.verified \in Nat
      /\ fetcher.committed <= committed /\ fetcher.verified <= verified
  BY <1>2 DEF TablesTyped, ChannelsTyped
<1>6. \A p \in DOMAIN executed : executed[p].block \in 1 .. MaxBlock
  BY <1>2 DEF TablesTyped, Rows
<1>7. CacheTrue'
  <2>1. CASE o \in PriorityOps /\ answers # {}
    <3>1. PICK b : b = executed[o].block
      OBVIOUS
    <3>2. b \in 1 .. MaxBlock
      BY <1>4, <1>6, <2>1, <3>1
    <3>3. CASE b <= confirmed
      <4>1. blockInfos' = [c \in DOMAIN blockInfos \cup {b} |-> TRUE]
        BY <1>1, <2>1, <3>1, <3>3 DEF CacheBlock
      <4>2. b \in 1 .. confirmed
        BY <1>5, <3>2, <3>3, NotifierAssumption
      <4> QED BY <1>1, <1>2, <4>1, <4>2, SameTables DEF CacheTrue
    <3>4. CASE ~ (b <= confirmed)
      <4>1. blockInfos' = blockInfos
        BY <1>1, <2>1, <3>1, <3>4 DEF CacheBlock
      <4> QED BY <1>1, <1>2, <4>1, SameTables DEF CacheTrue
    <3> QED BY <3>3, <3>4
  <2>2. CASE ~ (o \in PriorityOps /\ answers # {})
    <3>1. blockInfos' = blockInfos
      BY <1>1, <2>2
    <3> QED BY <1>1, <1>2, <3>1, SameTables DEF CacheTrue
  <2> QED BY <2>1, <2>2
<1>8. CASE Final(answers, old.action) = {}
  <2> DEFINE sub == [old EXCEPT !.state = "waiting"]
  <2>1. subs' = [subs EXCEPT ![s] = sub]
    BY <1>1, <1>2, <1>8 DEF Insert
  <2>2. /\ sub \in Subs /\ sub.state = "waiting" /\ sub.entity = o /\ sub.action = old.action
    BY <1>2 DEF Subs
  <2> HIDE DEF sub
  <2>3. TrueSub(sub)
    BY <2>2 DEF TrueSub
  <2>4. ASSUME ~ WatchUnconfirmed, o \in DOMAIN executed
        PROVE  EventAhead(old.action, executed[o].block)
    <3>1. PICK b : b = executed[o].block
      OBVIOUS
    <3>2. b \in Nat
      BY <1>6, <2>4, <3>1, NotifierAssumption
    <3>3. CASE old.action = "COMMIT"
      <4>1. answers = {}
        BY <1>8, <3>3 DEF Final
      <4>2. b > committed
        BY <1>4, <1>5, <2>4, <3>1, <3>2, <4>1
      <4> QED BY <1>5, <3>1, <3>2, <3>3, <4>2 DEF EventAhead
    <3>4. CASE old.action = "VERIFY"
      <4>1. verified = confirmed
        BY <1>1, <2>4, <3>4
      <4>2. \A a \in answers : ~ a.verified
        BY <1>8, <3>4 DEF Final
      <4>3. b > confirmed
        <5>1. CASE answers = {}
          BY <1>4, <1>5, <2>4, <3>1, <3>2, <5>1
        <5>2. CASE answers # {}
          BY <1>4, <1>5, <3>1, <3>2, <4>2, <5>2
        <5> QED BY <5>1, <5>2
      <4> QED BY <1>5, <3>1, <3>2, <3>4, <4>1, <4>3 DEF EventAhead
    <3> QED BY <1>3, <3>3, <3>4 DEF Actions
  <2>5. ~ WatchUnconfirmed => Remembered(sub)
    BY <2>2, <2>4 DEF Remembered
  <2> QED BY <1>1, <1>7, <2>1, <2>2, <2>3, <2>5, SubChanges
<1>9. CASE Final(answers, old.action) # {}
  <2>1. PICK a : a = (CHOOSE x \in answers : TRUE)
    OBVIOUS
  <2>2. a \in answers /\ (old.action = "VERIFY" => a.verified)
    BY <1>4, <1>9, <2>1 DEF Final
  <2>3. /\ a \in Answer /\ o \in DOMAIN executed
        /\ a.block = executed[o].block /\ a.success = executed[o].success
        /\ a.verified => a.block <= verified
    <3>1. executed[o].block \in Nat
      BY <1>4, <1>6, <2>2, NotifierAssumption
    <3> QED BY <1>4, <1>5, <2>2, <3>1
  <2> DEFINE sub == Answered(old, a)
  <2>4. subs' = [subs EXCEPT ![s] = sub]
    BY <1>1, <1>2, <1>9, <2>1 DEF Answered
  <2>5. /\ sub \in Subs /\ sub.state = "answered" /\ sub.entity = o /\ sub.action = old.action
        /\ sub.answer = a
    BY <1>2, <2>3 DEF Answered, Subs
  <2> HIDE DEF sub
  <2>6. TrueSub(sub)
    BY <2>2, <2>3, <2>5 DEF TrueSub
  <2>7. Remembered(sub)
    BY <2>5 DEF Remembered
  <2> QED BY <1>1, <1>7, <2>4, <2>5, <2>6, <2>7, SubChanges
<1> QED BY <1>8, <1>9

\* A subscription that ends, or has not been handled yet.
LEMMA OtherSubs ==
  ASSUME IInv, NEW s \in Subscribers, NEW sub \in Subs,
         sub.state \in {"none", "requested", "waiting"},
         sub.state = "waiting" => sub.entity \notin DOMAIN executed,
         subs' = [subs EXCEPT ![s] = sub],
         UNCHANGED <<tables, fetcher, blockEvents, txEvents, blockInfos>>
  PROVE  IInv'
<1>1. TrueSub(sub) /\ Remembered(sub)
  BY DEF TrueSub, Remembered
<1>2. CacheTrue'
  BY SameTables DEF IInv, Truth, CacheTrue
<1> QED BY <1>1, <1>2, SubChanges

LEMMA AddAccountInv ==
  ASSUME IInv, NEW s \in Subscribers, AddAccount(s)
  PROVE  IInv'
<1>1. /\ subs[s].state = "requested" /\ subs[s].entity = Account
      /\ IF AccountKnown THEN Insert(s) ELSE subs' = [subs EXCEPT ![s] = NoSub]
      /\ UNCHANGED <<tables, fetcher, blockEvents, txEvents, blockInfos>>
  BY DEF AddAccount
<1>2. subs \in [Subscribers -> Subs] /\ subs[s] \in Subs /\ DOMAIN executed \subseteq Ops
  BY DEF IInv, Truth, ChannelsTyped, TablesTyped
<1>3. CASE AccountKnown
  <2> DEFINE sub == [subs[s] EXCEPT !.state = "waiting"]
  <2>1. subs' = [subs EXCEPT ![s] = sub]
    BY <1>1, <1>2, <1>3 DEF Insert
  <2>2. sub \in Subs /\ sub.state = "waiting" /\ sub.entity = Account
    BY <1>1, <1>2 DEF Subs
  <2> HIDE DEF sub
  <2>3. Account \notin DOMAIN executed
    BY <1>2, NotifierAssumption
  <2> QED BY <1>1, <2>1, <2>2, <2>3, OtherSubs
<1>4. CASE ~ AccountKnown
  BY <1>1, <1>4, NewSub, OtherSubs DEF NoSub
<1> QED BY <1>3, <1>4

LEMMA RequestsInv ==
  ASSUME IInv, NEW s \in Subscribers,
         \/ Unsubscribe(s)
         \/ \E entity \in Ops \cup {Account}, action \in Actions : Subscribe(s, entity, action)
  PROVE  IInv'
<1>1. CASE Unsubscribe(s)
  BY <1>1, NewSub, OtherSubs DEF Unsubscribe, NoSub
<1>2. ASSUME NEW entity \in Ops \cup {Account}, NEW action \in Actions,
             Subscribe(s, entity, action)
      PROVE  IInv'
  <2> DEFINE sub == [NoSub EXCEPT !.state = "requested", !.entity = entity, !.action = action]
  <2>1. sub \in Subs /\ sub.state = "requested"
    BY NewSub DEF NoSub, Subs
  <2>2. /\ subs' = [subs EXCEPT ![s] = sub]
        /\ UNCHANGED <<tables, fetcher, blockEvents, txEvents, blockInfos>>
    BY <1>2 DEF Subscribe
  <2> HIDE DEF sub
  <2> QED BY <2>1, <2>2, OtherSubs
<1> QED BY <1>1, <1>2

-----------------------------------------------------------------------------
(* The invariant *)

\* A server that has just started: it knows what the tables know.
LEMMA Started ==
  ASSUME TablesTyped, fetcher = NewFetcher, blockEvents = <<>>, txEvents = <<>>, blockInfos = <<>>,
         subs = [s \in Subscribers |-> NoSub]
  PROVE  IInv
<1>1. ChannelsTyped
  <2>1. /\ fetcher.pc = "verified" /\ fetcher.committed = committed /\ fetcher.verified = verified
        /\ fetcher = [pc |-> fetcher.pc, committed |-> fetcher.committed,
                      verified |-> fetcher.verified, pending |-> fetcher.pending]
    BY DEF NewFetcher
  <2>2. blockEvents \in Seq(BlockEvents) /\ txEvents \in Seq(TxEvents)
    OBVIOUS
  <2> QED BY <2>1, <2>2, NewSub DEF ChannelsTyped, TablesTyped
<1>2. EventsTrue /\ CacheTrue
  BY DEF EventsTrue, CacheTrue
<1>3. \A s \in Subscribers : TrueSub(subs[s]) /\ Remembered(subs[s])
  BY DEF TrueSub, Remembered, NoSub
<1> QED BY <1>1, <1>2, <1>3 DEF IInv, Truth

LEMMA InitInv == Init => IInv
<1> SUFFICES ASSUME Init PROVE IInv
  OBVIOUS
<1>1. TablesTyped
  BY NotifierAssumption DEF Init, TablesTyped
<1> QED BY <1>1, Started DEF Init

LEMMA StartedAgain ==
  TablesTyped /\ fetcher = NewFetcher /\ blockEvents = <<>> /\ txEvents = <<>>
    /\ blockInfos = <<>> /\ subs = [s \in Subscribers |-> NoSub] => IInv
BY Started

LEMMA RestartApiInv ==
  ASSUME IInv, RestartApi
  PROVE  IInv'
<1>1. TablesTyped'
  BY SameTables DEF RestartApi, IInv, Truth
<1>2. fetcher' = NewFetcher'
  <2>1. NewFetcher' = NewFetcher
    BY SameTables DEF NewFetcher, PendingNow, Succeeded, Failed, InBlock, RestartApi
  <2> QED BY <2>1 DEF RestartApi
<1>3. (TablesTyped /\ fetcher = NewFetcher /\ blockEvents = <<>> /\ txEvents = <<>>
         /\ blockInfos = <<>> /\ subs = [s \in Subscribers |-> NoSub])' => IInv'
  BY StartedAgain, PTL
<1>4. /\ blockEvents' = <<>> /\ txEvents' = <<>> /\ blockInfos' = <<>>
      /\ subs' = [s \in Subscribers |-> NoSub]
  BY DEF RestartApi
<1>5. NoSub' = NoSub
  BY DEF NoSub, NoAnswer
<1> QED BY <1>1, <1>2, <1>3, <1>4, <1>5

LEMMA NextInv ==
  ASSUME IInv, [Next]_vars
  PROVE  IInv'
<1>1. CASE \E o \in Ops, success \in BOOLEAN : Execute(o, success)
  BY <1>1, ExecuteInv
<1>2. CASE CommitBlock \/ VerifyBlock \/ ConfirmBlock
  BY <1>2, BlocksInv
<1>3. CASE Fetch
  BY <1>3, FetchInv
<1>4. CASE HandleBlock
  BY <1>4, HandleBlockInv
<1>5. CASE HandleTxs
  BY <1>5, HandleTxsInv
<1>6. ASSUME NEW s \in Subscribers, AddOperation(s)
      PROVE  IInv'
  BY <1>6, AddOperationInv
<1>7. ASSUME NEW s \in Subscribers, AddAccount(s)
      PROVE  IInv'
  BY <1>7, AddAccountInv
<1>8. ASSUME NEW s \in Subscribers,
             \/ Unsubscribe(s)
             \/ \E entity \in Ops \cup {Account}, action \in Actions : Subscribe(s, entity, action)
      PROVE  IInv'
  BY <1>8, RequestsInv
<1>9. CASE RestartApi
  BY <1>9, RestartApiInv
<1>10. CASE UNCHANGED vars
  <2>1. UNCHANGED <<tables, fetcher, blockEvents, txEvents, blockInfos, subs>>
    BY <1>10 DEF vars
  <2>2. \A s \in Subscribers : (TrueSub(subs[s])' <=> TrueSub(subs[s]))
                               /\ (Remembered(subs[s])' <=> Remembered(subs[s]))
    BY <2>1, SameTables DEF TrueSub, Remembered, EventAhead
  <2>3. ChannelsTyped' /\ EventsTrue' /\ CacheTrue' /\ TablesTyped'
    BY <2>1, SameTables DEF IInv, Truth, ChannelsTyped, EventsTrue, CacheTrue, InBlock
  <2> QED BY <2>2, <2>3 DEF IInv, Truth
<1> QED BY <1>1, <1>2, <1>3, <1>4, <1>5, <1>6, <1>7, <1>8, <1>9, <1>10 DEF Next

LEMMA Invariant == Spec => []IInv
BY InitInv, NextInv, PTL DEF Spec

LEMMA InvTypes == IInv => TypeOK
<1> SUFFICES ASSUME IInv PROVE TypeOK
  OBVIOUS
<1>1. TablesTyped /\ ChannelsTyped /\ CacheTrue
  BY DEF IInv, Truth
<1>2. ASSUME NEW o \in DOMAIN executed
      PROVE  executed[o] \in [block : 1 .. committed + 1, success : BOOLEAN,
                              index : 0 .. Cardinality(Ops)]
  BY <1>1 DEF TablesTyped, Rows
<1>3. DOMAIN blockInfos \subseteq 1 .. committed
  BY <1>1 DEF CacheTrue, TablesTyped
<1>4. committed \in 0 .. MaxBlock
  BY <1>1, NotifierAssumption DEF TablesTyped
<1> QED BY <1>1, <1>2, <1>3, <1>4 DEF TypeOK, TablesTyped, ChannelsTyped, Subs

LEMMA InvAnswers == IInv => AnswersTrue
BY DEF IInv, Truth, AnswersTrue, TrueSub

-----------------------------------------------------------------------------
(* The theorems *)

\* Whatever the order in which the channels, the requests, the fetcher's polls and
\* the core's blocks come, and however often the server restarts, no subscriber is
\* told what is not so (event_fetcher.rs, operation_notifier.rs).
THEOREM AnswersAreTrue == Spec => [](TypeOK /\ AnswersTrue)
BY Invariant, InvTypes, InvAnswers, PTL

\* If nobody asks for VERIFY between a block's verification and its confirmation, the
\* event that answers a waiting subscription is always still to come (without the
\* hypothesis it may be over: MCEventNotifierLate.cfg).
THEOREM SubscribersServed == ~ WatchUnconfirmed => (Spec => []SubscriptionsServed)
<1> SUFFICES ASSUME ~ WatchUnconfirmed PROVE Spec => []SubscriptionsServed
  OBVIOUS
<1>1. IInv => NoneForgotten
  BY DEF IInv, NoneForgotten, Remembered
<1>2. IInv => SubscriptionsServed
  BY <1>1, InvTypes, InvAnswers DEF SubscriptionsServed
<1> QED BY <1>2, Invariant, PTL
=============================================================================
