------------------------------ MODULE DataFacts ------------------------------
(***************************************************************************)
(* What the proofs of the components need of sequences and finite sets:    *)
(* induction over numbers and over finite sets (a minimal counterexample   *)
(* stands in for the induction theorems of the library, which take an      *)
(* operator), the folds and sums of the community modules, and sequences   *)
(* that are appended, emptied, filtered and flattened.                     *)
(***************************************************************************)
EXTENDS Integers, FiniteSetsExt, FiniteSetTheorems, Functions, SequencesExt, SequenceTheorems, TLAPS

-----------------------------------------------------------------------------
(* Sequences *)

\* A sequence of whatever it contains.
IsSeq(s) == s \in Seq(Range(s))

LEMMA RangeIsImage ==
  ASSUME NEW s
  PROVE  Range(s) = {s[x] : x \in DOMAIN s}
BY DEF Range

\* The empty queue and the empty table are sequences.
LEMMA EmptyIsSeq == IsSeq(<<>>) /\ Len(<<>>) = 0
<1>1. <<>> \in Seq(Range(<<>>))
  BY EmptySeq
<1> QED BY <1>1, EmptySeq DEF IsSeq

\* A channel or a table that grows at its end keeps what it had.
LEMMA AppendKeeps ==
  ASSUME NEW s, IsSeq(s), NEW e
  PROVE  /\ IsSeq(Append(s, e))
         /\ Len(s) \in Nat
         /\ Len(Append(s, e)) = Len(s) + 1
         /\ \A k \in 1 .. Len(s) : Append(s, e)[k] = s[k]
         /\ Append(s, e)[Len(s) + 1] = e
<1> DEFINE S == Range(s) \cup {e}
           t == Append(s, e)
<1>1. s \in Seq(S) /\ e \in S
  BY SeqMonotonic DEF IsSeq
<1>2. /\ t \in Seq(S)
      /\ Len(t) = Len(s) + 1
      /\ \A k \in 1 .. Len(s) : t[k] = s[k]
      /\ t[Len(s) + 1] = e
  BY <1>1, AppendProperties
<1>3. Len(s) \in Nat
  BY <1>1, LenProperties
<1>4. t \in Seq(Range(t))
  <2>1. t \in [1 .. Len(t) -> S] /\ DOMAIN t = 1 .. Len(t) /\ Len(t) \in Nat
    BY <1>2, LenProperties
  <2>2. t \in [1 .. Len(t) -> Range(t)]
    BY <2>1, RangeIsImage
  <2> QED BY <2>1, <2>2, SeqDef
<1> QED BY <1>2, <1>3, <1>4 DEF IsSeq

\* A channel that loses its head keeps the rest.
LEMMA TailKeeps ==
  ASSUME NEW s, IsSeq(s), s # <<>>
  PROVE  /\ IsSeq(Tail(s))
         /\ Len(s) \in Nat \ {0}
         /\ Len(Tail(s)) = Len(s) - 1
         /\ \A k \in 1 .. Len(s) - 1 : Tail(s)[k] = s[k + 1]
         /\ Head(s) = s[1]
<1> DEFINE S == Range(s)
           t == Tail(s)
<1>1. s \in Seq(S)
  BY DEF IsSeq
<1>2. /\ t \in Seq(S) /\ Len(t) = Len(s) - 1
      /\ \A k \in 1 .. Len(t) : t[k] = s[k + 1]
      /\ Head(s) = s[1]
  BY <1>1, HeadTailProperties
<1>3. Len(s) \in Nat \ {0}
  BY <1>1, EmptySeq
<1>4. t \in Seq(Range(t))
  <2>1. t \in [1 .. Len(t) -> S] /\ DOMAIN t = 1 .. Len(t) /\ Len(t) \in Nat
    BY <1>2, LenProperties
  <2>2. t \in [1 .. Len(t) -> Range(t)]
    BY <2>1, RangeIsImage
  <2> QED BY <2>1, <2>2, SeqDef
<1> QED BY <1>2, <1>3, <1>4 DEF IsSeq

\* A function on 1 .. n is a sequence.
LEMMA FunctionIsSeq ==
  ASSUME NEW n \in Nat, NEW S, NEW s \in [1 .. n -> S]
  PROVE  IsSeq(s) /\ Len(s) = n
<1>1. s \in Seq(S)
  BY SeqDef
<1>2. Len(s) = n
  BY <1>1, LenProperties
<1>3. s \in [1 .. n -> Range(s)]
  BY RangeIsImage
<1> QED BY <1>2, <1>3, SeqDef DEF IsSeq

\* An element is taken out: those behind it move up.
LEMMA RemoveAtKeeps ==
  ASSUME NEW S, NEW s \in Seq(S), NEW i \in 1 .. Len(s)
  PROVE  /\ RemoveAt(s, i) \in Seq(S)
         /\ Len(s) \in Nat /\ Len(RemoveAt(s, i)) = Len(s) - 1
         /\ \A k \in 1 .. Len(s) - 1 : RemoveAt(s, i)[k] = IF k < i THEN s[k] ELSE s[k + 1]
<1> DEFINE a == SubSeq(s, 1, i - 1)
           z == SubSeq(s, i + 1, Len(s))
<1>1. Len(s) \in Nat /\ \A k \in 1 .. Len(s) : s[k] \in S
  BY LenProperties, ElementOfSeq
<1>2. a \in Seq(S) /\ Len(a) = i - 1 /\ \A k \in 1 .. i - 1 : a[k] = s[k]
  BY <1>1, SubSeqProperties
<1>3. /\ z \in Seq(S) /\ Len(z) = Len(s) - i
      /\ \A k \in 1 .. Len(s) - i : z[k] = s[k + i]
  <2>1. \A k \in i + 1 .. Len(s) : s[k] \in S
    BY <1>1
  <2>2. /\ z \in Seq(S)
        /\ Len(z) = IF i + 1 <= Len(s) THEN Len(s) - (i + 1) + 1 ELSE 0
        /\ \A k \in 1 .. Len(s) - (i + 1) + 1 : z[k] = s[(i + 1) + k - 1]
    BY <1>1, <2>1, SubSeqProperties
  <2> QED BY <1>1, <2>2
<1> HIDE DEF a, z
<1>4. /\ a \o z \in Seq(S) /\ Len(a \o z) = Len(s) - 1
      /\ \A k \in 1 .. Len(s) - 1 : (a \o z)[k] = IF k <= i - 1 THEN a[k] ELSE z[k - (i - 1)]
  <2>1. /\ a \o z \in Seq(S)
        /\ Len(a \o z) = Len(a) + Len(z)
        /\ \A k \in 1 .. Len(a) + Len(z) :
               (a \o z)[k] = IF k <= Len(a) THEN a[k] ELSE z[k - Len(a)]
    BY <1>2, <1>3, ConcatProperties
  <2>2. Len(a) = i - 1 /\ Len(a) + Len(z) = Len(s) - 1
    BY <1>1, <1>2, <1>3
  <2> QED BY <2>1, <2>2
<1>5. ASSUME NEW k \in 1 .. Len(s) - 1
      PROVE  (a \o z)[k] = IF k < i THEN s[k] ELSE s[k + 1]
  BY <1>1, <1>2, <1>3, <1>4
<1> QED BY <1>1, <1>4, <1>5 DEF RemoveAt, a, z

-----------------------------------------------------------------------------
(* The largest of a bounded set of numbers *)

\* Max of a non-empty set of numbers up to a bound is one of them, and the largest.
\* A minimal element of a well-founded ordering stands in for an induction.
LEMMA MaxIsMember ==
  ASSUME NEW b \in Nat, NEW S, S \subseteq 0 .. b, S # {}
  PROVE  Max(S) \in S /\ \A y \in S : Max(S) >= y
<1> DEFINE Above(x) == {y \in S : y > x}
           T == {Above(x) : x \in S}
           R == StrictSubsetOrdering(0 .. b)
<1>1. IsFiniteSet(0 .. b)
  BY FS_Interval
<1>2. T \subseteq FiniteSubsetsOf(0 .. b) /\ T # {}
  <2>1. \A x \in S : Above(x) \subseteq 0 .. b /\ IsFiniteSet(Above(x))
    BY <1>1, FS_Subset
  <2> QED BY <2>1 DEF FiniteSubsetsOf
<1>3. PICK t \in T : \A u \in T : ~ (<<u, t>> \in R)
  <2>1. IsWellFoundedOn(R, FiniteSubsetsOf(0 .. b))
    BY FS_StrictSubsetOrderingWellFounded
  <2> HIDE DEF R, T
  <2> QED BY <1>2, <2>1, WFMin
<1>4. PICK x \in S : t = Above(x)
  OBVIOUS
<1>5. \A y \in S : x >= y
  <2> SUFFICES ASSUME NEW y \in S, y > x
               PROVE  FALSE
    OBVIOUS
  <2>0. \A z \in S : z \in Int
    OBVIOUS
  <2>1. Above(y) \subseteq Above(x)
    <3>1. \A z \in S : z > y => z > x
      BY <2>0
    <3> QED BY <3>1
  <2>2. y \in Above(x) /\ y \notin Above(y)
    BY <2>0
  <2>3. Above(y) \in T
    OBVIOUS
  <2>4. <<Above(y), t>> \in R
    BY <2>1, <2>2, <1>4 DEF StrictSubsetOrdering
  <2> QED BY <1>3, <2>3, <2>4
<1> QED BY <1>5 DEF Max

\* So has it a smallest one.
LEMMA MinIsMember ==
  ASSUME NEW b \in Nat, NEW S, S \subseteq 0 .. b, S # {}
  PROVE  Min(S) \in S /\ \A y \in S : Min(S) <= y
<1> DEFINE R == {b - y : y \in S}
<1>1. R \subseteq 0 .. b /\ R # {}
  <2>1. \A y \in S : b - y \in 0 .. b
    OBVIOUS
  <2> QED BY <2>1
<1>2. Max(R) \in R /\ \A r \in R : Max(R) >= r
  BY <1>1, MaxIsMember
<1>3. PICK x \in S : Max(R) = b - x
  BY <1>2
<1>4. \A y \in S : b - x >= b - y
  BY <1>2, <1>3
<1>5. \A y \in S : x \in Int /\ y \in Int
  OBVIOUS
<1>6. \A y \in S : x <= y
  BY <1>4, <1>5
<1> QED BY <1>6 DEF Min

-----------------------------------------------------------------------------
(* The elements of a finite set of numbers in ascending order *)

\* f lists numbers, the smallest first.
IsAscending(f) == \A i, j \in DOMAIN f : i < j => f[i] < f[j]

\* How many elements of S come up to x.
Rank(S, x) == Cardinality({y \in S : y <= x})

LEMMA RankIsMonotone ==
  ASSUME NEW S \in SUBSET Nat, IsFiniteSet(S)
  PROVE  /\ Cardinality(S) \in Nat
         /\ \A x \in S : Rank(S, x) \in 1 .. Cardinality(S)
         /\ \A x, y \in S : x < y => Rank(S, x) < Rank(S, y)
<1>2. IsFiniteSet(S) /\ Cardinality(S) \in Nat
  BY FS_CardinalityType
<1> DEFINE Up(x) == {y \in S : y <= x}
<1>3. ASSUME NEW x \in S
      PROVE  IsFiniteSet(Up(x)) /\ Cardinality(Up(x)) \in 1 .. Cardinality(S)
  <2>1. Up(x) \in SUBSET S /\ x \in Up(x)
    OBVIOUS
  <2>2. IsFiniteSet(Up(x)) /\ Cardinality(Up(x)) <= Cardinality(S)
    BY <1>2, <2>1, FS_Subset
  <2>3. Cardinality(Up(x)) \in Nat /\ Cardinality(Up(x)) # 0
    BY <2>1, <2>2, FS_CardinalityType, FS_EmptySet
  <2> QED BY <1>2, <2>2, <2>3
<1>4. ASSUME NEW x \in S, NEW y \in S, x < y
      PROVE  Cardinality(Up(x)) < Cardinality(Up(y))
  <2>1. Up(x) \in SUBSET Up(y)
    <3>1. \A z \in S : z \in Int
      OBVIOUS
    <3>2. \A z \in S : z <= x => z <= y
      BY <1>4, <3>1
    <3> QED BY <3>2
  <2>2. Up(x) # Up(y)
    <3>1. y \in Up(y) /\ y \notin Up(x)
      BY <1>4
    <3> QED BY <3>1
  <2>3. Cardinality(Up(x)) <= Cardinality(Up(y)) /\ Cardinality(Up(x)) # Cardinality(Up(y))
    BY <1>3, <2>1, <2>2, FS_Subset
  <2>4. Cardinality(Up(x)) \in Nat /\ Cardinality(Up(y)) \in Nat
    BY <1>3
  <2> QED BY <2>3, <2>4
<1> QED BY <1>2, <1>3, <1>4 DEF Rank

\* A finite set of numbers has an ascending enumeration.
LEMMA AscendingExists ==
  ASSUME NEW S \in SUBSET Nat, IsFiniteSet(S)
  PROVE  \E f \in [1 .. Cardinality(S) -> S] : IsAscending(f)
<1> DEFINE n == Cardinality(S)
           rank == [x \in S |-> Rank(S, x)]
<1>1. /\ IsFiniteSet(S) /\ n \in Nat
      /\ \A x \in S : rank[x] \in 1 .. n
      /\ \A x, y \in S : x < y => rank[x] < rank[y]
  BY RankIsMonotone
<1>2. rank \in Injection(S, 1 .. n)
  <2>1. \A x, y \in S : rank[x] = rank[y] => x = y
    BY <1>1
  <2> QED BY <1>1, <2>1 DEF Injection, IsInjective
<1>3. IsFiniteSet(1 .. n) /\ Cardinality(1 .. n) = n
  BY <1>1, FS_Interval
<1>4. rank \in Surjection(S, 1 .. n)
  BY <1>2, <1>3, FS_Injection
<1>5. \A i \in 1 .. n : \E x \in S : rank[x] = i
  BY <1>4 DEF Surjection
<1> HIDE DEF rank
<1> DEFINE f == [i \in 1 .. n |-> CHOOSE x \in S : rank[x] = i]
<1>6. \A i \in 1 .. n : f[i] \in S /\ rank[f[i]] = i
  BY <1>5
<1>7. f \in [1 .. n -> S] /\ DOMAIN f = 1 .. n
  BY <1>6
<1> HIDE DEF f
<1>8. ASSUME NEW i \in 1 .. n, NEW j \in 1 .. n, i < j
      PROVE  f[i] < f[j]
  <2>1. f[i] \in Int /\ f[j] \in Int /\ rank[f[i]] = i /\ rank[f[j]] = j
    <3>1. \A x \in S : x \in Int
      OBVIOUS
    <3> QED BY <1>6, <3>1
  <2>2. f[i] # f[j] /\ ~ (f[j] < f[i])
    BY <1>1, <1>6, <1>8, <2>1
  <2> QED BY <2>1, <2>2
<1> QED BY <1>7, <1>8 DEF IsAscending

\* It has every element, and that of an interval counts from its first.
LEMMA AscendingIsOnto ==
  ASSUME NEW S \in SUBSET Nat, IsFiniteSet(S),
         NEW f \in [1 .. Cardinality(S) -> S], IsAscending(f)
  PROVE  /\ Cardinality(S) \in Nat
         /\ \A x \in S : \E i \in 1 .. Cardinality(S) : f[i] = x
         /\ \A a, z \in Nat : S = a .. z =>
                \A i \in 1 .. Cardinality(S) : f[i] = a + i - 1
<1> DEFINE n == Cardinality(S)
<1>1. IsFiniteSet(S) /\ n \in Nat
  BY RankIsMonotone
<1>2. IsFiniteSet(1 .. n) /\ Cardinality(1 .. n) = n
  BY <1>1, FS_Interval
<1>3. \A i \in 1 .. n : f[i] \in S /\ f[i] \in Int
  <2>1. \A x \in S : x \in Int
    OBVIOUS
  <2> QED BY <2>1
<1>4. \A i, j \in 1 .. n : f[i] = f[j] => i = j
  BY <1>1, <1>3 DEF IsAscending
<1>5. f \in Surjection(1 .. n, S)
  <2>1. f \in Injection(1 .. n, S)
    BY <1>4 DEF Injection, IsInjective
  <2> QED BY <1>1, <1>2, <2>1, FS_Injection
<1>6. \A x \in S : \E i \in 1 .. n : f[i] = x
  BY <1>5 DEF Surjection
<1>7. ASSUME NEW a \in Nat, NEW z \in Nat, S = a .. z, NEW i \in 1 .. n
      PROVE  f[i] = a + i - 1
  <2> DEFINE T == a .. f[i]
             h == [k \in 1 .. i |-> f[k]]
  <2>1. f[i] \in Int /\ a <= f[i] /\ f[i] <= z
    BY <1>3, <1>7
  <2>2. \A k \in 1 .. i : k \in 1 .. n /\ f[k] \in T
    <3>1. \A k \in 1 .. i : k \in 1 .. n /\ f[k] <= f[i] /\ f[k] \in a .. z
      BY <1>1, <1>3, <1>7 DEF IsAscending
    <3> QED BY <2>1, <3>1
  <2>3. ASSUME NEW x \in T
        PROVE  \E k \in 1 .. i : f[k] = x
    <3>1. x \in S /\ x <= f[i] /\ x \in Int
      BY <1>7, <2>1
    <3>2. PICK k \in 1 .. n : f[k] = x
      BY <1>6, <3>1
    <3>3. ~ (i < k)
      BY <1>1, <2>1, <3>1, <3>2 DEF IsAscending
    <3> QED BY <1>1, <3>2, <3>3
  <2>4. h \in Bijection(1 .. i, T)
    <3>1. h \in [1 .. i -> T] /\ \A j, k \in 1 .. i : h[j] = h[k] => j = k
      BY <1>4, <2>2
    <3>2. \A x \in T : \E k \in 1 .. i : h[k] = x
      BY <2>3
    <3> QED BY <3>1, <3>2 DEF Bijection, Injection, Surjection, IsInjective
  <2>5. IsFiniteSet(1 .. i) /\ Cardinality(1 .. i) = i
    BY <1>1, FS_Interval
  <2>6. Cardinality(T) = i
    BY <2>4, <2>5, FS_Bijection DEF ExistsBijection
  <2>7. Cardinality(T) = f[i] - a + 1
    BY <2>1, FS_Interval
  <2> QED BY <2>1, <2>6, <2>7
<1> QED BY <1>1, <1>6, <1>7

-----------------------------------------------------------------------------
(* Induction, over sets of numbers and of finite sets *)

\* A set that holds zero and is closed under successor holds every number.
LEMMA NumbersByInduction ==
  ASSUME NEW T, 0 \in T, \A n \in Nat : n \in T => n + 1 \in T
  PROVE  Nat \subseteq T
<1> SUFFICES ASSUME Nat \ T # {}
             PROVE  FALSE
  OBVIOUS
<1> DEFINE Before == {ss \in Nat \X Nat : ss[1] < ss[2]}
           Missing == Nat \ T
<1>1. IsWellFoundedOn(Before, Nat)
  BY NatLessThanWellFounded DEF OpToRel
<1>2. PICK x \in Missing : \A y \in Missing : ~ (<<y, x>> \in Before)
  <2>1. Missing \subseteq Nat /\ Missing # {}
    OBVIOUS
  <2> HIDE DEF Before, Missing
  <2> QED BY <1>1, <2>1, WFMin, Zenon
<1>3. x \in Nat \ {0} /\ x \notin T
  OBVIOUS
<1>4. x - 1 \in Nat /\ (x - 1) + 1 = x
  BY <1>3
<1>5. x - 1 \notin T
  BY <1>3, <1>4
<1>6. <<x - 1, x>> \in Before
  BY <1>3, <1>4
<1> QED BY <1>2, <1>4, <1>5, <1>6

\* A set of sets that holds the empty set and is closed under insertion holds
\* every finite set.
LEMMA SetsByInduction ==
  ASSUME NEW S, IsFiniteSet(S), NEW T, {} \in T,
         \A s \in SUBSET S : \A x \in S \ s : s \in T => s \cup {x} \in T
  PROVE  S \in T
<1> DEFINE N == {n \in Nat : \A s \in SUBSET S : Cardinality(s) = n => s \in T}
<1>0. \A s \in SUBSET S : IsFiniteSet(s) /\ Cardinality(s) \in Nat
  BY FS_Subset, FS_CardinalityType
<1>1. 0 \in N
  BY <1>0, FS_EmptySet
<1>2. \A n \in Nat : n \in N => n + 1 \in N
  <2> SUFFICES ASSUME NEW n \in Nat, n \in N, NEW s \in SUBSET S, Cardinality(s) = n + 1
               PROVE  s \in T
    OBVIOUS
  <2>1. s # {}
    BY FS_EmptySet
  <2>2. PICK x \in s : TRUE
    BY <2>1
  <2>3. Cardinality(s \ {x}) = n
    BY <1>0, <2>2, FS_RemoveElement
  <2>4. s \ {x} \in T
    BY <2>3
  <2> QED BY <2>2, <2>4
<1>3. Nat \subseteq N
  <2> HIDE DEF N
  <2> QED BY <1>1, <1>2, NumbersByInduction
<1> QED BY <1>0, <1>3

-----------------------------------------------------------------------------
(* Folds *)

\* A function that folds a set, element after element as `choose' picks them.
IsIterator(G, S, V, base, choose, step) ==
  /\ G \in [SUBSET S -> V]
  /\ G = [s \in SUBSET S |-> IF s = {} THEN base ELSE step[<<G[s \ {choose[s]}], choose[s]>>]]

\* Such a function exists: it is built for the small sets first.
LEMMA IteratorExists ==
  ASSUME NEW S, IsFiniteSet(S), NEW V, NEW base \in V, NEW choose,
         \A s \in SUBSET S : s # {} => choose[s] \in s,
         NEW step \in [V \X S -> V]
  PROVE  \E G : IsIterator(G, S, V, base, choose, step)
<1> DEFINE Small(n) == {s \in SUBSET S : Cardinality(s) <= n}
           Equation(G, s) ==
              G[s] = IF s = {} THEN base ELSE step[<<G[s \ {choose[s]}], choose[s]>>]
           Good(G, n) == G \in [Small(n) -> V] /\ \A s \in Small(n) : Equation(G, s)
           T == {n \in Nat : \E G : Good(G, n)}
<1>0. \A s \in SUBSET S : IsFiniteSet(s) /\ Cardinality(s) \in Nat
  BY FS_Subset, FS_CardinalityType
<1>a. \A s \in SUBSET S : s # {} => /\ s \ {choose[s]} \in SUBSET S
                                    /\ choose[s] \in S
                                    /\ Cardinality(s \ {choose[s]}) = Cardinality(s) - 1
  BY <1>0, FS_RemoveElement
<1>1. 0 \in T
  <2>1. \A s \in Small(0) : s = {}
    BY <1>0, FS_EmptySet
  <2>2. Good([s \in Small(0) |-> base], 0)
    BY <2>1
  <2> QED BY <2>2
<1>2. \A n \in Nat : n \in T => n + 1 \in T
  <2> SUFFICES ASSUME NEW n \in Nat, n \in T
               PROVE  \E H : Good(H, n + 1)
    <3> HIDE DEF Good
    <3> QED OBVIOUS
  <2>0. PICK G : Good(G, n)
    <3> HIDE DEF Good
    <3> QED OBVIOUS
  <2> DEFINE H == [s \in Small(n + 1) |->
                     IF s = {} THEN base ELSE step[<<G[s \ {choose[s]}], choose[s]>>]]
  <2>1. \A s \in Small(n) : s \in Small(n + 1) /\ H[s] = G[s]
    BY <1>0, <2>0
  <2>2. \A s \in Small(n + 1) : s # {} => s \ {choose[s]} \in Small(n)
    BY <1>0, <1>a
  <2>3. H \in [Small(n + 1) -> V]
    <3>1. \A s \in Small(n + 1) : s # {} => step[<<G[s \ {choose[s]}], choose[s]>>] \in V
      <4> TAKE s \in Small(n + 1)
      <4> HAVE s # {}
      <4>1. G[s \ {choose[s]}] \in V /\ choose[s] \in S
        BY <2>0, <2>2, <1>a
      <4> QED BY <4>1
    <3> QED BY <3>1
  <2>4. \A s \in Small(n + 1) : Equation(H, s)
    <3> TAKE s \in Small(n + 1)
    <3>1. CASE s = {}
      BY <3>1
    <3>2. CASE s # {}
      <4>1. H[s \ {choose[s]}] = G[s \ {choose[s]}]
        BY <3>2, <2>1, <2>2
      <4>2. H[s] = step[<<G[s \ {choose[s]}], choose[s]>>]
        BY <3>2
      <4> QED BY <3>2, <4>1, <4>2
    <3> QED BY <3>1, <3>2
  <2>5. Good(H, n + 1)
    BY <2>3, <2>4
  <2> HIDE DEF Good, H
  <2> QED BY <2>5
<1>3. Nat \subseteq T
  <2> HIDE DEF T
  <2> QED BY <1>1, <1>2, NumbersByInduction
<1>4. PICK G : Good(G, Cardinality(S))
  BY <1>0, <1>3
<1>5. Small(Cardinality(S)) = SUBSET S
  <2>1. \A s \in SUBSET S : Cardinality(s) <= Cardinality(S)
    BY FS_Subset
  <2> QED BY <2>1
<1>6. G \in [SUBSET S -> V] /\ \A s \in SUBSET S : Equation(G, s)
  BY <1>4, <1>5
<1>7. G = [s \in SUBSET S |-> IF s = {} THEN base ELSE step[<<G[s \ {choose[s]}], choose[s]>>]]
  BY <1>6
<1> QED BY <1>6, <1>7 DEF IsIterator

-----------------------------------------------------------------------------
(* Sums *)

Picked(s) == CHOOSE x \in s : TRUE

SumEquation(g, f, S) ==
  g = [s \in SUBSET S |-> IF s = {} THEN 0 ELSE f[Picked(s)] + g[s \ {Picked(s)}]]

\* The sum of the community modules, as the fold that it is.
LEMMA SumUnfolds ==
  ASSUME NEW f
  PROVE  SumFunction(f) = (CHOOSE g : SumEquation(g, f, DOMAIN f))[DOMAIN f]
BY Zenon DEF SumFunction, SumFunctionOnSet, FoldFunctionOnSet, MapThenFoldSet, SumEquation, Picked

\* The sums over all subsets, whichever element is taken from one.
IsSum(G, f, S) ==
  /\ G \in [SUBSET S -> Int]
  /\ G[{}] = 0
  /\ \A s \in SUBSET S : \A x \in s : G[s] = f[x] + G[s \ {x}]

\* A sum of integers is the last entry of such a table.
LEMMA SumHasTable ==
  ASSUME NEW S, IsFiniteSet(S), NEW f \in [S -> Int]
  PROVE  \E G : IsSum(G, f, S) /\ SumFunction(f) = G[S]
<1> DEFINE choose == [s \in SUBSET S |-> Picked(s)]
           step == [p \in Int \X S |-> f[p[2]] + p[1]]
           G == CHOOSE g : SumEquation(g, f, S)
<1>0. \A s \in SUBSET S : IsFiniteSet(s) /\ Cardinality(s) \in Nat
  BY FS_Subset, FS_CardinalityType
<1>a. \A s \in SUBSET S : s # {} => Picked(s) \in s
  BY DEF Picked
<1>1. \E H : IsIterator(H, S, Int, 0, choose, step)
  <2>1. \A s \in SUBSET S : s # {} => choose[s] \in s
    BY <1>a
  <2>2. step \in [Int \X S -> Int]
    OBVIOUS
  <2>3. 0 \in Int
    OBVIOUS
  <2> HIDE DEF choose, step
  <2> QED BY <2>1, <2>2, <2>3, IteratorExists
<1>2. \A H \in [SUBSET S -> Int] : \A s \in SUBSET S :
         s # {} => step[<<H[s \ {choose[s]}], choose[s]>>] = f[Picked(s)] + H[s \ {Picked(s)}]
  <2> TAKE H \in [SUBSET S -> Int]
  <2> TAKE s \in SUBSET S
  <2> HAVE s # {}
  <2>1. Picked(s) \in S /\ s \ {Picked(s)} \in SUBSET S
    BY <1>a
  <2>2. <<H[s \ {Picked(s)}], Picked(s)>> \in Int \X S
    BY <2>1
  <2> QED BY <2>2
<1>3. PICK H : SumEquation(H, f, S) /\ H \in [SUBSET S -> Int]
  <2>1. PICK H : IsIterator(H, S, Int, 0, choose, step)
    BY <1>1
  <2>2. SumEquation(H, f, S)
    <3> HIDE DEF choose, step
    <3> QED BY <2>1, <1>2 DEF IsIterator, SumEquation
  <2> QED BY <2>1, <2>2 DEF IsIterator
<1>4. SumEquation(G, f, S)
  BY <1>3, Zenon
<1>5. \A s \in SUBSET S : G[s] = IF s = {} THEN 0 ELSE f[Picked(s)] + G[s \ {Picked(s)}]
  <2> HIDE DEF G
  <2> QED BY <1>4, Zenon DEF SumEquation
<1>6. DOMAIN G = SUBSET S /\ G = [s \in SUBSET S |-> G[s]]
  <2> HIDE DEF G
  <2> QED BY <1>4, Zenon DEF SumEquation
<1> HIDE DEF G, choose, step
\* By induction on how many elements there are, G is of integers and any
\* element may be the one that is added last.
<1> DEFINE Splits(s) == G[s] \in Int /\ \A x \in s : G[s] = f[x] + G[s \ {x}]
           T == {n \in Nat : \A s \in SUBSET S : Cardinality(s) <= n => Splits(s)}
<1>a1. G[{}] = 0
  <2>1. {} \in SUBSET S
    OBVIOUS
  <2> QED BY <1>5, <2>1, Zenon
<1>7. 0 \in T
  <2>1. \A s \in SUBSET S : Cardinality(s) <= 0 => s = {}
    BY <1>0, FS_EmptySet
  <2>2. Splits({})
    BY <1>a1
  <2> HIDE DEF Splits
  <2> QED BY <2>1, <2>2
<1>8. \A n \in Nat : n \in T => n + 1 \in T
  <2> SUFFICES ASSUME NEW n \in Nat, n \in T, NEW s \in SUBSET S, Cardinality(s) <= n + 1, s # {}
               PROVE  Splits(s)
    <3>1. Splits({})
      BY <1>a1
    <3> HIDE DEF Splits
    <3> QED BY <3>1
  <2>2. \A x \in s : /\ s \ {x} \in SUBSET S /\ IsFiniteSet(s \ {x})
                    /\ Cardinality(s \ {x}) <= n /\ f[x] \in Int
    BY <1>0, FS_RemoveElement
  <2>3. \A x \in s : Splits(s \ {x})
    BY <2>2
  <2> DEFINE c == Picked(s)
  <2>4. c \in s /\ G[s] = f[c] + G[s \ {c}]
    BY <1>a, <1>5
  <2> HIDE DEF c
  <2>5. G[s] \in Int
    BY <2>2, <2>3, <2>4
  <2>6. ASSUME NEW x \in s, x # c
        PROVE  G[s] = f[x] + G[s \ {x}]
    <3>1. G[s \ {c}] = f[x] + G[(s \ {c}) \ {x}]
      BY <2>3, <2>4, <2>6
    <3>2. G[s \ {x}] = f[c] + G[(s \ {x}) \ {c}]
      BY <2>3, <2>4, <2>6
    <3>3. (s \ {c}) \ {x} = (s \ {x}) \ {c}
      OBVIOUS
    <3>4. f[x] \in Int /\ f[c] \in Int /\ G[s \ {x}] \in Int
      BY <2>2, <2>3, <2>4
    <3>5. G[(s \ {c}) \ {x}] \in Int
      <4>1. (s \ {c}) \ {x} \in SUBSET S
        OBVIOUS
      <4>2. Cardinality((s \ {c}) \ {x}) <= Cardinality(s \ {c})
        BY <2>2, <2>4, FS_Subset
      <4>3. Cardinality((s \ {c}) \ {x}) <= n
        BY <1>0, <2>2, <2>4, <4>1, <4>2
      <4>4. Splits((s \ {c}) \ {x})
        <5> HIDE DEF Splits
        <5> QED BY <4>1, <4>3
      <4> QED BY <4>4
    <3> DEFINE d == G[(s \ {c}) \ {x}]
    <3>6. G[s] = f[c] + (f[x] + d)
      BY <2>4, <3>1, Zenon
    <3>7. G[s \ {x}] = f[c] + d
      BY <3>2, <3>3, Zenon
    <3>8. d \in Int
      BY <3>5, Zenon
    <3> HIDE DEF d
    <3>9. f[c] + (f[x] + d) = f[x] + (f[c] + d)
      BY <3>4, <3>8
    <3> QED BY <3>6, <3>7, <3>9, Zenon
  <2> QED BY <2>4, <2>5, <2>6
<1>9. Nat \subseteq T
  <2> HIDE DEF T
  <2> QED BY <1>7, <1>8, NumbersByInduction
<1>10. \A s \in SUBSET S : Splits(s)
  BY <1>0, <1>9
<1>11. G \in [SUBSET S -> Int]
  BY <1>6, <1>10
<1>12. IsSum(G, f, S)
  BY <1>5, <1>10, <1>11 DEF IsSum
<1>13. SumFunction(f) = G[S]
  BY SumUnfolds DEF G
<1> QED BY <1>12, <1>13

\* Functions that agree on a set have the same sum over it.
LEMMA SumsAgree ==
  ASSUME NEW S, IsFiniteSet(S), NEW R, S \subseteq R, NEW f, NEW h, NEW G, NEW H,
         IsSum(G, f, S), IsSum(H, h, R), \A x \in S : f[x] = h[x]
  PROVE  G[S] = H[S]
<1> DEFINE T == {s \in SUBSET S : G[s] = H[s]}
<1>1. {} \in T
  BY DEF IsSum
<1>2. \A s \in SUBSET S : \A x \in S \ s : s \in T => s \cup {x} \in T
  <2> SUFFICES ASSUME NEW s \in SUBSET S, NEW x \in S \ s, s \in T
               PROVE  G[s \cup {x}] = H[s \cup {x}]
    OBVIOUS
  <2>1. s \cup {x} \in SUBSET S /\ s \cup {x} \in SUBSET R /\ x \in s \cup {x}
    OBVIOUS
  <2>2. (s \cup {x}) \ {x} = s
    OBVIOUS
  <2>3. G[s \cup {x}] = f[x] + G[s]
    <3>1. \A t \in SUBSET S : \A y \in t : G[t] = f[y] + G[t \ {y}]
      BY DEF IsSum
    <3> QED BY <2>1, <2>2, <3>1, Zenon
  <2>5. H[s \cup {x}] = h[x] + H[s]
    <3>1. \A t \in SUBSET R : \A y \in t : H[t] = h[y] + H[t \ {y}]
      BY DEF IsSum
    <3> QED BY <2>1, <2>2, <3>1, Zenon
  <2>4. f[x] = h[x] /\ G[s] = H[s]
    OBVIOUS
  <2> QED BY <2>3, <2>4, <2>5, Zenon
<1>3. S \in T
  <2> HIDE DEF T
  <2> QED BY <1>1, <1>2, SetsByInduction
<1> QED BY <1>3

\* A sum is one of its terms and the sum of the others.
LEMMA SumTakesOne ==
  ASSUME NEW S, IsFiniteSet(S), NEW f \in [S -> Int], NEW x \in S
  PROVE  /\ SumFunction(f) = f[x] + SumFunction(Restrict(f, S \ {x}))
         /\ SumFunction(Restrict(f, S \ {x})) \in Int
         /\ SumFunction(f) \in Int
<1> DEFINE r == [y \in S \ {x} |-> f[y]]
<1>1. PICK G : IsSum(G, f, S) /\ SumFunction(f) = G[S]
  BY SumHasTable
<1>2. PICK H : IsSum(H, r, S \ {x}) /\ SumFunction(r) = H[S \ {x}]
  <2>1. IsFiniteSet(S \ {x}) /\ r \in [S \ {x} -> Int]
    BY FS_Subset
  <2> HIDE DEF r
  <2> QED BY <2>1, SumHasTable
<1>3. H[S \ {x}] = G[S \ {x}]
  <2>1. IsFiniteSet(S \ {x}) /\ S \ {x} \subseteq S
    BY FS_Subset
  <2>2. \A y \in S \ {x} : r[y] = f[y]
    OBVIOUS
  <2> HIDE DEF r
  <2> QED BY <1>1, <1>2, <2>1, <2>2, SumsAgree
<1>4. G[S] = f[x] + G[S \ {x}] /\ G[S \ {x}] \in Int /\ G[S] \in Int
  <2>1. S \in SUBSET S /\ S \ {x} \in SUBSET S
    OBVIOUS
  <2> QED BY <1>1, <2>1 DEF IsSum
<1> HIDE DEF r
<1>5. SumFunction(f) = f[x] + SumFunction(r) /\ SumFunction(r) \in Int /\ SumFunction(f) \in Int
  BY <1>1, <1>2, <1>3, <1>4, Zenon
<1>6. r = Restrict(f, S \ {x})
  BY DEF r, Restrict
<1> QED BY <1>5, <1>6

\* The sum of nothing.
LEMMA SumOfNone == \A f : DOMAIN f = {} => SumFunction(f) = 0
<1> SUFFICES ASSUME NEW f, DOMAIN f = {}
             PROVE  SumFunction(f) = 0
  OBVIOUS
<1> DEFINE G == CHOOSE g : SumEquation(g, f, {})
<1>1. SumEquation([s \in SUBSET {} |-> 0], f, {})
  <2>1. \A s \in SUBSET {} : s = {}
    OBVIOUS
  <2> QED BY <2>1 DEF SumEquation
<1>2. SumEquation(G, f, {})
  BY <1>1, Zenon
<1>3. G[{}] = 0
  <2>1. {} \in SUBSET {}
    OBVIOUS
  <2> HIDE DEF G
  <2> QED BY <1>2, <2>1, Zenon DEF SumEquation
<1> QED BY <1>3, SumUnfolds

\* A sum of integers is an integer.
LEMMA SumIsInt ==
  ASSUME NEW S, IsFiniteSet(S), NEW f \in [S -> Int]
  PROVE  SumFunction(f) \in Int
<1>1. PICK G : IsSum(G, f, S) /\ SumFunction(f) = G[S]
  BY SumHasTable
<1>2. S \in SUBSET S
  OBVIOUS
<1> QED BY <1>1, <1>2 DEF IsSum

\* A sum of naturals is a natural, by induction over the subsets.
LEMMA SumIsNat ==
  ASSUME NEW S, IsFiniteSet(S), NEW f \in [S -> Nat]
  PROVE  SumFunction(f) \in Nat
<1>1. PICK G : IsSum(G, f, S) /\ SumFunction(f) = G[S]
  <2>1. f \in [S -> Int]
    OBVIOUS
  <2> QED BY <2>1, SumHasTable
<1> DEFINE T == {s \in SUBSET S : G[s] \in Nat}
<1>2. {} \in T
  BY <1>1 DEF IsSum
<1>3. \A s \in SUBSET S : \A x \in S \ s : s \in T => s \cup {x} \in T
  <2> SUFFICES ASSUME NEW s \in SUBSET S, NEW x \in S \ s, s \in T
               PROVE  G[s \cup {x}] \in Nat
    OBVIOUS
  <2>1. PICK z : z = s \cup {x}
    OBVIOUS
  <2>2. z \in SUBSET S /\ x \in z /\ z \ {x} = s
    BY <2>1
  <2>3. G[s \cup {x}] = f[x] + G[s]
    <3>1. G[z] = f[x] + G[z \ {x}]
      BY <1>1, <2>2, Zenon DEF IsSum
    <3> QED BY <2>1, <2>2, <3>1, Zenon
  <2>4. f[x] \in Nat /\ G[s] \in Nat
    OBVIOUS
  <2> QED BY <2>3, <2>4
<1>4. S \in T
  <2> HIDE DEF T
  <2> QED BY <1>2, <1>3, SetsByInduction
<1> QED BY <1>1, <1>4

\* One term of a sum changes.
LEMMA SumChanges ==
  ASSUME NEW S, IsFiniteSet(S), NEW f \in [S -> Int], NEW g \in [S -> Int], NEW x \in S,
         \A y \in S \ {x} : g[y] = f[y]
  PROVE  SumFunction(g) = SumFunction(f) - f[x] + g[x]
<1> DEFINE rest == SumFunction(Restrict(f, S \ {x}))
<1>1. Restrict(g, S \ {x}) = Restrict(f, S \ {x})
  BY DEF Restrict
<1>2. SumFunction(f) = f[x] + rest /\ rest \in Int
  BY SumTakesOne
<1>3. SumFunction(g) = g[x] + rest
  <2>1. SumFunction(g) = g[x] + SumFunction(Restrict(g, S \ {x}))
    BY SumTakesOne
  <2> QED BY <2>1, <1>1, Zenon
<1> HIDE DEF rest
<1>4. f[x] \in Int /\ g[x] \in Int
  OBVIOUS
<1> QED BY <1>2, <1>3, <1>4

\* So is the sum over a part.
LEMMA PartTakesOne ==
  ASSUME NEW S, IsFiniteSet(S), NEW f \in [S -> Int], NEW a \in SUBSET S, NEW x \in a
  PROVE  /\ SumFunction(Restrict(f, a)) = f[x] + SumFunction(Restrict(f, a \ {x}))
         /\ SumFunction(Restrict(f, a \ {x})) \in Int
         /\ SumFunction(Restrict(f, a)) \in Int
<1> DEFINE r == Restrict(f, a)
<1>1. r \in [a -> Int] /\ r[x] = f[x] /\ IsFiniteSet(a)
  BY FS_Subset DEF Restrict
<1>2. Restrict(r, a \ {x}) = Restrict(f, a \ {x})
  BY DEF Restrict
<1> HIDE DEF r
<1>3. /\ SumFunction(r) = r[x] + SumFunction(Restrict(r, a \ {x}))
      /\ SumFunction(Restrict(r, a \ {x})) \in Int
      /\ SumFunction(r) \in Int
  BY <1>1, SumTakesOne
<1> QED BY <1>1, <1>2, <1>3, Zenon DEF r

\* A sum is the sum of its parts.
LEMMA SumOfParts ==
  ASSUME NEW S, IsFiniteSet(S), NEW f \in [S -> Int], NEW A \in SUBSET S
  PROVE  /\ SumFunction(f) = SumFunction(Restrict(f, A)) + SumFunction(Restrict(f, S \ A))
         /\ SumFunction(Restrict(f, A)) \in Int
         /\ SumFunction(Restrict(f, S \ A)) \in Int
<1> DEFINE Part(a) == SumFunction(Restrict(f, a))
           T == {a \in SUBSET A : SumFunction(f) = Part(a) + Part(S \ a)}
<1>0. \A a \in SUBSET S : Part(a) \in Int
  <2> TAKE a \in SUBSET S
  <2>1. IsFiniteSet(a) /\ Restrict(f, a) \in [a -> Int]
    BY FS_Subset DEF Restrict
  <2> QED BY <2>1, SumIsInt
<1>1. {} \in T
  <2>1. Part({}) = 0
    <3>1. DOMAIN Restrict(f, {}) = {}
      BY DEF Restrict
    <3> QED BY <3>1, SumOfNone
  <2>2. Restrict(f, S \ {}) = f
    BY DEF Restrict
  <2>3. SumFunction(f) \in Int
    BY SumIsInt
  <2>4. Part(S \ {}) = SumFunction(f)
    BY <2>2, Zenon
  <2> HIDE DEF Part
  <2> QED BY <2>1, <2>3, <2>4
<1>2. \A a \in SUBSET A : \A x \in A \ a : a \in T => a \cup {x} \in T
  <2> SUFFICES ASSUME NEW a \in SUBSET A, NEW x \in A \ a, SumFunction(f) = Part(a) + Part(S \ a)
               PROVE  SumFunction(f) = Part(a \cup {x}) + Part(S \ (a \cup {x}))
    <3> HIDE DEF Part
    <3> QED OBVIOUS
  <2>1. /\ a \cup {x} \in SUBSET S /\ x \in a \cup {x} /\ (a \cup {x}) \ {x} = a
        /\ S \ a \in SUBSET S /\ x \in S \ a /\ (S \ a) \ {x} = S \ (a \cup {x})
    OBVIOUS
  <2>2. Part(a \cup {x}) = f[x] + Part(a)
    BY <2>1, PartTakesOne
  <2>3. Part(S \ a) = f[x] + Part(S \ (a \cup {x}))
    BY <2>1, PartTakesOne
  <2>4. f[x] \in Int /\ Part(a) \in Int /\ Part(S \ (a \cup {x})) \in Int
    BY <1>0, <2>1
  <2> HIDE DEF Part
  <2> QED BY <2>2, <2>3, <2>4
<1>3. A \in T
  <2> IsFiniteSet(A)
    BY FS_Subset
  <2> HIDE DEF T
  <2> QED BY <1>1, <1>2, SetsByInduction
<1>4. A \in SUBSET S /\ S \ A \in SUBSET S
  OBVIOUS
<1> QED BY <1>0, <1>3, <1>4

\* The sum of a function that adds two functions.
LEMMA SumAdds ==
  ASSUME NEW S, IsFiniteSet(S), NEW f \in [S -> Int], NEW g \in [S -> Int], NEW h \in [S -> Int],
         \A x \in S : h[x] = f[x] + g[x]
  PROVE  SumFunction(h) = SumFunction(f) + SumFunction(g)
<1>1. PICK F : IsSum(F, f, S) /\ SumFunction(f) = F[S]
  BY SumHasTable
<1>2. PICK G : IsSum(G, g, S) /\ SumFunction(g) = G[S]
  BY SumHasTable
<1>3. PICK H : IsSum(H, h, S) /\ SumFunction(h) = H[S]
  BY SumHasTable
<1> DEFINE T == {s \in SUBSET S : H[s] = F[s] + G[s]}
<1>4. {} \in T
  BY <1>1, <1>2, <1>3 DEF IsSum
<1>5. \A s \in SUBSET S : \A x \in S \ s : s \in T => s \cup {x} \in T
  <2> SUFFICES ASSUME NEW s \in SUBSET S, NEW x \in S \ s, s \in T
               PROVE  H[s \cup {x}] = F[s \cup {x}] + G[s \cup {x}]
    OBVIOUS
  <2>0. PICK z : z = s \cup {x}
    OBVIOUS
  <2>1. z \in SUBSET S /\ x \in z /\ z \ {x} = s
    BY <2>0
  <2>2. F[s \cup {x}] = f[x] + F[s]
    <3>1. F[z] = f[x] + F[z \ {x}]
      BY <1>1, <2>1, Zenon DEF IsSum
    <3> QED BY <2>0, <2>1, <3>1, Zenon
  <2>3. G[s \cup {x}] = g[x] + G[s]
    <3>1. G[z] = g[x] + G[z \ {x}]
      BY <1>2, <2>1, Zenon DEF IsSum
    <3> QED BY <2>0, <2>1, <3>1, Zenon
  <2>4. H[s \cup {x}] = h[x] + H[s]
    <3>1. H[z] = h[x] + H[z \ {x}]
      BY <1>3, <2>1, Zenon DEF IsSum
    <3> QED BY <2>0, <2>1, <3>1, Zenon
  <2>5. f[x] \in Int /\ g[x] \in Int /\ h[x] = f[x] + g[x] /\ H[s] = F[s] + G[s]
    OBVIOUS
  <2>6. F[s] \in Int /\ G[s] \in Int
    BY <1>1, <1>2 DEF IsSum
  <2> QED BY <2>2, <2>3, <2>4, <2>5, <2>6
<1>6. S \in T
  <2> HIDE DEF T
  <2> QED BY <1>4, <1>5, SetsByInduction
<1> QED BY <1>1, <1>2, <1>3, <1>6

\* A sum of zeros is zero.
LEMMA SumOfZeros ==
  ASSUME NEW S, IsFiniteSet(S), NEW f \in [S -> Int], \A x \in S : f[x] = 0
  PROVE  SumFunction(f) = 0
<1>1. SumFunction(f) = SumFunction(f) + SumFunction(f)
  <2>1. \A x \in S : f[x] = f[x] + f[x]
    OBVIOUS
  <2> QED BY <2>1, SumAdds
<1>2. SumFunction(f) \in Int
  BY SumIsInt
<1>3. \A n \in Int : n = n + n => n = 0
  OBVIOUS
<1> QED BY <1>1, <1>2, <1>3, Zenon

\* Things counted by owner are counted all.
LEMMA SumOfCounts ==
  ASSUME NEW O, IsFiniteSet(O), NEW I, IsFiniteSet(I), NEW owner \in [I -> O]
  PROVE  SumFunction([o \in O |-> Cardinality({i \in I : owner[i] = o})]) = Cardinality(I)
<1> DEFINE Counts(s) == [o \in O |-> Cardinality({i \in s : owner[i] = o})]
           T == {s \in SUBSET I : SumFunction(Counts(s)) = Cardinality(s)}
<1>0. \A s \in SUBSET I : Counts(s) \in [O -> Int]
  <2>1. \A s \in SUBSET I : \A o \in O : Cardinality({i \in s : owner[i] = o}) \in Int
    <3> TAKE s \in SUBSET I
    <3> TAKE o \in O
    <3>1. {i \in s : owner[i] = o} \in SUBSET I
      OBVIOUS
    <3> QED BY <3>1, FS_Subset, FS_CardinalityType
  <2> QED BY <2>1
<1>1. {} \in T
  <2>1. \A o \in O : Counts({})[o] = 0
    BY FS_EmptySet
  <2> HIDE DEF Counts
  <2> QED BY <1>0, <2>1, SumOfZeros, FS_EmptySet
<1>2. \A s \in SUBSET I : \A x \in I \ s : s \in T => s \cup {x} \in T
  <2> SUFFICES ASSUME NEW s \in SUBSET I, NEW x \in I \ s, SumFunction(Counts(s)) = Cardinality(s)
               PROVE  SumFunction(Counts(s \cup {x})) = Cardinality(s \cup {x})
    <3> HIDE DEF Counts
    <3> QED OBVIOUS
  <2> DEFINE b == owner[x]
             t == s \cup {x}
  <2>1. b \in O /\ t \in SUBSET I
    OBVIOUS
  <2>2. \A o \in O \ {b} : Counts(t)[o] = Counts(s)[o]
    <3> TAKE o \in O \ {b}
    <3>1. {i \in t : owner[i] = o} = {i \in s : owner[i] = o}
      OBVIOUS
    <3> QED BY <3>1
  <2>3. Counts(t)[b] = Counts(s)[b] + 1
    <3> DEFINE m == {i \in s : owner[i] = b}
    <3>1. {i \in t : owner[i] = b} = m \cup {x}
      OBVIOUS
    <3>2. IsFiniteSet(m) /\ x \notin m
      BY FS_Subset
    <3>3. Cardinality(m \cup {x}) = Cardinality(m) + 1
      <4> HIDE DEF m
      <4> QED BY <3>2, FS_AddElement
    <3>4. Counts(t)[b] = Cardinality(m \cup {x}) /\ Counts(s)[b] = Cardinality(m)
      BY <2>1, <3>1, Zenon
    <3> HIDE DEF m, Counts, t, b
    <3> QED BY <3>3, <3>4
  <2>4. Cardinality(t) = Cardinality(s) + 1 /\ Cardinality(s) \in Int
    BY FS_Subset, FS_AddElement, FS_CardinalityType
  <2>5. Counts(s) \in [O -> Int] /\ Counts(t) \in [O -> Int]
    BY <1>0, <2>1
  <2> HIDE DEF Counts, t, b
  <2>6. SumFunction(Counts(t)) = SumFunction(Counts(s)) - Counts(s)[b] + Counts(t)[b]
    BY <2>1, <2>2, <2>5, SumChanges
  <2>7. Counts(s)[b] \in Int
    BY <2>1, <2>5
  <2>8. SumFunction(Counts(t)) = Cardinality(t)
    BY <2>3, <2>4, <2>6, <2>7
  <2> QED BY <2>8 DEF t
<1>3. I \in T
  <2> HIDE DEF T
  <2> QED BY <1>1, <1>2, SetsByInduction
<1> QED BY <1>3

\* The steps of a function over an interval add up to the way it goes.
AreSteps(f, off, lo, hi) ==
  /\ lo \in Int /\ hi \in Int /\ lo <= hi
  /\ \A n \in lo .. hi : off[n] \in Int
  /\ f \in [lo + 1 .. hi -> Int]
  /\ \A n \in lo + 1 .. hi : f[n] = off[n] - off[n - 1]

\* Their sum telescopes.
LEMMA SumOfSteps ==
  ASSUME NEW lo, NEW hi, NEW off, NEW f, AreSteps(f, off, lo, hi)
  PROVE  SumFunction(f) = off[hi] - off[lo]
<1> SUFFICES ASSUME lo \in Int, hi \in Int, lo <= hi, \A n \in lo .. hi : off[n] \in Int,
                    NEW S, S = lo + 1 .. hi,
                    f \in [S -> Int], \A n \in S : f[n] = off[n] - off[n - 1]
             PROVE  SumFunction(f) = off[hi] - off[lo]
  BY DEF AreSteps
<1> DEFINE Part(n) == SumFunction(Restrict(f, lo + 1 .. n))
           T == {k \in Nat : lo + k <= hi => Part(lo + k) = off[lo + k] - off[lo]}
<1>0. IsFiniteSet(S)
  BY FS_Interval
<1>1. 0 \in T
  <2>1. lo + 1 .. lo + 0 = {}
    OBVIOUS
  <2>2. Part(lo + 0) = 0
    BY <2>1, SumOfNone DEF Restrict
  <2>3. lo + 0 = lo /\ off[lo] \in Int
    OBVIOUS
  <2> HIDE DEF Part
  <2> QED BY <2>2, <2>3
<1>2. \A k \in Nat : k \in T => k + 1 \in T
  <2> SUFFICES ASSUME NEW k \in Nat, k \in T, lo + (k + 1) <= hi
               PROVE  Part(lo + (k + 1)) = off[lo + (k + 1)] - off[lo]
    <3> HIDE DEF Part
    <3> QED OBVIOUS
  <2> DEFINE n == lo + k
  <2>1. n \in Int /\ lo + (k + 1) = n + 1 /\ n \in lo .. hi /\ n + 1 \in lo + 1 .. hi /\ n + 1 \in lo .. hi
    OBVIOUS
  <2>2. Part(n) = off[n] - off[lo]
    <3> HIDE DEF Part
    <3> QED BY <2>1
  <2> HIDE DEF n
  <2>3. /\ lo + 1 .. n + 1 \in SUBSET (lo + 1 .. hi) /\ n + 1 \in lo + 1 .. n + 1
        /\ (lo + 1 .. n + 1) \ {n + 1} = lo + 1 .. n
    <3>1. \A a, e, h \in Int : e \in a .. h /\ e + 1 \in a + 1 .. h =>
             a + 1 .. e + 1 \in SUBSET (a + 1 .. h) /\ e + 1 \in a + 1 .. e + 1
      OBVIOUS
    <3>2. \A a, e \in Int : (a + 1 .. e + 1) \ {e + 1} = a + 1 .. e
      OBVIOUS
    <3> QED BY <2>1, <3>1, <3>2
  <2>4. Part(n + 1) = f[n + 1] + Part(n) /\ Part(n) \in Int
    <3> DEFINE A == lo + 1 .. n + 1
               x == n + 1
    <3>1. A \in SUBSET S /\ x \in A
      BY <2>3
    <3>3. A \ {x} = lo + 1 .. n
      BY <2>3 DEF A, x
    <3> HIDE DEF A, x
    <3>4. SumFunction(Restrict(f, A)) = f[x] + SumFunction(Restrict(f, A \ {x}))
      <4>1. \A B \in SUBSET S : \A y \in B :
               SumFunction(Restrict(f, B)) = f[y] + SumFunction(Restrict(f, B \ {y}))
        <5> TAKE B \in SUBSET S
        <5> TAKE y \in B
        <5> QED BY ONLY <1>0, f \in [S -> Int], PartTakesOne
      <4> QED BY <3>1, <4>1, Zenon
    <3>5. SumFunction(Restrict(f, A \ {x})) \in Int
      BY <1>0, <3>1, PartTakesOne
    <3> QED BY <3>3, <3>4, <3>5, Zenon DEF A, x
  <2>5. f[n + 1] = off[n + 1] - off[n]
    <3>1. (n + 1) - 1 = n
      BY <2>1
    <3> QED BY <2>1, <3>1
  <2>6. off[n] \in Int /\ off[n + 1] \in Int /\ off[lo] \in Int
    BY <2>1
  <2> HIDE DEF Part
  <2>7. Part(n + 1) = off[n + 1] - off[lo]
    BY <2>2, <2>4, <2>5, <2>6
  <2> QED BY <2>1, <2>7, Zenon
<1>3. hi - lo \in T
  <2>1. hi - lo \in Nat
    OBVIOUS
  <2> HIDE DEF T
  <2> QED BY <1>1, <1>2, <2>1, NumbersByInduction
<1>4. Restrict(f, lo + 1 .. hi) = f /\ lo + (hi - lo) = hi
  BY DEF Restrict
<1> QED BY <1>3, <1>4

\* A sum of larger terms is larger.
LEMMA SumIsLarger ==
  ASSUME NEW S, IsFiniteSet(S), NEW f \in [S -> Nat], NEW g \in [S -> Nat],
         \A x \in S : f[x] <= g[x]
  PROVE  SumFunction(f) \in Nat /\ SumFunction(g) \in Nat /\ SumFunction(f) <= SumFunction(g)
<1> DEFINE d == [x \in S |-> g[x] - f[x]]
<1>1. f \in [S -> Int] /\ g \in [S -> Int] /\ d \in [S -> Nat] /\ d \in [S -> Int]
      /\ \A x \in S : g[x] = f[x] + d[x]
  OBVIOUS
<1> HIDE DEF d
<1>2. SumFunction(g) = SumFunction(f) + SumFunction(d)
  BY <1>1, SumAdds
<1>3. SumFunction(f) \in Nat /\ SumFunction(g) \in Nat /\ SumFunction(d) \in Nat
  BY <1>1, SumIsNat
<1> QED BY <1>2, <1>3

\* A sequence of naturals adds up to no less than its head.
LEMMA SumOfHead ==
  ASSUME NEW f \in [1 .. 1 -> Nat]
  PROVE  SumFunction(f) = f[1]
<1>1. IsFiniteSet(1 .. 1) /\ 1 \in 1 .. 1 /\ f \in [1 .. 1 -> Int]
  <2>1. \A i \in Int : IsFiniteSet(i .. i)
    BY FS_Interval
  <2> QED BY <2>1
<1>2. SumFunction(f) = f[1] + SumFunction(Restrict(f, (1 .. 1) \ {1}))
  BY <1>1, SumTakesOne
<1>3. DOMAIN Restrict(f, (1 .. 1) \ {1}) = {}
  BY DEF Restrict
<1>4. SumFunction(Restrict(f, (1 .. 1) \ {1})) = 0
  BY <1>3, SumOfNone
<1>5. f[1] \in Nat
  OBVIOUS
<1> QED BY <1>2, <1>4, <1>5

\* The terms of two sequences joined.
AreJoined(f, n, g, m, h) ==
  /\ n \in Nat /\ m \in Nat
  /\ f \in [1 .. n -> Int] /\ g \in [1 .. m -> Int] /\ h \in [1 .. n + m -> Int]
  /\ \A k \in 1 .. n + m : h[k] = IF k <= n THEN f[k] ELSE g[k - n]

\* Their sum is the sum of both, by induction over the second one.
LEMMA SumOfJoined ==
  ASSUME NEW f, NEW n, NEW g, NEW m, NEW h, AreJoined(f, n, g, m, h)
  PROVE  SumFunction(h) = SumFunction(f) + SumFunction(g)
<1>0. /\ n \in Nat /\ m \in Nat
      /\ f \in [1 .. n -> Int] /\ g \in [1 .. m -> Int] /\ h \in [1 .. n + m -> Int]
      /\ \A k \in 1 .. n + m : h[k] = IF k <= n THEN f[k] ELSE g[k - n]
  BY DEF AreJoined
<1> DEFINE H(i) == SumFunction([k \in 1 .. n + i |-> h[k]])
           G(i) == SumFunction([k \in 1 .. i |-> g[k]])
           T == {i \in Nat : i <= m => H(i) = SumFunction(f) + G(i)}
<1>a. SumFunction(f) \in Int
  BY <1>0, FS_Interval, SumIsInt
<1>1. 0 \in T
  <2>1. [k \in 1 .. n + 0 |-> h[k]] = f
    <3>1. n + 0 = n /\ \A k \in 1 .. n : h[k] = f[k]
      BY <1>0
    <3> QED BY <1>0, <3>1
  <2>2. DOMAIN [k \in 1 .. 0 |-> g[k]] = {}
    OBVIOUS
  <2>3. G(0) = 0
    BY <2>2, SumOfNone
  <2>4. H(0) = SumFunction(f)
    BY <2>1, Zenon
  <2> HIDE DEF H, G
  <2> QED BY <1>a, <2>3, <2>4
<1>2. \A i \in Nat : i \in T => i + 1 \in T
  <2> SUFFICES ASSUME NEW i \in Nat, i \in T, i + 1 <= m
               PROVE  H(i + 1) = SumFunction(f) + G(i + 1)
    OBVIOUS
  <2>1. H(i) = SumFunction(f) + G(i)
    BY <1>0
  <2>2. /\ IsFiniteSet(1 .. n + (i + 1)) /\ IsFiniteSet(1 .. i + 1) /\ IsFiniteSet(1 .. i)
        /\ n + (i + 1) \in 1 .. n + (i + 1) /\ i + 1 \in 1 .. i + 1
    BY <1>0, FS_Interval
  <2>3. H(i + 1) = h[n + (i + 1)] + H(i)
    <3> DEFINE a == [k \in 1 .. n + (i + 1) |-> h[k]]
               A == 1 .. n + (i + 1)
               x == n + (i + 1)
    <3>1. a \in [A -> Int] /\ a[x] = h[x] /\ x \in A
      BY <1>0, <2>2
    <3>2. Restrict(a, A \ {x}) = [k \in 1 .. n + i |-> h[k]]
      <4>1. A \ {x} = 1 .. n + i
        BY <1>0
      <4>2. \A k \in 1 .. n + i : a[k] = h[k]
        BY <1>0
      <4> QED BY <4>1, <4>2 DEF Restrict
    <3>3. SumFunction(a) = a[x] + SumFunction(Restrict(a, A \ {x}))
      <4> HIDE DEF a, x
      <4> QED BY <2>2, <3>1, SumTakesOne
    <3> QED BY <3>1, <3>2, <3>3, Zenon
  <2>4. G(i + 1) = g[i + 1] + G(i)
    <3> DEFINE a == [k \in 1 .. i + 1 |-> g[k]]
               A == 1 .. i + 1
               x == i + 1
    <3>1. a \in [A -> Int] /\ a[x] = g[x] /\ x \in A
      BY <1>0, <2>2
    <3>2. Restrict(a, A \ {x}) = [k \in 1 .. i |-> g[k]]
      <4>1. A \ {x} = 1 .. i
        OBVIOUS
      <4>2. \A k \in 1 .. i : a[k] = g[k]
        OBVIOUS
      <4> QED BY <4>1, <4>2 DEF Restrict
    <3>3. SumFunction(a) = a[x] + SumFunction(Restrict(a, A \ {x}))
      <4> HIDE DEF a, x
      <4> QED BY <2>2, <3>1, SumTakesOne
    <3> QED BY <3>1, <3>2, <3>3, Zenon
  <2>5. h[n + (i + 1)] = g[i + 1] /\ g[i + 1] \in Int
    <3>1. n + (i + 1) \in 1 .. n + m /\ ~ (n + (i + 1) <= n) /\ (n + (i + 1)) - n = i + 1
          /\ i + 1 \in 1 .. m
      BY <1>0
    <3> QED BY <1>0, <3>1
  <2>6. G(i) \in Int
    <3> DEFINE a == [k \in 1 .. i |-> g[k]]
    <3>1. a \in [1 .. i -> Int]
      BY <1>0
    <3> HIDE DEF a
    <3>2. SumFunction(a) \in Int
      BY <2>2, <3>1, SumIsInt
    <3> QED BY <3>2 DEF a
  <2> HIDE DEF H, G, T
  <2> QED BY <1>a, <2>1, <2>3, <2>4, <2>5, <2>6
<1>3. m \in T
  <2>1. Nat \subseteq T
    <3> HIDE DEF T
    <3> QED BY <1>1, <1>2, NumbersByInduction
  <2> QED BY <1>0, <2>1
<1>4. H(m) = SumFunction(h) /\ G(m) = SumFunction(g)
  <2>1. [k \in 1 .. n + m |-> h[k]] = h /\ [k \in 1 .. m |-> g[k]] = g
    BY <1>0
  <2> QED BY <2>1, Zenon
<1>5. H(m) = SumFunction(f) + G(m)
  BY <1>0, <1>3
<1> HIDE DEF H, G
<1> QED BY <1>4, <1>5

-----------------------------------------------------------------------------
(* Sequences, element by element *)

\* Induction along an interval.
LEMMA AlongInterval ==
  ASSUME NEW n \in Nat, NEW T, 0 \in T, \A i \in 1 .. n : i - 1 \in T => i \in T
  PROVE  0 .. n \subseteq T
<1> DEFINE U == {k \in Nat : k <= n => k \in T}
<1>1. 0 \in U
  OBVIOUS
<1>2. \A k \in Nat : k \in U => k + 1 \in U
  <2> SUFFICES ASSUME NEW k \in Nat, k \in U, k + 1 <= n
               PROVE  k + 1 \in T
    OBVIOUS
  <2>1. k + 1 \in 1 .. n /\ (k + 1) - 1 = k /\ k \in T
    OBVIOUS
  <2> QED BY <2>1
<1>3. Nat \subseteq U
  <2> HIDE DEF U
  <2> QED BY <1>1, <1>2, NumbersByInduction
<1> QED BY <1>3

\* How a fold from the left picks the positions of a sequence.
LEMMA LastIsPicked ==
  ASSUME NEW n \in Nat
  PROVE  /\ \A s \in SUBSET (1 .. n) : s # {} => Max(s) \in s
         /\ \A i \in 1 .. n : Max(1 .. i) = i /\ (1 .. i) \ {i} = 1 .. (i - 1)
<1>1. \A s \in SUBSET (1 .. n) : s # {} => Max(s) \in s
  <2> SUFFICES ASSUME NEW s \in SUBSET (1 .. n), s # {}
               PROVE  Max(s) \in s
    OBVIOUS
  <2>1. s \subseteq 0 .. n
    OBVIOUS
  <2> QED BY <2>1, MaxIsMember
<1>2. \A i \in 1 .. n : Max(1 .. i) = i /\ (1 .. i) \ {i} = 1 .. (i - 1)
  <2> TAKE i \in 1 .. n
  <2>1. i \in Nat /\ 1 .. i \subseteq 0 .. i /\ 1 .. i # {} /\ i \in 1 .. i
    OBVIOUS
  <2>2. Max(1 .. i) \in 1 .. i /\ Max(1 .. i) >= i
    BY <2>1, MaxIsMember
  <2> QED BY <2>1, <2>2
<1> QED BY <1>1, <1>2

\* What a sequence of sequences gives when it is flattened: where each of its
\* elements comes to be.
FlattenEquation(g, s) == g = [i \in 1 .. Len(s) |-> IF i = 1 THEN s[i] ELSE g[i - 1] \o s[i]]

\* The operator of the community modules, as the function that it defines.
LEMMA FlattenUnfolds ==
  ASSUME NEW s
  PROVE  FlattenSeq(s) = IF Len(s) = 0 THEN s ELSE (CHOOSE g : FlattenEquation(g, s))[Len(s)]
BY Zenon DEF FlattenSeq, FlattenEquation

\* It concatenates one sequence after the other.
LEMMA FlattenHasSteps ==
  ASSUME NEW V, NEW s \in Seq(Seq(V)), s # <<>>
  PROVE  \E g \in [1 .. Len(s) -> Seq(V)] :
            /\ FlattenSeq(s) = g[Len(s)]
            /\ g[1] = s[1]
            /\ \A i \in 2 .. Len(s) : g[i] = g[i - 1] \o s[i]
<1> DEFINE n == Len(s)
           Good(g, m) == g \in [1 .. m -> Seq(V)]
                         /\ \A i \in 1 .. m : g[i] = IF i = 1 THEN s[1] ELSE g[i - 1] \o s[i]
           T == {m \in 0 .. n : \E g : Good(g, m)}
<1>0. n \in Nat \ {0} /\ \A i \in 1 .. n : s[i] \in Seq(V)
  BY LenProperties, EmptySeq, ElementOfSeq
<1>1. 0 \in T
  <2>1. Good([i \in 1 .. 0 |-> <<>>], 0)
    OBVIOUS
  <2> HIDE DEF Good
  <2> QED BY <1>0, <2>1
<1>2. \A m \in 1 .. n : m - 1 \in T => m \in T
  <2> SUFFICES ASSUME NEW m \in 1 .. n, m - 1 \in T
               PROVE  \E h : Good(h, m)
    <3>1. \A m \in 1 .. n : m \in 0 .. n
      BY <1>0
    <3> HIDE DEF Good, n
    <3> QED BY <3>1
  <2>1. PICK g : Good(g, m - 1)
    <3> HIDE DEF Good
    <3> QED OBVIOUS
  <2> DEFINE h == [i \in 1 .. m |-> IF i < m THEN g[i] ELSE IF m = 1 THEN s[1] ELSE g[m - 1] \o s[m]]
  <2>2. h \in [1 .. m -> Seq(V)]
    <3>1. \A i \in 1 .. m : i < m => g[i] \in Seq(V)
      BY <1>0, <2>1
    <3>2. m # 1 => g[m - 1] \o s[m] \in Seq(V)
      <4> HAVE m # 1
      <4>1. g[m - 1] \in Seq(V) /\ s[m] \in Seq(V)
        BY <1>0, <2>1
      <4> QED BY <4>1, ConcatProperties
    <3>3. s[1] \in Seq(V)
      BY <1>0
    <3> QED BY <1>0, <3>1, <3>2, <3>3
  <2>3. \A i \in 1 .. m : h[i] = IF i = 1 THEN s[1] ELSE h[i - 1] \o s[i]
    <3> TAKE i \in 1 .. m
    <3>0. n \in Nat /\ m \in 1 .. n
      BY <1>0
    <3>1. CASE i < m
      <4>1. i \in 1 .. m - 1 /\ h[i] = g[i]
        BY <3>0, <3>1
      <4>2. g[i] = IF i = 1 THEN s[1] ELSE g[i - 1] \o s[i]
        BY <2>1, <4>1
      <4>3. i # 1 => h[i - 1] = g[i - 1]
        BY <3>0, <3>1
      <4> QED BY <4>1, <4>2, <4>3
    <3>2. CASE i = m
      <4>1. i # 1 => h[i - 1] = g[i - 1]
        BY <3>0, <3>2
      <4>2. h[i] = IF m = 1 THEN s[1] ELSE g[m - 1] \o s[m]
        BY <3>0, <3>2
      <4> QED BY <3>2, <4>1, <4>2
    <3> QED BY <3>0, <3>1, <3>2
  <2>4. Good(h, m)
    BY <2>2, <2>3
  <2> HIDE DEF Good, h
  <2> QED BY <2>4
<1>3. n \in T
  <2>1. n \in Nat /\ n \in 0 .. n
    BY <1>0
  <2> HIDE DEF T, n
  <2> QED BY <1>1, <1>2, <2>1, AlongInterval
<1>4. PICK g : Good(g, n)
  BY <1>3
<1>5. FlattenEquation(g, s)
  BY <1>0, <1>4 DEF FlattenEquation
<1> DEFINE G == CHOOSE h : FlattenEquation(h, s)
<1>6. FlattenEquation(G, s)
  BY <1>5, Zenon
<1>7. FlattenSeq(s) = G[n]
  BY <1>0, FlattenUnfolds
<1> HIDE DEF G
<1>8. G = [i \in 1 .. n |-> IF i = 1 THEN s[i] ELSE G[i - 1] \o s[i]]
  BY <1>6 DEF FlattenEquation
<1>9. \A i \in 1 .. n : G[i] = IF i = 1 THEN s[i] ELSE G[i - 1] \o s[i]
  BY <1>8
<1>10. \A i \in 1 .. n : G[i] = g[i]
  <2> DEFINE U == {i \in 0 .. n : i > 0 => G[i] = g[i]}
  <2>1. 0 \in U
    BY <1>0
  <2>2. \A i \in 1 .. n : i - 1 \in U => i \in U
    <3> TAKE i \in 1 .. n
    <3> HAVE i - 1 \in U
    <3>1. CASE i = 1
      <4>1. G[i] = s[1] /\ g[i] = s[1]
        BY <1>0, <1>4, <1>9, <3>1
      <4> QED BY <1>0, <4>1
    <3>2. CASE i # 1
      <4>1. i \in Nat /\ i - 1 > 0 /\ i \in 0 .. n
        BY <1>0, <3>2
      <4>2. G[i - 1] = g[i - 1]
        BY <4>1
      <4>3. G[i] = G[i - 1] \o s[i] /\ g[i] = g[i - 1] \o s[i]
        BY <1>4, <1>9, <3>2
      <4>4. G[i] = g[i]
        BY <4>2, <4>3
      <4> QED BY <4>1, <4>4
    <3> QED BY <3>1, <3>2
  <2>3. 0 .. n \subseteq U
    <3> HIDE DEF U, n
    <3> QED BY <1>0, <2>1, <2>2, AlongInterval
  <2>4. \A i \in 1 .. n : i \in 0 .. n /\ i > 0
    BY <1>0
  <2> QED BY <2>3, <2>4
<1>11. 1 \in 1 .. n /\ n \in 1 .. n /\ \A i \in 2 .. n : i \in 1 .. n /\ i # 1
  BY <1>0
<1>12. g[1] = s[1] /\ \A i \in 2 .. n : g[i] = g[i - 1] \o s[i]
  BY <1>4, <1>11
<1>13. FlattenSeq(s) = g[n] /\ g \in [1 .. n -> Seq(V)]
  BY <1>4, <1>7, <1>10, <1>11
<1> QED BY <1>12, <1>13

\* The place p of z is one in the sequences of s, of which each begins after an offset.
IsPlace(p, z, s, o) ==
  \E i \in 1 .. Len(s) : \E k \in 1 .. Len(s[i]) : p = o[i - 1] + k /\ z[p] = s[i][k]

\* Every place of the whole is a place of one of its parts.
LEMMA FlattenPositions ==
  ASSUME NEW V, NEW s \in Seq(Seq(V)), NEW o, o[0] = 0,
         \A i \in 1 .. Len(s) : o[i] = o[i - 1] + Len(s[i])
  PROVE  /\ FlattenSeq(s) \in Seq(V)
         /\ Len(FlattenSeq(s)) = o[Len(s)]
         /\ \A p \in 1 .. Len(FlattenSeq(s)) : IsPlace(p, FlattenSeq(s), s, o)
<1>1. CASE s = <<>>
  <2>1. FlattenSeq(s) = s /\ Len(s) = 0
    BY <1>1, EmptySeq, FlattenUnfolds
  <2>2. s \in Seq(V)
    BY <1>1, EmptySeq
  <2> QED BY <2>1, <2>2
<1>2. CASE s # <<>>
  <2> DEFINE n == Len(s)
  <2>0. n \in Nat \ {0} /\ \A i \in 1 .. n : s[i] \in Seq(V) /\ Len(s[i]) \in Nat
    BY <1>2, LenProperties, EmptySeq, ElementOfSeq
  <2>1. PICK g \in [1 .. n -> Seq(V)] : /\ FlattenSeq(s) = g[n]
                                        /\ g[1] = s[1]
                                        /\ \A i \in 2 .. n : g[i] = g[i - 1] \o s[i]
    BY <1>2, FlattenHasSteps
  <2> DEFINE At(i, p, j, k) == p = o[j - 1] + k /\ g[i][p] = s[j][k]
             Placed(i) == /\ Len(g[i]) = o[i] /\ o[i] \in Nat
                          /\ \A p \in 1 .. Len(g[i]) : \E j \in 1 .. i : \E k \in 1 .. Len(s[j]) : At(i, p, j, k)
             T == {i \in 0 .. n : i > 0 => Placed(i)}
  <2>2. 0 \in T
    BY <2>0
  <2>3. Placed(1)
    <3>1. g[1] = s[1] /\ o[1] = Len(s[1]) /\ 1 \in 1 .. n /\ o[1] \in Nat
      BY <2>0, <2>1
    <3>2. \A p \in 1 .. Len(s[1]) : At(1, p, 1, p)
      <4> TAKE p \in 1 .. Len(s[1])
      <4>1. p = o[1 - 1] + p
        BY <2>0, <3>1
      <4> QED BY <3>1, <4>1
    <3>3. 1 \in 1 .. 1
      OBVIOUS
    <3> HIDE DEF At
    <3> QED BY <3>1, <3>2, <3>3
  <2>4. ASSUME NEW i \in 2 .. n, Placed(i - 1)
        PROVE  Placed(i)
    <3> DEFINE a == g[i - 1]
               b == s[i]
    <3>1. a \in Seq(V) /\ b \in Seq(V) /\ g[i] = a \o b /\ i \in 1 .. n /\ i - 1 \in Nat \ {0}
      <4>1. i \in 1 .. n /\ i - 1 \in 1 .. n /\ i - 1 \in Nat \ {0}
        BY <2>0
      <4> HIDE DEF n
      <4> QED BY <2>0, <2>1, <4>1
    <3>2. Len(a) = o[i - 1] /\ o[i] = o[i - 1] + Len(b) /\ Len(a) \in Nat /\ Len(b) \in Nat
      BY <2>0, <2>4, <3>1
    <3> HIDE DEF a, b
    <3>3. /\ Len(g[i]) = Len(a) + Len(b)
          /\ \A p \in 1 .. Len(a) + Len(b) : g[i][p] = IF p <= Len(a) THEN a[p] ELSE b[p - Len(a)]
      BY <3>1, ConcatProperties
    <3>4. ASSUME NEW p \in 1 .. Len(a)
          PROVE  \E j \in 1 .. i : \E k \in 1 .. Len(s[j]) : At(i, p, j, k)
      <4>1. PICK j \in 1 .. i - 1 : \E k \in 1 .. Len(s[j]) : At(i - 1, p, j, k)
        BY <2>4 DEF a
      <4>2. PICK k \in 1 .. Len(s[j]) : At(i - 1, p, j, k)
        BY <4>1
      <4>3. g[i][p] = a[p]
        <5>1. p \in 1 .. Len(a) + Len(b) /\ p <= Len(a)
          BY <3>2
        <5> QED BY <3>3, <5>1
      <4>4. At(i, p, j, k)
        BY <4>2, <4>3 DEF a
      <4>5. j \in 1 .. i
        BY <3>1
      <4> HIDE DEF At
      <4> QED BY <4>4, <4>5
    <3>5. ASSUME NEW p \in Len(a) + 1 .. Len(a) + Len(b)
          PROVE  \E j \in 1 .. i : \E k \in 1 .. Len(s[j]) : At(i, p, j, k)
      <4>0. /\ p \in 1 .. Len(a) + Len(b) /\ ~ (p <= Len(a))
            /\ p - Len(a) \in 1 .. Len(b) /\ p = Len(a) + (p - Len(a))
        <5>1. \A u, w \in Nat : \A q \in u + 1 .. u + w :
                 q \in 1 .. u + w /\ ~ (q <= u) /\ q - u \in 1 .. w /\ q = u + (q - u)
          OBVIOUS
        <5> QED BY <3>2, <5>1
      <4>1. g[i][p] = b[p - Len(a)] /\ p - Len(a) \in 1 .. Len(b) /\ p = Len(a) + (p - Len(a))
        BY <3>3, <4>0
      <4>2. At(i, p, i, p - Len(a))
        BY <3>2, <4>1 DEF b
      <4>3. i \in 1 .. i /\ p - Len(a) \in 1 .. Len(s[i])
        BY <3>1, <4>1 DEF b
      <4> HIDE DEF At
      <4> QED BY <4>2, <4>3
    <3>6. \A p \in 1 .. Len(g[i]) : p \in 1 .. Len(a) \/ p \in Len(a) + 1 .. Len(a) + Len(b)
      BY <3>2, <3>3
    <3>7. Len(g[i]) = o[i] /\ o[i] \in Nat
      BY <3>2, <3>3
    <3> HIDE DEF At
    <3> QED BY <3>4, <3>5, <3>6, <3>7
  <2>5. \A i \in 1 .. n : i - 1 \in T => i \in T
    <3> TAKE i \in 1 .. n
    <3> HAVE i - 1 \in T
    <3>1. i \in 0 .. n /\ (i # 1 => i \in 2 .. n /\ i - 1 > 0)
      BY <2>0
    <3> HIDE DEF Placed, n
    <3> QED BY <2>3, <2>4, <3>1
  <2>6. n \in T
    <3>1. n \in Nat /\ n \in 0 .. n
      BY <2>0
    <3> HIDE DEF T, n
    <3> QED BY <2>2, <2>5, <3>1, AlongInterval
  <2>7. Placed(n)
    <3> HIDE DEF Placed, n
    <3> QED BY <2>0, <2>6
  <2>8. g[n] \in Seq(V)
    <3>1. n \in 1 .. n
      BY <2>0
    <3> HIDE DEF n
    <3> QED BY <2>1, <3>1
  <2>9. Len(g[n]) = o[n] /\ \A p \in 1 .. Len(g[n]) : IsPlace(p, g[n], s, o)
    BY <2>7 DEF IsPlace
  <2> HIDE DEF Placed
  <2> QED BY <2>1, <2>8, <2>9
<1> QED BY <1>1, <1>2

\* A fold from the left goes through the positions of a sequence one by one.
IsFold(G, n, V, base, step) ==
  /\ G[{}] = base
  /\ \A d \in SUBSET (1 .. n) : d # {} /\ G[d \ {Max(d)}] \in V =>
        G[d] = step[<<G[d \ {Max(d)}], Max(d)>>]

IsTrace(t, G, n, V, base, step) ==
  /\ t \in [0 .. n -> V]
  /\ t[0] = base
  /\ \A i \in 1 .. n : t[i] = step[<<t[i - 1], i>>]
  /\ t[n] = G[1 .. n]

\* Every fold has such a trace.
LEMMA FoldHasTrace ==
  ASSUME NEW n \in Nat, NEW V, NEW base \in V, NEW step \in [V \X (1 .. n) -> V], NEW G,
         IsFold(G, n, V, base, step)
  PROVE  \E t : IsTrace(t, G, n, V, base, step)
<1> DEFINE t == [i \in 0 .. n |-> G[1 .. i]]
           T == {i \in 0 .. n : t[i] \in V /\ (i > 0 => t[i] = step[<<t[i - 1], i>>])}
<1>1. 0 \in T
  <2>1. 1 .. 0 = {} /\ 0 \in 0 .. n
    OBVIOUS
  <2>2. t[0] = base
    BY <2>1 DEF IsFold
  <2> HIDE DEF t
  <2> QED BY <2>1, <2>2
<1>2. \A i \in 1 .. n : i - 1 \in T => i \in T
  <2> TAKE i \in 1 .. n
  <2> HAVE i - 1 \in T
  <2> DEFINE d == 1 .. i
  <2>1. Max(d) = i /\ d \ {i} = 1 .. (i - 1) /\ i \in 0 .. n /\ i - 1 \in 0 .. n
    <3>1. Max(d) = i /\ d \ {i} = 1 .. (i - 1)
      BY ONLY n \in Nat, i \in 1 .. n, LastIsPicked
    <3> QED BY <3>1
  <2>2. d \in SUBSET (1 .. n) /\ d # {}
    <3>1. i \in d
      OBVIOUS
    <3>2. d \subseteq 1 .. n
      OBVIOUS
    <3> QED BY <3>1, <3>2, Zenon
  <2>3. t[i] = G[d] /\ t[i - 1] = G[d \ {Max(d)}] /\ t[i - 1] \in V
    BY <2>1
  <2> HIDE DEF t, d
  <2>4. t[i] = step[<<t[i - 1], i>>]
    BY <2>1, <2>2, <2>3 DEF IsFold
  <2>5. <<t[i - 1], i>> \in V \X (1 .. n)
    BY <2>3
  <2>6. t[i] \in V
    BY <2>4, <2>5
  <2> QED BY <2>1, <2>4, <2>6
<1>3. 0 .. n \subseteq T
  <2> HIDE DEF T
  <2> QED BY <1>1, <1>2, AlongInterval
<1>4. t \in [0 .. n -> V] /\ \A i \in 1 .. n : t[i] = step[<<t[i - 1], i>>]
  <2>1. \A i \in 1 .. n : i \in 0 .. n /\ i > 0
    OBVIOUS
  <2>2. t = [i \in 0 .. n |-> t[i]]
    OBVIOUS
  <2> HIDE DEF t
  <2> QED BY <1>3, <2>1, <2>2
<1>5. t[0] = base /\ t[n] = G[1 .. n]
  <2>1. 1 .. 0 = {} /\ 0 \in 0 .. n /\ n \in 0 .. n
    OBVIOUS
  <2> QED BY <2>1 DEF IsFold
<1> HIDE DEF t
<1>6. IsTrace(t, G, n, V, base, step)
  BY <1>4, <1>5 DEF IsTrace
<1> QED BY <1>6

-----------------------------------------------------------------------------
(* A fold as a relation between its base and its outcome *)

Folds(s, V, step, base, v) ==
  \E t : /\ t \in [0 .. Len(s) -> V] /\ t[0] = base /\ t[Len(s)] = v
         /\ \A i \in 1 .. Len(s) : t[i] = step[<<t[i - 1], s[i]>>]

FoldEquation(g, n, s, base, step) ==
  g = [d \in SUBSET (1 .. n) |->
         IF d = {} THEN base ELSE step[<<g[d \ {Max(d)}], s[Max(d)]>>]]

\* The function that the fold of the community modules picks exists.
LEMMA FoldExists ==
  ASSUME NEW R, NEW s \in Seq(R), NEW V, NEW base \in V, NEW step \in [V \X R -> V]
  PROVE  \E g : g \in [SUBSET (1 .. Len(s)) -> V] /\ FoldEquation(g, Len(s), s, base, step)
<1> DEFINE n == Len(s)
           at == [p \in V \X (1 .. n) |-> step[<<p[1], s[p[2]]>>]]
           choose == [d \in SUBSET (1 .. n) |-> Max(d)]
<1>0. n \in Nat /\ IsFiniteSet(1 .. n) /\ \A i \in 1 .. n : s[i] \in R
  <2>1. n \in Nat /\ \A i \in 1 .. n : s[i] \in R
    BY LenProperties, ElementOfSeq
  <2> QED BY <2>1, FS_Interval
<1>1. \A d \in SUBSET (1 .. n) : d # {} => choose[d] = Max(d) /\ Max(d) \in d
  BY <1>0, LastIsPicked
<1>2. at \in [V \X (1 .. n) -> V]
  BY <1>0
<1>3. \A v \in V : \A i \in 1 .. n : at[<<v, i>>] = step[<<v, s[i]>>]
  OBVIOUS
<1> HIDE DEF n, at, choose
<1>4. PICK H : IsIterator(H, 1 .. n, V, base, choose, at)
  <2>1. \A d \in SUBSET (1 .. n) : d # {} => choose[d] \in d
    BY <1>1
  <2> QED BY ONLY base \in V, <1>0, <1>2, <2>1, IteratorExists
<1>5. H \in [SUBSET (1 .. n) -> V]
  BY <1>4 DEF IsIterator
<1>6. \A d \in SUBSET (1 .. n) : d # {} =>
         at[<<H[d \ {choose[d]}], choose[d]>>] = step[<<H[d \ {Max(d)}], s[Max(d)]>>]
  <2> TAKE d \in SUBSET (1 .. n)
  <2> HAVE d # {}
  <2>1. choose[d] = Max(d) /\ Max(d) \in 1 .. n /\ H[d \ {Max(d)}] \in V
    BY <1>1, <1>5
  <2> QED BY <1>3, <2>1
<1>7. H = [d \in SUBSET (1 .. n) |-> IF d = {} THEN base ELSE at[<<H[d \ {choose[d]}], choose[d]>>]]
  BY <1>4 DEF IsIterator
<1>8. H = [d \in SUBSET (1 .. n) |->
             IF d = {} THEN base ELSE step[<<H[d \ {Max(d)}], s[Max(d)]>>]]
  BY <1>6, <1>7, Zenon
<1>9. FoldEquation(H, n, s, base, step)
  BY <1>8, Zenon DEF FoldEquation
<1> QED BY <1>5, <1>9 DEF n

\* A function that folds step after step gives the outcome of the fold.
LEMMA FoldFollows ==
  ASSUME NEW R, NEW s \in Seq(R), NEW V, NEW base \in V, NEW step \in [V \X R -> V], NEW G,
         G[{}] = base,
         \A d \in SUBSET (1 .. Len(s)) : d # {} /\ G[d \ {Max(d)}] \in V =>
            G[d] = step[<<G[d \ {Max(d)}], s[Max(d)]>>]
  PROVE  Folds(s, V, step, base, G[1 .. Len(s)])
<1> DEFINE n == Len(s)
           at == [p \in V \X (1 .. n) |-> step[<<p[1], s[p[2]]>>]]
<1>0. n \in Nat /\ \A i \in 1 .. n : s[i] \in R
  BY LenProperties, ElementOfSeq
<1>1. at \in [V \X (1 .. n) -> V]
  BY <1>0
<1>2. \A v \in V : \A i \in 1 .. n : at[<<v, i>>] = step[<<v, s[i]>>]
  OBVIOUS
<1> HIDE DEF at, n
<1>3. IsFold(G, n, V, base, at)
  <2> SUFFICES ASSUME NEW d \in SUBSET (1 .. n), d # {}, G[d \ {Max(d)}] \in V
               PROVE  G[d] = at[<<G[d \ {Max(d)}], Max(d)>>]
    BY DEF IsFold
  <2>1. Max(d) \in 1 .. n
    BY <1>0, LastIsPicked
  <2> QED BY <1>2, <2>1 DEF n
<1>4. PICK t : IsTrace(t, G, n, V, base, at)
  BY ONLY base \in V, <1>0, <1>1, <1>3, FoldHasTrace
<1>5. t \in [0 .. n -> V] /\ t[0] = base /\ t[n] = G[1 .. n]
  BY <1>4 DEF IsTrace
<1>6. \A i \in 1 .. n : t[i] = step[<<t[i - 1], s[i]>>]
  <2> TAKE i \in 1 .. n
  <2>1. t[i] = at[<<t[i - 1], i>>] /\ i - 1 \in 0 .. n
    BY <1>0, <1>4 DEF IsTrace
  <2> QED BY <1>2, <1>5, <2>1
<1> QED BY <1>5, <1>6 DEF Folds, n

\* The base and the outcome are values of the fold.
LEMMA FoldsTyped ==
  ASSUME NEW R, NEW s \in Seq(R), NEW V, NEW base, NEW step, NEW v, Folds(s, V, step, base, v)
  PROVE  base \in V /\ v \in V
<1>1. Len(s) \in Nat
  BY LenProperties
<1> QED BY <1>1 DEF Folds

\* It has one outcome.
LEMMA FoldsOnce ==
  ASSUME NEW R, NEW s \in Seq(R), NEW V, NEW base, NEW step, NEW v, NEW w,
         Folds(s, V, step, base, v), Folds(s, V, step, base, w)
  PROVE  v = w
<1> DEFINE n == Len(s)
           IsOne(t, e) == /\ t[0] = base /\ t[n] = e
                          /\ \A i \in 1 .. n : t[i] = step[<<t[i - 1], s[i]>>]
<1>0. n \in Nat
  BY LenProperties
<1>1. PICK t : IsOne(t, v)
  BY DEF Folds
<1>2. PICK u : IsOne(u, w)
  BY DEF Folds
<1> DEFINE T == {i \in 0 .. n : t[i] = u[i]}
<1>3. 0 \in T
  BY <1>0, <1>1, <1>2
<1>4. \A i \in 1 .. n : i - 1 \in T => i \in T
  <2> TAKE i \in 1 .. n
  <2> HAVE i - 1 \in T
  <2>1. t[i] = step[<<t[i - 1], s[i]>>] /\ u[i] = step[<<u[i - 1], s[i]>>] /\ i \in 0 .. n
    BY <1>0, <1>1, <1>2
  <2>2. t[i - 1] = u[i - 1]
    OBVIOUS
  <2> QED BY <2>1, <2>2
<1>5. n \in T
  <2>1. n \in 0 .. n
    BY <1>0
  <2> HIDE DEF T, n
  <2> QED BY <1>0, <1>3, <1>4, <2>1, AlongInterval
<1> QED BY <1>1, <1>2, <1>5

\* A fold over nothing is its base.
LEMMA FoldsNothing ==
  ASSUME NEW V, NEW base \in V, NEW step
  PROVE  Folds(<<>>, V, step, base, base)
<1> DEFINE t == [i \in 0 .. 0 |-> base]
<1>1. t \in [0 .. 0 -> V] /\ t[0] = base
  OBVIOUS
<1>2. Len(<<>>) = 0
  BY EmptySeq
<1> HIDE DEF t
<1> QED BY <1>1, <1>2 DEF Folds

\* One element more makes one step more.
LEMMA FoldsPush ==
  ASSUME NEW R, NEW s \in Seq(R), NEW r \in R, NEW V, NEW base, NEW step \in [V \X R -> V], NEW v,
         Folds(s, V, step, base, v)
  PROVE  Folds(Append(s, r), V, step, base, step[<<v, r>>])
<1> DEFINE n == Len(s)
           a == Append(s, r)
<1>0. n \in Nat /\ Len(a) = n + 1 /\ a[n + 1] = r /\ \A i \in 1 .. n : a[i] = s[i]
  BY LenProperties, AppendProperties
<1>1. PICK t : /\ t \in [0 .. n -> V] /\ t[0] = base /\ t[n] = v
               /\ \A i \in 1 .. n : t[i] = step[<<t[i - 1], s[i]>>]
  BY DEF Folds
<1> HIDE DEF n, a
<1> DEFINE w == step[<<v, r>>]
           u == [i \in 0 .. n + 1 |-> IF i = n + 1 THEN w ELSE t[i]]
<1>2. v \in V /\ w \in V
  BY <1>0, <1>1
<1>3. u \in [0 .. n + 1 -> V] /\ u[0] = base /\ u[n + 1] = w
  BY <1>0, <1>1, <1>2
<1>4. \A i \in 1 .. n + 1 : u[i] = step[<<u[i - 1], a[i]>>]
  <2> TAKE i \in 1 .. n + 1
  <2>1. CASE i = n + 1
    <3>1. i - 1 = n /\ n \in 0 .. n + 1 /\ n # n + 1 /\ i \in 0 .. n + 1
      BY <1>0, <2>1
    <3>2. u[i] = w /\ u[i - 1] = v /\ a[i] = r
      BY <1>0, <1>1, <2>1, <3>1
    <3> QED BY <3>2
  <2>2. CASE i # n + 1
    <3>1. i \in 1 .. n /\ i - 1 \in 0 .. n
      BY <1>0, <2>2
    <3>2. u[i] = t[i] /\ u[i - 1] = t[i - 1] /\ a[i] = s[i]
      BY <1>0, <3>1
    <3> QED BY <1>1, <3>1, <3>2
  <2> QED BY <2>1, <2>2
<1> HIDE DEF u
<1> QED BY <1>0, <1>3, <1>4 DEF Folds, a

\* The first element makes the first step.
LEMMA FoldsPop ==
  ASSUME NEW R, NEW s \in Seq(R), s # <<>>, NEW V, NEW base \in V, NEW step \in [V \X R -> V], NEW v,
         Folds(Tail(s), V, step, step[<<base, Head(s)>>], v)
  PROVE  Folds(s, V, step, base, v)
<1> DEFINE n == Len(s)
           a == Tail(s)
<1>0. /\ n \in Nat \ {0} /\ Len(a) = n - 1 /\ Head(s) = s[1] /\ \A i \in 1 .. n - 1 : a[i] = s[i + 1]
  <2>1. n \in Nat \ {0}
    BY EmptySeq
  <2> QED BY <2>1, HeadTailProperties
<1>1. PICK t : /\ t \in [0 .. n - 1 -> V] /\ t[0] = step[<<base, s[1]>>] /\ t[n - 1] = v
               /\ \A i \in 1 .. n - 1 : t[i] = step[<<t[i - 1], a[i]>>]
  BY <1>0 DEF Folds
<1> HIDE DEF n, a
<1> DEFINE u == [i \in 0 .. n |-> IF i = 0 THEN base ELSE t[i - 1]]
<1>2. u \in [0 .. n -> V] /\ u[0] = base /\ u[n] = v
  BY <1>0, <1>1
<1>3. \A i \in 1 .. n : u[i] = step[<<u[i - 1], s[i]>>]
  <2> TAKE i \in 1 .. n
  <2>1. CASE i = 1
    BY <1>0, <1>1, <2>1
  <2>2. CASE i # 1
    <3>1. i - 1 \in 1 .. n - 1 /\ (i - 1) + 1 = i /\ i - 1 \in 0 .. n /\ i - 1 # 0
      BY <1>0, <2>2
    <3>2. t[i - 1] = step[<<t[(i - 1) - 1], a[i - 1]>>]
      BY <1>1, <3>1
    <3>3. a[i - 1] = s[i] /\ u[i] = t[i - 1] /\ u[i - 1] = t[(i - 1) - 1]
      BY <1>0, <3>1
    <3> QED BY <3>2, <3>3
  <2> QED BY <2>1, <2>2
<1> HIDE DEF u
<1> QED BY <1>2, <1>3 DEF Folds, n
\* A function on 1 .. n is a sequence of elements of its range.
LEMMA ListIsSeq ==
  ASSUME NEW n \in Nat, NEW S, NEW s \in [1 .. n -> S]
  PROVE  s \in Seq(S) /\ Len(s) = n
<1>1. s \in Seq(S)
  BY SeqDef
<1> QED BY <1>1, LenProperties

-----------------------------------------------------------------------------
(* The elements of a finite set as a sequence *)

\* Each element comes once.
LEMMA SetListed ==
  ASSUME NEW S, IsFiniteSet(S)
  PROVE  /\ SetToSeq(S) \in Seq(S) /\ Len(SetToSeq(S)) = Cardinality(S) /\ Cardinality(S) \in Nat
         /\ \A i, j \in 1 .. Cardinality(S) : SetToSeq(S)[i] = SetToSeq(S)[j] => i = j
         /\ \A x \in S : \E i \in 1 .. Cardinality(S) : SetToSeq(S)[i] = x
<1> DEFINE n == Cardinality(S)
           s == SetToSeq(S)
<1>1. n \in Nat /\ ExistsBijection(1 .. n, S)
  BY FS_CardinalityType
<1>2. \E f \in [1 .. n -> S] : IsInjective(f)
  BY <1>1 DEF ExistsBijection, Bijection, Injection
<1>3. s \in [1 .. n -> S] /\ IsInjective(s)
  BY <1>2, Zenon DEF SetToSeq
<1> HIDE DEF s
<1>4. s \in Injection(1 .. n, S)
  BY <1>3 DEF Injection
<1>5. IsFiniteSet(1 .. n) /\ Cardinality(1 .. n) = n
  BY <1>1, FS_Interval
<1>6. s \in Surjection(1 .. n, S)
  BY <1>4, <1>5, FS_Injection
<1>7. \A x \in S : \E i \in 1 .. n : s[i] = x
  BY <1>6 DEF Surjection
<1>8. \A i, j \in 1 .. n : s[i] = s[j] => i = j
  BY <1>3 DEF IsInjective
<1>9. s \in Seq(S) /\ Len(s) = n
  <2>1. s \in Seq(S)
    BY <1>1, <1>3, SeqDef
  <2>2. DOMAIN s = 1 .. Len(s) /\ Len(s) \in Nat /\ DOMAIN s = 1 .. n
    BY <1>3, <2>1, LenProperties
  <2> QED BY <1>1, <2>1, <2>2
<1> QED BY <1>1, <1>7, <1>8, <1>9 DEF s
=============================================================================
