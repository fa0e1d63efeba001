------------------------------- MODULE ListFacts -------------------------------
(***************************************************************************)
(* What Ordering and the operators on sequences compute, for the proofs    *)
(* about what is built from them: lists, sets put in order, lists joined.  *)
(* Induction over data is a fact about sets: a claim that fails somewhere  *)
(* fails at a least place (LeastNatural).                                  *)
(***************************************************************************)
EXTENDS Ordering, SequencesExt, FiniteSetTheorems, SequenceTheorems, WellFoundedInduction, TLAPS

-------------------------------------------------------------------------------
(* The least and the greatest. *)

\* Every set of naturals has a least element: induction, as a fact about sets.
LEMMA LeastNatural == ASSUME NEW T \in SUBSET Nat, T # {} PROVE \E x \in T : \A y \in T : x <= y
<1> DEFINE less == OpToRel(<, Nat)
<1>1. \A x, y \in Nat : <<x, y>> \in less <=> x < y BY DEF OpToRel
<1>2. IsWellFoundedOn(less, Nat) BY NatLessThanWellFounded
<1> HIDE DEF less
<1>3. PICK x \in T : \A y \in T : <<y, x>> \notin less BY <1>2, WFMin
<1>4. \A y \in T : x \in Nat /\ y \in Nat /\ ~(y < x) BY <1>1, <1>3
<1> QED BY <1>4

LEMMA GreatestInteger ==
  ASSUME NEW T \in SUBSET Int, T # {}, NEW n \in Int, \A x \in T : x <= n
  PROVE  /\ Max(T) \in T /\ \A y \in T : y <= Max(T)
         /\ \A m \in T : (\A y \in T : y <= m) => Max(T) = m
<1> DEFINE below == {n - x : x \in T}
<1>1. below \in SUBSET Nat /\ below # {}
  <2>1. \A x \in T : n - x \in Nat OBVIOUS
  <2> QED BY <2>1
<1>2. PICK d \in below : \A e \in below : d <= e BY <1>1, LeastNatural
<1>3. PICK m \in T : d = n - m OBVIOUS
<1>4. \A y \in T : m >= y
  <2> TAKE y \in T
  <2>1. n - y \in below OBVIOUS
  <2>2. n - m <= n - y BY <1>2, <1>3, <2>1
  <2> QED BY <2>2
<1> HIDE DEF below
<1>5. Max(T) \in T /\ \A y \in T : Max(T) >= y BY <1>4 DEF Max
<1>6. PICK x : x = Max(T) OBVIOUS
<1>7. x \in Int /\ x \in T /\ \A y \in T : x >= y BY <1>5, <1>6
<1>8. \A z \in T : (\A y \in T : y <= z) => x = z BY <1>7
<1>9. \A y \in T : y <= x BY <1>7
<1> QED BY <1>6, <1>7, <1>8, <1>9

-------------------------------------------------------------------------------
(* Lists: functions on 1 .. n. *)

IsList(f, n) == n \in Nat /\ f = [k \in 1 .. n |-> f[k]]

LEMMA ListIsSequence ==
  ASSUME NEW f, NEW n, IsList(f, n)
  PROVE  /\ f \in Seq({f[k] : k \in 1 .. n}) /\ Len(f) = n /\ DOMAIN f = 1 .. n /\ Listed(f) = f
<1> DEFINE S == {f[k] : k \in 1 .. n}
<1>1. f \in [1 .. n -> S] /\ n \in Nat BY DEF IsList
<1> HIDE DEF S
<1>2. f \in Seq(S) BY <1>1, SeqDef
<1>3. Len(f) = n /\ DOMAIN f = 1 .. n BY <1>1, <1>2
<1>4. Listed(f) = f BY <1>2, ConcatEmptySeq DEF Listed
<1> QED BY <1>2, <1>3, <1>4 DEF S

LEMMA ListsEqual ==
  ASSUME NEW f, NEW g, NEW n, IsList(f, n), IsList(g, n), \A k \in 1 .. n : f[k] = g[k]
  PROVE  f = g
  BY DEF IsList

\* As many things as a list names, when it names none twice.
LEMMA DistinctCount ==
  ASSUME NEW f, NEW n, IsList(f, n), NEW m \in 0 .. n,
         \A j, k \in 1 .. n : f[j] = f[k] => j = k
  PROVE  IsFiniteSet({f[j] : j \in 1 .. m}) /\ Cardinality({f[j] : j \in 1 .. m}) = m
<1>0. n \in Nat /\ m \in Nat /\ 1 .. m \subseteq 1 .. n BY DEF IsList
<1>1. PICK T, g : T = {f[j] : j \in 1 .. m} /\ g = [j \in 1 .. m |-> f[j]] OBVIOUS
<1>2. g \in [1 .. m -> T] /\ \A x \in T : \E j \in 1 .. m : g[j] = x BY <1>1
<1>3. \A j, k \in 1 .. m : g[j] = g[k] => j = k BY <1>0, <1>1
<1>4. g \in Bijection(1 .. m, T) BY <1>2, <1>3 DEF Bijection, Injection, Surjection, IsInjective
<1>5. IsFiniteSet(1 .. m) /\ Cardinality(1 .. m) = m BY <1>0, FS_Interval
<1>6. ExistsBijection(1 .. m, T) BY <1>4 DEF ExistsBijection
<1> QED BY <1>1, <1>5, <1>6, FS_Bijection

\* g begins with f.
Begins(f, n, g, m) == /\ IsList(f, n) /\ IsList(g, m) /\ n <= m
                      /\ \A k \in 1 .. n : f[k] = g[k]

-------------------------------------------------------------------------------
(* Sets in order. *)

Before(S, x) == {y \in S : y < x}
Rank(S, x) == Cardinality(Before(S, x))

LEMMA RankIncreases ==
  ASSUME NEW S \in SUBSET Int, IsFiniteSet(S), NEW x \in S
  PROVE  /\ Cardinality(S) \in Nat
         /\ Rank(S, x) \in 0 .. Cardinality(S) - 1
         /\ \A y \in S : y < x => Rank(S, y) < Rank(S, x)
<1>1. \A T \in SUBSET S : /\ IsFiniteSet(T) /\ Cardinality(T) \in Nat
                          /\ Cardinality(T) <= Cardinality(S)
  BY FS_Subset, FS_CardinalityType
<1>2. Cardinality(S) \in Nat BY <1>1
<1>3. \A T \in SUBSET S, U \in SUBSET S : T \subseteq U /\ T # U => Cardinality(T) < Cardinality(U)
  <2> SUFFICES ASSUME NEW T \in SUBSET S, NEW U \in SUBSET S, T \subseteq U, T # U
               PROVE  Cardinality(T) < Cardinality(U)
    OBVIOUS
  <2>1. Cardinality(T) <= Cardinality(U) /\ (Cardinality(U) = Cardinality(T) => U = T)
    BY <1>1, FS_Subset
  <2> QED BY <1>1, <2>1
<1>4. Before(S, x) \in SUBSET S /\ x \notin Before(S, x) BY DEF Before
<1>5. Cardinality(Before(S, x)) < Cardinality(S) BY <1>3, <1>4
<1>6. ASSUME NEW y \in S, y < x PROVE Cardinality(Before(S, y)) < Cardinality(Before(S, x))
  <2>0. y \in Before(S, x) /\ y \notin Before(S, y) /\ \A z \in S : z < y => z < x BY <1>6 DEF Before
  <2>1. Before(S, y) \subseteq Before(S, x) /\ Before(S, y) # Before(S, x) BY <2>0 DEF Before
  <2>2. Before(S, y) \in SUBSET S BY DEF Before
  <2> QED BY <1>3, <1>4, <2>1, <2>2
<1> QED BY <1>1, <1>2, <1>4, <1>5, <1>6 DEF Rank

LEMMA RanksTaken ==
  ASSUME NEW S \in SUBSET Int, IsFiniteSet(S), NEW k \in 1 .. Cardinality(S)
  PROVE  \E x \in S : Rank(S, x) = k - 1
<1> DEFINE n == Cardinality(S)
           f == [x \in S |-> Rank(S, x)]
<1>1. n \in Nat BY FS_CardinalityType
<1>2. f \in [S -> 0 .. n - 1] BY RankIncreases
<1>3. \A x, y \in S : f[x] = f[y] => x = y
  <2> SUFFICES ASSUME NEW x \in S, NEW y \in S, x < y, f[x] = f[y] PROVE FALSE BY SMT
  <2>1. Rank(S, x) \in Int /\ Rank(S, x) = Rank(S, y) BY RankIncreases, <1>1
  <2> QED BY <2>1, RankIncreases
<1>4. f \in Injection(S, 0 .. n - 1) BY <1>2, <1>3 DEF Injection, IsInjective
<1>5. IsFiniteSet(0 .. n - 1) /\ Cardinality(0 .. n - 1) = n
  <2>1. 0 \in Int /\ n - 1 \in Int BY <1>1
  <2>2. Cardinality(0 .. n - 1) = IF 0 > n - 1 THEN 0 ELSE (n - 1) - 0 + 1 BY <2>1, FS_Interval
  <2> QED BY <1>1, <2>1, <2>2, FS_Interval
<1> HIDE DEF f, n
<1>6. f \in Surjection(S, 0 .. n - 1) BY <1>4, <1>5, FS_Injection DEF n
<1>7. k - 1 \in 0 .. n - 1 BY <1>1 DEF n
<1>8. \E x \in S : f[x] = k - 1 BY <1>6, <1>7 DEF Surjection
<1> QED BY <1>8 DEF f

LEMMA RankUnique ==
  ASSUME NEW S \in SUBSET Int, IsFiniteSet(S), NEW x \in S, NEW y \in S, Rank(S, x) = Rank(S, y)
  PROVE  x = y
<1>1. x < y \/ y < x \/ x = y OBVIOUS
<1>2. Rank(S, x) \in Int BY RankIncreases
<1>3. (x < y => Rank(S, x) < Rank(S, y)) /\ (y < x => Rank(S, y) < Rank(S, x)) BY RankIncreases
<1> QED BY <1>1, <1>2, <1>3

LEMMA InOrderLists ==
  ASSUME NEW S \in SUBSET Int, IsFiniteSet(S)
  PROVE  /\ IsList(InOrder(S), Cardinality(S))
         /\ \A k \in 1 .. Cardinality(S) : InOrder(S)[k] \in S /\ Rank(S, InOrder(S)[k]) = k - 1
         /\ \A x \in S : /\ Rank(S, x) + 1 \in 1 .. Cardinality(S)
                         /\ InOrder(S)[Rank(S, x) + 1] = x
         /\ \A j, k \in 1 .. Cardinality(S) : j < k => InOrder(S)[j] < InOrder(S)[k]
<1> DEFINE n == Cardinality(S)
           pick(k) == CHOOSE x \in S : Cardinality({y \in S : y < x}) = k - 1
           f == [k \in 1 .. n |-> pick(k)]
<1>1. n \in Nat BY FS_CardinalityType
<1>2. \A k \in 1 .. n : f[k] \in S /\ Rank(S, f[k]) = k - 1
  <2> TAKE k \in 1 .. n
  <2>1. f[k] = CHOOSE x \in S : Rank(S, x) = k - 1 BY DEF Rank, Before
  <2> QED BY <2>1, RanksTaken
<1>3. IsList(f, n)
  <2> HIDE DEF pick
  <2>1. PICK g : g = f OBVIOUS
  <2>2. g = [k \in 1 .. n |-> g[k]] BY <2>1
  <2>3. IsList(g, n) BY <1>1, <2>2 DEF IsList
  <2> QED BY <2>1, <2>3
<1>4. InOrder(S) = Listed(f) BY DEF InOrder
<1> HIDE DEF f
<1>5. InOrder(S) = f BY <1>3, <1>4, ListIsSequence
<1>6. ASSUME NEW x \in S PROVE Rank(S, x) + 1 \in 1 .. n /\ f[Rank(S, x) + 1] = x
  <2>1. Rank(S, x) \in 0 .. n - 1 BY RankIncreases
  <2>2. Rank(S, x) + 1 \in 1 .. n /\ (Rank(S, x) + 1) - 1 = Rank(S, x) BY <1>1, <2>1
  <2>3. f[Rank(S, x) + 1] \in S /\ Rank(S, f[Rank(S, x) + 1]) = Rank(S, x) BY <1>2, <2>2
  <2>4. PICK z : z = f[Rank(S, x) + 1] OBVIOUS
  <2>5. z \in S /\ Rank(S, z) = Rank(S, x) BY <2>3, <2>4
  <2>6. z = x BY <2>5, RankUnique
  <2> QED BY <2>2, <2>4, <2>6
<1>7. ASSUME NEW j \in 1 .. n, NEW k \in 1 .. n, j < k PROVE f[j] < f[k]
  <2>1. PICK x, y : x = f[j] /\ y = f[k] OBVIOUS
  <2>2. x \in S /\ y \in S /\ Rank(S, x) = j - 1 /\ Rank(S, y) = k - 1 BY <1>2, <2>1
  <2>3. y < x => Rank(S, y) < Rank(S, x) BY <2>2, RankIncreases
  <2>4. ~(y < x) /\ x # y BY <1>1, <1>7, <2>2, <2>3
  <2> QED BY <2>1, <2>2, <2>4
<1> QED BY <1>2, <1>3, <1>5, <1>6, <1>7

\* A set and one that only has greater elements more.
LEMMA InOrderBegins ==
  ASSUME NEW S \in SUBSET Int, NEW U \in SUBSET Int, IsFiniteSet(U), S \subseteq U,
         \A x \in S, y \in U \ S : x < y
  PROVE  /\ IsFiniteSet(S)
         /\ Begins(InOrder(S), Cardinality(S), InOrder(U), Cardinality(U))
         /\ \A k \in Cardinality(S) + 1 .. Cardinality(U) : InOrder(U)[k] \in U \ S
<1>1. IsFiniteSet(S) /\ Cardinality(S) \in Nat /\ Cardinality(U) \in Nat /\ Cardinality(S) <= Cardinality(U)
  BY FS_Subset, FS_CardinalityType
<1>2. \A x \in S : Rank(U, x) = Rank(S, x)
  <2> TAKE x \in S
  <2>1. \A y \in U : y < x => y \in S
    <3> SUFFICES ASSUME NEW y \in U, y < x, y \notin S PROVE FALSE OBVIOUS
    <3>1. x < y OBVIOUS
    <3> QED BY <3>1
  <2>2. Before(U, x) = Before(S, x) BY <2>1 DEF Before
  <2> QED BY <2>2 DEF Rank
<1>3. ASSUME NEW k \in 1 .. Cardinality(S) PROVE InOrder(S)[k] = InOrder(U)[k]
  <2>1. PICK x : x = InOrder(S)[k] OBVIOUS
  <2>2. x \in S /\ Rank(S, x) = k - 1 BY <1>1, <2>1, InOrderLists
  <2>3. InOrder(U)[Rank(U, x) + 1] = x BY <2>2, InOrderLists
  <2>4. Rank(U, x) + 1 = k BY <1>1, <1>2, <2>2
  <2> QED BY <2>1, <2>3, <2>4
<1>4. ASSUME NEW k \in Cardinality(S) + 1 .. Cardinality(U), InOrder(U)[k] \in S PROVE FALSE
  <2>1. PICK x : x = InOrder(U)[k] OBVIOUS
  <2>2. k \in 1 .. Cardinality(U) BY <1>1
  <2>3. Rank(U, x) = k - 1 BY <2>1, <2>2, InOrderLists
  <2>4. Rank(S, x) \in 0 .. Cardinality(S) - 1 BY <1>1, <1>4, <2>1, RankIncreases
  <2>5. x \in S /\ Rank(S, x) = k - 1 BY <1>2, <1>4, <2>1, <2>3
  <2> QED BY <1>1, <2>4, <2>5
<1>5. \A k \in Cardinality(S) + 1 .. Cardinality(U) : InOrder(U)[k] \in U
  <2> TAKE k \in Cardinality(S) + 1 .. Cardinality(U)
  <2>1. k \in 1 .. Cardinality(U) BY <1>1
  <2> QED BY <2>1, InOrderLists
<1>6. IsList(InOrder(S), Cardinality(S)) /\ IsList(InOrder(U), Cardinality(U)) BY <1>1, InOrderLists
<1> QED BY <1>1, <1>3, <1>4, <1>5, <1>6 DEF Begins

\* An interval in order.
LEMMA InOrderInterval ==
  ASSUME NEW a \in Int, NEW b \in Int, a <= b + 1
  PROVE  /\ IsFiniteSet(a .. b) /\ Cardinality(a .. b) = b + 1 - a
         /\ InOrder(a .. b) = [k \in 1 .. b + 1 - a |-> a + k - 1]
<1>1. IsFiniteSet(a .. b) /\ Cardinality(a .. b) = b + 1 - a
  <2>1. Cardinality(a .. b) = IF a > b THEN 0 ELSE b - a + 1 BY FS_Interval
  <2> QED BY <2>1, FS_Interval
<1>2. IsList(InOrder(a .. b), b + 1 - a) BY <1>1, InOrderLists
<1>3. ASSUME NEW k \in 1 .. b + 1 - a PROVE InOrder(a .. b)[k] = a + k - 1
  <2>1. PICK x : x = a + k - 1 OBVIOUS
  <2>2. x \in a .. b BY <2>1
  <2>3. Before(a .. b, x) = a .. x - 1 BY <2>2 DEF Before
  <2>4. Cardinality(a .. x - 1) = IF a > x - 1 THEN 0 ELSE (x - 1) - a + 1
    <3>1. x - 1 \in Int BY <2>1
    <3> QED BY <3>1, FS_Interval
  <2>5. Rank(a .. b, x) = k - 1 BY <2>1, <2>3, <2>4 DEF Rank
  <2>6. InOrder(a .. b)[Rank(a .. b, x) + 1] = x BY <1>1, <2>2, InOrderLists
  <2> QED BY <2>1, <2>5, <2>6
<1> QED BY <1>1, <1>2, <1>3 DEF IsList

-------------------------------------------------------------------------------
(* Lists of finite sets, and lists joined. *)

\* A finite set as a list has every element of the set and nothing else.
LEMMA SetAsList ==
  ASSUME NEW T, IsFiniteSet(T)
  PROVE  ToSet(SetToSeq(T)) = T /\ DOMAIN SetToSeq(T) = 1 .. Cardinality(T)
<1>1. PICK n, f : n = Cardinality(T) /\ f = SetToSeq(T) OBVIOUS
<1>2. n \in Nat /\ ExistsBijection(1 .. n, T) BY <1>1, FS_CardinalityType
<1>3. \E h \in [1 .. n -> T] : IsInjective(h) BY <1>2 DEF ExistsBijection, Bijection, Injection
<1>4. f \in [1 .. n -> T] /\ IsInjective(f) BY <1>1, <1>3 DEF SetToSeq
<1>5. f \in Injection(1 .. n, T) BY <1>4 DEF Injection
<1>6. IsFiniteSet(1 .. n) /\ Cardinality(1 .. n) = n BY <1>2, FS_Interval
<1>7. f \in Surjection(1 .. n, T) BY <1>1, <1>5, <1>6, FS_Injection
<1>8. \A x \in T : \E k \in 1 .. n : f[k] = x BY <1>7 DEF Surjection
<1>9. ToSet(f) = T BY <1>4, <1>8 DEF ToSet
<1> QED BY <1>1, <1>4, <1>9

\* The image of a finite set is finite and no larger.
LEMMA ImageSmaller ==
  ASSUME NEW S, IsFiniteSet(S), NEW f
  PROVE  /\ IsFiniteSet({f[x] : x \in S}) /\ Cardinality({f[x] : x \in S}) \in Nat
         /\ Cardinality({f[x] : x \in S}) <= Cardinality(S)
<1>1. PICK T, g : T = {f[x] : x \in S} /\ g = [x \in S |-> f[x]] OBVIOUS
<1>2. g \in [S -> T] /\ \A y \in T : \E x \in S : g[x] = y BY <1>1
<1>3. g \in Surjection(S, T) BY <1>2 DEF Surjection
<1> QED BY <1>1, <1>3, FS_Surjection, FS_CardinalityType

\* The first lists joined, one after the other.
JoinedTo(f, seqs, n) == f = [i \in 1 .. n |-> IF i = 1 THEN seqs[i] ELSE f[i - 1] \o seqs[i]]

LEMMA JoinedToExists ==
  ASSUME NEW seqs, NEW n \in Nat
  PROVE  \E f : JoinedTo(f, seqs, n)
<1> DEFINE T == {k \in Nat : ~ \E f : JoinedTo(f, seqs, k)}
<1> SUFFICES ASSUME T # {} PROVE FALSE OBVIOUS
<1>1. PICK k \in T : \A j \in T : k <= j
  <2>1. T \in SUBSET Nat OBVIOUS
  <2> HIDE DEF T
  <2> QED BY <2>1, LeastNatural
<1>2. CASE k = 0
  <2>1. PICK f : f = [i \in 1 .. 0 |-> seqs[i]] OBVIOUS
  <2>2. \A i : i \notin 1 .. 0 OBVIOUS
  <2>3. [i \in 1 .. 0 |-> IF i = 1 THEN seqs[i] ELSE f[i - 1] \o seqs[i]] = f BY <2>1, <2>2
  <2>4. JoinedTo(f, seqs, 0) BY <2>3 DEF JoinedTo
  <2> QED BY <1>1, <1>2, <2>4
<1>3. CASE k # 0
  <2>1. k \in Nat \ {0} /\ k - 1 \in Nat /\ ~(k <= k - 1) BY <1>1, <1>3
  <2>2. k - 1 \notin T BY <1>1, <2>1
  <2>3. PICK f : JoinedTo(f, seqs, k - 1) BY <2>1, <2>2
  <2>4. PICK next : next = IF k = 1 THEN seqs[k] ELSE f[k - 1] \o seqs[k] OBVIOUS
  <2>5. PICK more : more = [i \in 1 .. k |-> IF i = k THEN next ELSE f[i]] OBVIOUS
  <2>6. ASSUME NEW i \in 1 .. k
        PROVE  more[i] = IF i = 1 THEN seqs[i] ELSE more[i - 1] \o seqs[i]
    <3>1. CASE i = k
      <4>1. i = 1 \/ (i - 1 \in 1 .. k /\ i - 1 # k) BY <2>1, <3>1
      <4>2. i = 1 \/ more[i - 1] = f[i - 1] BY <2>5, <4>1
      <4> QED BY <2>4, <2>5, <3>1, <4>2
    <3>2. CASE i # k
      <4>1. i \in 1 .. k - 1 BY <2>1, <3>2
      <4>2. f[i] = IF i = 1 THEN seqs[i] ELSE f[i - 1] \o seqs[i] BY <2>3, <4>1 DEF JoinedTo
      <4>3. i = 1 \/ (i - 1 \in 1 .. k /\ i - 1 # k) BY <4>1
      <4>4. i = 1 \/ more[i - 1] = f[i - 1] BY <2>5, <4>3
      <4>5. more[i] = f[i] BY <2>5, <3>2
      <4> QED BY <4>2, <4>4, <4>5
    <3> QED BY <3>1, <3>2
  <2>7. more = [i \in 1 .. k |-> more[i]] BY <2>5
  <2>8. JoinedTo(more, seqs, k) BY <2>6, <2>7 DEF JoinedTo
  <2> QED BY <1>1, <2>8
<1> QED BY <1>2, <1>3

LEMMA JoinedInTurn ==
  ASSUME NEW seqs, NEW n \in Nat, Len(seqs) = n
  PROVE  \E f : JoinedTo(f, seqs, n) /\ FlattenSeq(seqs) = IF n = 0 THEN seqs ELSE f[n]
<1> DEFINE form(f) == f = [i \in 1 .. Len(seqs) |-> IF i = 1 THEN seqs[i] ELSE f[i - 1] \o seqs[i]]
           joined == CHOOSE f : form(f)
<1>3. \E f : form(f)
  <2>1. PICK f : JoinedTo(f, seqs, n) BY JoinedToExists
  <2>2. form(f) BY <2>1 DEF JoinedTo
  <2> QED BY <2>2
<1>4. FlattenSeq(seqs) = IF Len(seqs) = 0 THEN seqs ELSE joined[Len(seqs)] BY DEF FlattenSeq
<1>5. form(joined)
  <2> HIDE DEF form
  <2> QED BY <1>3
<1>6. PICK f : f = joined OBVIOUS
<1>7. f = [i \in 1 .. n |-> IF i = 1 THEN seqs[i] ELSE f[i - 1] \o seqs[i]] BY <1>5, <1>6
<1> HIDE DEF form, joined
<1> QED BY <1>4, <1>6, <1>7 DEF JoinedTo

\* Lists joined are a list.
LEMMA JoinedIsSequence ==
  ASSUME NEW S, NEW seqs \in Seq(Seq(S))
  PROVE  FlattenSeq(seqs) \in Seq(S)
<1>1. PICK n : n = Len(seqs) OBVIOUS
<1>2. n \in Nat /\ DOMAIN seqs = 1 .. n /\ \A i \in 1 .. n : seqs[i] \in Seq(S) BY <1>1
<1>6. PICK f : JoinedTo(f, seqs, n) /\ FlattenSeq(seqs) = IF n = 0 THEN seqs ELSE f[n]
  BY <1>1, <1>2, JoinedInTurn
<1>7. f = [i \in 1 .. n |-> IF i = 1 THEN seqs[i] ELSE f[i - 1] \o seqs[i]] BY <1>6 DEF JoinedTo
<1>8. ASSUME n # 0 PROVE f[n] \in Seq(S)
  <2> DEFINE T == {k \in 1 .. n : f[k] \notin Seq(S)}
  <2> SUFFICES ASSUME T # {} PROVE FALSE BY <1>2, <1>8
  <2>1. PICK k \in T : \A j \in T : k <= j
    <3>1. T \in SUBSET Nat OBVIOUS
    <3> HIDE DEF T
    <3> QED BY <3>1, LeastNatural
  <2>2. k \in 1 .. n /\ f[k] \notin Seq(S) BY <2>1
  <2>3. k # 1 => k - 1 \in 1 .. n /\ ~(k <= k - 1) BY <1>2, <2>2
  <2>4. k # 1 => f[k - 1] \in Seq(S) BY <2>1, <2>3
  <2>5. f[k] = IF k = 1 THEN seqs[k] ELSE f[k - 1] \o seqs[k] BY <1>7, <2>2
  <2> QED BY <1>2, <2>2, <2>4, <2>5
<1>9. n = 0 => seqs \in Seq(S)
  <2>1. n = 0 => seqs = <<>> BY <1>1, EmptySeq
  <2> QED BY <2>1
<1> QED BY <1>1, <1>6, <1>8, <1>9

LEMMA ListOf ==
  ASSUME NEW S, NEW f, NEW n \in Nat, f \in [1 .. n -> S]
  PROVE  f \in Seq(S)
  BY SeqDef
================================================================================
