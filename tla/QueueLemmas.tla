---------------------------- MODULE QueueLemmas ----------------------------
(***************************************************************************)
(* What every other proof needs of numbers and sequences: least elements,  *)
(* quotients, the subsequence that Queues defines, and queues in order.    *)
(***************************************************************************)
EXTENDS Queues, FiniteSetTheorems, FunctionTheorems, SequenceTheorems,
        WellFoundedInduction, TLAPS

-----------------------------------------------------------------------------
(* Numbers. *)

(* The quotient, and what is left over. *)
LEMMA DivBounds ==
  ASSUME NEW a \in Nat, NEW k \in Nat \ {0}
  PROVE  a \div k \in Nat /\ k * (a \div k) <= a /\ a < k * (a \div k) + k
OBVIOUS

(* Multiples of k that are less than k apart. *)
LEMMA ProductOrder ==
  ASSUME NEW x \in Int, NEW y \in Int, NEW k \in Int, k >= 1, k * x < k * y + k
  PROVE  x <= y
OBVIOUS

(* More is never fewer times as much. *)
LEMMA DivMonotonic ==
  ASSUME NEW a \in Nat, NEW b \in Nat, NEW k \in Nat \ {0}, a <= b
  PROVE  a \div k <= b \div k
<1>1. /\ a \div k \in Nat /\ k * (a \div k) <= a
      /\ b \div k \in Nat /\ b < k * (b \div k) + k
  BY DivBounds
<1>2. k * (a \div k) \in Int /\ k * (b \div k) \in Int
  BY <1>1
<1>3. k * (a \div k) < k * (b \div k) + k
  BY <1>1, <1>2
<1>4. QED
  BY <1>1, <1>3, ProductOrder

(* The first n numbers. *)
LEMMA SizeOfInterval ==
  ASSUME NEW n \in Nat
  PROVE  IsFiniteSet(1..n) /\ Cardinality(1..n) = n
<1>1. IsFiniteSet(1..n) /\ Cardinality(1..n) = IF 1 > n THEN 0 ELSE n - 1 + 1
  BY FS_Interval
<1>2. (IF 1 > n THEN 0 ELSE n - 1 + 1) = n
  OBVIOUS
<1>3. QED
  BY <1>1, <1>2

(* A nonempty set of naturals has a least element. *)
LEMMA LeastElement ==
  ASSUME NEW M \in SUBSET Nat, M # {}
  PROVE  \E m \in M : \A i \in M : m <= i
<1>1. PICK m \in M : \A i \in M : ~(<<i, m>> \in OpToRel(<, Nat))
  BY NatLessThanWellFounded, WFMin, Zenon
<1>2. ASSUME NEW i \in M PROVE m <= i
  <2>1. i \in Nat /\ m \in Nat
    OBVIOUS
  <2>2. ~(i < m)
    BY <1>1, <2>1 DEF OpToRel
  <2>3. QED
    BY <2>1, <2>2
<1>3. QED
  BY <1>2

(* A run of indices from lo, none of them in M, that ends before an index  *)
(* in M or at hi.                                                          *)
LEMMA LongestRun ==
  ASSUME NEW lo \in Nat, NEW hi \in Nat, lo <= hi, NEW M \in SUBSET Nat
  PROVE  \E k \in lo..hi : /\ \A i \in lo..(k - 1) : i \notin M
                           /\ k < hi => k \in M
<1> DEFINE N == {i \in lo..(hi - 1) : i \in M}
<1>1. CASE N = {}
  BY <1>1
<1>2. CASE N # {}
  <2>1. N \in SUBSET Nat
    OBVIOUS
  <2>2. PICK k \in N : \A i \in N : k <= i
    BY <1>2, <2>1, LeastElement
  <2>3. k \in lo..hi /\ k \in M
    BY <2>2
  <2>4. ASSUME NEW i \in lo..(k - 1) PROVE i \notin M
    BY <2>2, <2>3
  <2>5. QED
    BY <2>3, <2>4
<1>3. QED
  BY <1>1, <1>2

(* The smaller of two numbers. *)
LEMMA MinOfTwo ==
  ASSUME NEW a \in Nat, NEW b \in Nat
  PROVE  Min({a, b}) = IF a <= b THEN a ELSE b
<1> DEFINE m == IF a <= b THEN a ELSE b
<1>1. m \in {a, b} /\ \A y \in {a, b} : m <= y
  OBVIOUS
<1>2. ASSUME NEW x \in {a, b}, \A y \in {a, b} : x <= y PROVE x = m
  BY <1>2
<1>3. QED
  BY <1>1, <1>2 DEF Min

(* The greater of two numbers. *)
LEMMA MaxOfTwo ==
  ASSUME NEW a \in Nat, NEW b \in Nat
  PROVE  Max({a, b}) = IF a <= b THEN b ELSE a
<1> DEFINE m == IF a <= b THEN b ELSE a
<1>1. m \in {a, b} /\ \A y \in {a, b} : m >= y
  OBVIOUS
<1>2. ASSUME NEW x \in {a, b}, \A y \in {a, b} : x >= y PROVE x = m
  BY <1>2
<1>3. QED
  BY <1>1, <1>2 DEF Max

(* The greatest element of a nonempty set of numbers below a bound. *)
LEMMA GreatestElement ==
  ASSUME NEW n \in Nat, NEW S \in SUBSET (1..n), S # {}
  PROVE  Max(S) \in S
<1> DEFINE M == {n - x : x \in S}
<1>1. M \in SUBSET Nat /\ M # {}
  <2>1. \A x \in S : n - x \in Nat
    OBVIOUS
  <2>2. QED
    BY <2>1
<1>2. PICK m \in M : \A i \in M : m <= i
  BY <1>1, LeastElement
<1>3. PICK x \in S : m = n - x
  BY <1>2
<1>4. ASSUME NEW y \in S PROVE x >= y
  <2>1. n - x <= n - y
    BY <1>2, <1>3
  <2>2. x \in Nat /\ y \in Nat
    OBVIOUS
  <2>3. QED
    BY ONLY <2>1, <2>2, n \in Nat
<1>5. QED
  BY <1>3, <1>4 DEF Max

(* The greatest of the numbers to n, and the others. *)
LEMMA TopOfInterval ==
  ASSUME NEW n \in Nat \ {0}
  PROVE  1..n # {} /\ Max(1..n) = n /\ (1..n) \ {n} = 1..(n - 1)
<1>1. n \in 1..n /\ \A y \in 1..n : n >= y
  OBVIOUS
<1>2. ASSUME NEW x \in 1..n, \A y \in 1..n : x >= y PROVE x = n
  BY <1>1, <1>2
<1>3. Max(1..n) = n
  BY <1>1, <1>2 DEF Max
<1>4. QED
  BY <1>1, <1>3

-----------------------------------------------------------------------------
(* Induction on the subsets of a finite set, and recursion over them. *)

(* What is left of a set when an element is taken away. *)
LEMMA OneLess ==
  ASSUME NEW S, IsFiniteSet(S), NEW s \in SUBSET S, NEW x \in s
  PROVE  /\ IsFiniteSet(s) /\ s \ {x} \in SUBSET S
         /\ Cardinality(s) \in Nat /\ Cardinality(s \ {x}) \in Nat
         /\ Cardinality(s \ {x}) = Cardinality(s) - 1
<1>1. IsFiniteSet(s)
  BY FS_Subset
<1>2. IsFiniteSet(s \ {x}) /\ Cardinality(s \ {x}) = Cardinality(s) - 1
  BY <1>1, FS_RemoveElement
<1>3. QED
  BY <1>1, <1>2, FS_CardinalityType

(* A set of subsets that has {} and whatever has all its parts with one    *)
(* element less has them all.                                              *)
Hereditary(S, Good) ==
  \A s \in SUBSET S : (\A x \in s : s \ {x} \in Good) => s \in Good

LEMMA SubsetInduction ==
  ASSUME NEW S, IsFiniteSet(S), NEW Good, Hereditary(S, Good)
  PROVE  SUBSET S \subseteq Good
<1> DEFINE M == {n \in Nat : \E s \in SUBSET S : s \notin Good /\ Cardinality(s) = n}
<1>1. SUFFICES ASSUME NEW t \in SUBSET S, t \notin Good PROVE FALSE
  OBVIOUS
<1>2. M # {} /\ M \in SUBSET Nat
  <2>1. IsFiniteSet(t)
    BY FS_Subset
  <2>2. Cardinality(t) \in Nat
    BY <2>1, FS_CardinalityType
  <2>3. QED
    BY <1>1, <2>2
<1>3. PICK n \in M : \A i \in M : n <= i
  BY <1>2, LeastElement
<1>4. PICK s \in SUBSET S : s \notin Good /\ Cardinality(s) = n
  BY <1>3
<1>5. ASSUME NEW x \in s PROVE s \ {x} \in Good
  <2>1. /\ s \ {x} \in SUBSET S /\ Cardinality(s \ {x}) \in Nat
        /\ Cardinality(s \ {x}) = n - 1 /\ n \in Nat
    BY <1>4, OneLess
  <2>2. SUFFICES ASSUME s \ {x} \notin Good PROVE FALSE
    OBVIOUS
  <2>3. Cardinality(s \ {x}) \in M
    BY <2>1, <2>2
  <2>4. n <= Cardinality(s \ {x})
    BY <1>3, <2>3
  <2>5. QED
    BY <2>1, <2>4
<1>6. QED
  BY <1>4, <1>5 DEF Hereditary

Recursion(g, S, b, F, c) ==
  \A s \in SUBSET S : g[s] = IF s = {} THEN b ELSE F[<<c[s], g[s \ {c[s]}]>>]

(* A recursion over the subsets of a finite set, one element at a time in  *)
(* an order that c chooses, defines a function.                            *)
LEMMA RecursionExists ==
  ASSUME NEW S, IsFiniteSet(S), NEW V, NEW b \in V, NEW F \in [S \X V -> V], NEW c,
         \A s \in SUBSET S : s # {} => c[s] \in s
  PROVE  \E g \in [SUBSET S -> V] : Recursion(g, S, b, F, c)
<1> DEFINE Next(g, s) == IF s = {} THEN b ELSE F[<<c[s], g[s \ {c[s]}]>>]
<1> DEFINE Upto(m, g) == \A s \in SUBSET S : Cardinality(s) <= m => g[s] = Next(g, s)
<1> DEFINE M == {m \in Nat : ~\E g \in [SUBSET S -> V] : Upto(m, g)}
<1>1. ASSUME NEW g \in [SUBSET S -> V], NEW s \in SUBSET S
      PROVE  Next(g, s) \in V
  <2>1. CASE s = {}
    BY <2>1
  <2>2. CASE s # {}
    <3>1. c[s] \in s /\ c[s] \in S /\ s \ {c[s]} \in SUBSET S
      BY <2>2
    <3>2. g[s \ {c[s]}] \in V
      BY <3>1
    <3>3. <<c[s], g[s \ {c[s]}]>> \in S \X V
      BY <3>1, <3>2
    <3>4. QED
      BY <2>2, <3>3
  <2>3. QED
    BY <2>1, <2>2
<1>2. M = {}
  <2>1. SUFFICES ASSUME M # {} PROVE FALSE
    OBVIOUS
  <2>2. PICK m \in M : \A i \in M : m <= i
    <3>1. M \in SUBSET Nat
      OBVIOUS
    <3>2. QED
      BY <2>1, <3>1, LeastElement
  <2>3. m \in Nat /\ ~\E g \in [SUBSET S -> V] : Upto(m, g)
    BY <2>2
  <2>4. \E g \in [SUBSET S -> V] :
          \A s \in SUBSET S : Cardinality(s) <= m - 1 => g[s] = Next(g, s)
    <3>1. CASE m = 0
      <4> DEFINE g == [s \in SUBSET S |-> b]
      <4>1. g \in [SUBSET S -> V]
        OBVIOUS
      <4>2. ASSUME NEW s \in SUBSET S PROVE Cardinality(s) \in Nat
        BY FS_Subset, FS_CardinalityType
      <4>3. ASSUME NEW s \in SUBSET S PROVE ~(Cardinality(s) <= m - 1)
        BY ONLY <3>1, <4>2
      <4>4. QED
        BY <4>1, <4>3
    <3>2. CASE m # 0
      <4>1. m - 1 \in Nat /\ ~(m <= m - 1)
        BY ONLY <2>3, <3>2
      <4>2. m - 1 \notin M
        <5> HIDE DEF M
        <5>1. QED
          BY <2>2, <4>1
      <4>3. QED
        BY <4>1, <4>2
    <3>3. QED
      BY <3>1, <3>2
  <2>5. PICK g \in [SUBSET S -> V] :
          \A s \in SUBSET S : Cardinality(s) <= m - 1 => g[s] = Next(g, s)
    BY <2>4
  <2> DEFINE d == [s \in SUBSET S |-> Next(g, s)]
  <2>6. d \in [SUBSET S -> V]
    BY <1>1
  <2>7. ASSUME NEW s \in SUBSET S, Cardinality(s) <= m PROVE d[s] = Next(d, s)
    <3>1. CASE s = {}
      BY <3>1
    <3>2. CASE s # {}
      <4>1. c[s] \in s /\ s \ {c[s]} \in SUBSET S
        BY <3>2
      <4>2. /\ Cardinality(s) \in Nat /\ Cardinality(s \ {c[s]}) \in Nat
            /\ Cardinality(s \ {c[s]}) = Cardinality(s) - 1
        <5>1. \A x \in s : /\ Cardinality(s) \in Nat /\ Cardinality(s \ {x}) \in Nat
                           /\ Cardinality(s \ {x}) = Cardinality(s) - 1
          BY OneLess
        <5>2. QED
          BY <4>1, <5>1
      <4>3. Cardinality(s \ {c[s]}) <= m - 1
        BY ONLY <2>3, <2>7, <4>2
      <4>4. d[s \ {c[s]}] = g[s \ {c[s]}]
        <5>1. g[s \ {c[s]}] = Next(g, s \ {c[s]})
          BY <2>5, <4>1, <4>3
        <5>2. d[s \ {c[s]}] = Next(g, s \ {c[s]})
          BY <4>1
        <5> HIDE DEF Next, d
        <5>3. QED
          BY <5>1, <5>2
      <4>5. d[s] = Next(g, s)
        OBVIOUS
      <4>6. QED
        <5> HIDE DEF d
        <5>1. QED
          BY <3>2, <4>4, <4>5
    <3>3. QED
      BY <3>1, <3>2
  <2> HIDE DEF d
  <2>8. QED
    BY <2>3, <2>6, <2>7
<1>3. Cardinality(S) \in Nat
  BY FS_CardinalityType
<1>4. PICK g \in [SUBSET S -> V] : Upto(Cardinality(S), g)
  BY <1>2, <1>3
<1>5. ASSUME NEW s \in SUBSET S PROVE g[s] = Next(g, s)
  <2>1. Cardinality(s) <= Cardinality(S)
    BY FS_Subset
  <2>2. QED
    BY <1>4, <2>1
<1>6. QED
  BY <1>5 DEF Recursion

-----------------------------------------------------------------------------
(* Ranks, and the subsequence they define. *)

(* The rank of an element of I is between 1 and the size of I. *)
LEMMA RankType ==
  ASSUME NEW I \in SUBSET Nat, IsFiniteSet(I), NEW i \in I
  PROVE  Rank(I, i) \in 1..Cardinality(I)
<1>1. {j \in I : j <= i} \in SUBSET I
  OBVIOUS
<1>2. /\ Rank(I, i) \in Nat /\ Rank(I, i) <= Cardinality(I)
      /\ IsFiniteSet({j \in I : j <= i})
  BY <1>1, FS_Subset, FS_CardinalityType DEF Rank
<1>3. {j \in I : j <= i} # {}
  OBVIOUS
<1>4. Rank(I, i) # 0
  BY <1>2, <1>3, FS_EmptySet DEF Rank
<1>5. QED
  BY <1>2, <1>4, FS_CardinalityType

(* Ranks increase. *)
LEMMA RankMono ==
  ASSUME NEW I \in SUBSET Nat, IsFiniteSet(I), NEW i \in I, NEW k \in I, i < k
  PROVE  Rank(I, i) < Rank(I, k)
<1> DEFINE A == {j \in I : j <= i}
<1> DEFINE B == {j \in I : j <= k}
<1>1. A \subseteq B
  <2>1. i \in Nat /\ k \in Nat
    OBVIOUS
  <2>2. ASSUME NEW j \in I, j <= i PROVE j <= k
    <3>1. j \in Nat
      OBVIOUS
    <3>2. QED
      BY <2>1, <2>2, <3>1
  <2>3. QED
    BY <2>2
<1>2. k \in B /\ k \notin A /\ B \subseteq I
  OBVIOUS
<1>3. IsFiniteSet(B)
  BY <1>2, FS_Subset
<1>4. IsFiniteSet(A) /\ Cardinality(A) \in Nat /\ Cardinality(B) \in Nat
  BY <1>1, <1>3, FS_Subset, FS_CardinalityType
<1>5. Cardinality(A) < Cardinality(B)
  BY <1>1, <1>2, <1>3, <1>4, FS_Subset
<1>6. QED
  BY <1>5 DEF Rank

(* Different elements have different ranks. *)
LEMMA RankInjective ==
  ASSUME NEW I \in SUBSET Nat, IsFiniteSet(I), NEW i \in I, NEW k \in I,
         Rank(I, i) = Rank(I, k)
  PROVE  i = k
<1>1. i \in Nat /\ k \in Nat
  OBVIOUS
<1>2. Rank(I, i) \in Int /\ Rank(I, k) \in Int
  BY RankType
<1>3. CASE i < k
  BY <1>2, <1>3, RankMono
<1>4. CASE k < i
  BY <1>2, <1>4, RankMono
<1>5. QED
  BY <1>1, <1>3, <1>4

(* Every number from 1 to the size of I is the rank of some element. *)
LEMMA RankSurjective ==
  ASSUME NEW I \in SUBSET Nat, IsFiniteSet(I), NEW k \in 1..Cardinality(I)
  PROVE  \E i \in I : Rank(I, i) = k
<1> DEFINE f == [i \in I |-> Rank(I, i)]
<1> DEFINE N == 1..Cardinality(I)
<1>1. f \in [I -> N]
  BY RankType
<1>2. \A a, b \in I : f[a] = f[b] => a = b
  BY RankInjective
<1> HIDE DEF f
<1>3. f \in Injection(I, N)
  BY <1>1, <1>2 DEF Injection, IsInjective
<1>4. IsFiniteSet(N) /\ Cardinality(N) = Cardinality(I)
  BY FS_Interval, FS_CardinalityType
<1>5. f \in Surjection(I, N)
  BY <1>3, <1>4, FS_Injection
<1>6. PICK i \in I : f[i] = k
  BY <1>5 DEF Surjection
<1>7. QED
  BY <1>6 DEF f

Distinct(s) == \A i, j \in DOMAIN s : s[i] = s[j] => i = j

(* Kept(s, T) is a sequence of the elements of s that are in T; it repeats *)
(* nothing that s does not repeat.                                         *)
LEMMA KeptProperties ==
  ASSUME NEW S, NEW s \in Seq(S), NEW T
  PROVE  /\ Kept(s, T) \in Seq(S)
         /\ ToSet(Kept(s, T)) = ToSet(s) \cap T
         /\ Distinct(s) => Distinct(Kept(s, T))
<1> DEFINE I == {i \in DOMAIN s : s[i] \in T}
<1> DEFINE n == Cardinality(I)
<1> DEFINE at == [k \in 1..n |-> CHOOSE i \in I : Rank(I, i) = k]
<1>1. DOMAIN s = 1..Len(s) /\ Len(s) \in Nat
  OBVIOUS
<1>2. I \in SUBSET Nat /\ I \subseteq 1..Len(s)
  BY <1>1
<1>3. IsFiniteSet(I) /\ n \in Nat
  <2>1. IsFiniteSet(1..Len(s))
    BY <1>1, FS_Interval
  <2>2. IsFiniteSet(I)
    BY <1>2, <2>1, FS_Subset
  <2>3. QED
    BY <2>2, FS_CardinalityType
<1>4. ASSUME NEW k \in 1..n PROVE at[k] \in I /\ Rank(I, at[k]) = k
  <2>1. \E i \in I : Rank(I, i) = k
    BY <1>2, <1>3, RankSurjective
  <2>2. QED
    BY <2>1
<1>5. ASSUME NEW i \in I PROVE Rank(I, i) \in 1..n /\ at[Rank(I, i)] = i
  <2>1. Rank(I, i) \in 1..n
    BY <1>2, <1>3, RankType
  <2>2. at[Rank(I, i)] \in I /\ Rank(I, at[Rank(I, i)]) = Rank(I, i)
    BY <1>4, <2>1
  <2>3. QED
    BY <1>2, <1>3, <2>1, <2>2, RankInjective
<1>6. Kept(s, T) = [k \in 1..n |-> s[at[k]]]
  BY DEF Kept
<1> HIDE DEF at, n
<1>7. \A k \in 1..n : at[k] \in DOMAIN s /\ s[at[k]] \in T
  BY <1>4
<1>8. Kept(s, T) \in Seq(S)
  BY <1>1, <1>3, <1>6, <1>7
<1>9. DOMAIN Kept(s, T) = 1..n
  BY <1>6
<1>10. ToSet(Kept(s, T)) = ToSet(s) \cap T
  <2>1. ToSet(Kept(s, T)) = {s[at[k]] : k \in 1..n}
    BY <1>6, <1>9 DEF ToSet
  <2>2. \A i \in I : \E k \in 1..n : at[k] = i
    BY <1>5
  <2>3. ASSUME NEW x \in ToSet(s), x \in T PROVE x \in {s[at[k]] : k \in 1..n}
    <3>1. PICK i \in DOMAIN s : x = s[i]
      BY DEF ToSet
    <3>2. i \in I
      BY <2>3, <3>1
    <3>3. PICK k \in 1..n : at[k] = i
      BY <2>2, <3>2
    <3>4. QED
      BY <3>1, <3>3
  <2>4. {s[at[k]] : k \in 1..n} \subseteq ToSet(s) \cap T
    BY <1>7 DEF ToSet
  <2>5. QED
    BY <2>1, <2>3, <2>4
<1>11. ASSUME Distinct(s) PROVE Distinct(Kept(s, T))
  <2>1. ASSUME NEW i \in 1..n, NEW j \in 1..n, s[at[i]] = s[at[j]]
        PROVE  i = j
    <3>1. at[i] = at[j]
      BY <1>7, <1>11, <2>1 DEF Distinct
    <3>2. QED
      BY <1>4, <3>1
  <2>2. QED
    BY <1>6, <1>9, <2>1 DEF Distinct
<1>12. QED
  BY <1>8, <1>10, <1>11

(* Elements of a sequence; of the empty one; of a concatenation, a piece   *)
(* and a reversal.                                                         *)
LEMMA ToSetType ==
  ASSUME NEW S, NEW s \in Seq(S)
  PROVE  ToSet(s) \subseteq S
BY DEF ToSet

(* The empty sequence. *)
LEMMA EmptyElements == ToSet(<< >>) = {} /\ Distinct(<< >>)
BY DEF ToSet, Distinct

(* What two sequences hold together. *)
LEMMA ConcatElements ==
  ASSUME NEW S, NEW s \in Seq(S), NEW t \in Seq(S)
  PROVE  /\ s \o t \in Seq(S) /\ Len(s \o t) = Len(s) + Len(t)
         /\ ToSet(s \o t) = ToSet(s) \cup ToSet(t)
         /\ Distinct(s) /\ Distinct(t) /\ ToSet(s) \cap ToSet(t) = {}
              => Distinct(s \o t)
<1>1. /\ s \o t \in Seq(S) /\ Len(s \o t) = Len(s) + Len(t)
      /\ \A i \in 1..(Len(s) + Len(t)) :
           (s \o t)[i] = IF i <= Len(s) THEN s[i] ELSE t[i - Len(s)]
  BY ConcatProperties
<1>2. /\ DOMAIN s = 1..Len(s) /\ DOMAIN t = 1..Len(t)
      /\ DOMAIN (s \o t) = 1..(Len(s) + Len(t))
      /\ Len(s) \in Nat /\ Len(t) \in Nat
  BY <1>1, LenProperties
<1>3. \A i \in DOMAIN s : i \in DOMAIN (s \o t) /\ (s \o t)[i] = s[i]
  BY <1>1, <1>2
<1>4. \A i \in DOMAIN t :
        i + Len(s) \in DOMAIN (s \o t) /\ (s \o t)[i + Len(s)] = t[i]
  BY <1>1, <1>2
<1>5. \A i \in DOMAIN (s \o t) :
        \/ i \in DOMAIN s /\ (s \o t)[i] = s[i]
        \/ i - Len(s) \in DOMAIN t /\ (s \o t)[i] = t[i - Len(s)]
  BY <1>1, <1>2
<1> DEFINE u == s \o t
<1> HIDE DEF u
<1>6. ToSet(u) = ToSet(s) \cup ToSet(t)
  <2>1. ToSet(u) \subseteq ToSet(s) \cup ToSet(t)
    BY <1>5 DEF ToSet, u
  <2>2. ToSet(s) \subseteq ToSet(u)
    BY <1>3 DEF ToSet, u
  <2>3. ToSet(t) \subseteq ToSet(u)
    BY <1>4 DEF ToSet, u
  <2>4. QED
    BY <2>1, <2>2, <2>3
<1>7. ASSUME Distinct(s), Distinct(t), ToSet(s) \cap ToSet(t) = {},
             NEW i \in DOMAIN u, NEW j \in DOMAIN u, u[i] = u[j]
      PROVE  i = j
  <2>1. CASE i \in DOMAIN s /\ u[i] = s[i] /\ j \in DOMAIN s /\ u[j] = s[j]
    BY <1>7, <2>1 DEF Distinct
  <2>2. CASE /\ i - Len(s) \in DOMAIN t /\ u[i] = t[i - Len(s)]
             /\ j - Len(s) \in DOMAIN t /\ u[j] = t[j - Len(s)]
    <3>1. i - Len(s) = j - Len(s)
      BY <1>7, <2>2 DEF Distinct
    <3>2. QED
      BY <1>2, <3>1 DEF u
  <2>3. CASE /\ i \in DOMAIN s /\ u[i] = s[i]
             /\ j - Len(s) \in DOMAIN t /\ u[j] = t[j - Len(s)]
    BY <1>7, <2>3 DEF ToSet
  <2>4. CASE /\ j \in DOMAIN s /\ u[j] = s[j]
             /\ i - Len(s) \in DOMAIN t /\ u[i] = t[i - Len(s)]
    BY <1>7, <2>4 DEF ToSet
  <2>5. QED
    BY <1>5, <2>1, <2>2, <2>3, <2>4 DEF u
<1>8. QED
  BY <1>1, <1>6, <1>7 DEF Distinct, u

(* A sequence that repeats nothing is split in two by a cut. *)
LEMMA SplitElements ==
  ASSUME NEW S, NEW s \in Seq(S), Distinct(s), NEW n \in 0..Len(s)
  PROVE  LET front == SubSeq(s, 1, n)
             back  == SubSeq(s, n + 1, Len(s))
         IN  /\ front \in Seq(S) /\ Len(front) = n /\ Distinct(front)
             /\ back \in Seq(S) /\ Len(back) = Len(s) - n /\ Distinct(back)
             /\ ToSet(front) \cup ToSet(back) = ToSet(s)
             /\ ToSet(front) \cap ToSet(back) = {}
<1> DEFINE front == SubSeq(s, 1, n)
<1> DEFINE back == SubSeq(s, n + 1, Len(s))
<1>1. n \in Int /\ 1 \in Int /\ n + 1 \in Int /\ Len(s) \in Nat /\ n <= Len(s) /\ 0 <= n
  BY LenProperties
<1>2. /\ \A i \in 1..n : s[i] \in S
      /\ \A i \in (n + 1)..Len(s) : s[i] \in S
  BY <1>1, ElementOfSeq
<1>3. /\ front \in Seq(S) /\ Len(front) = n
      /\ \A i \in 1..n : front[i] = s[i]
  BY <1>1, <1>2, SubSeqProperties
<1>4. /\ back \in Seq(S) /\ Len(back) = Len(s) - n
      /\ \A i \in 1..(Len(s) - n) : back[i] = s[n + i]
  BY <1>1, <1>2, SubSeqProperties
<1> HIDE DEF front, back
<1>5. /\ DOMAIN s = 1..Len(s) /\ DOMAIN front = 1..n
      /\ DOMAIN back = 1..(Len(s) - n)
  BY <1>3, <1>4, LenProperties
<1>6. \A i \in DOMAIN front : i \in DOMAIN s /\ front[i] = s[i] /\ i <= n
  BY <1>1, <1>3, <1>5
<1>7. \A i \in DOMAIN back : n + i \in DOMAIN s /\ back[i] = s[n + i] /\ n + i > n
  BY <1>1, <1>4, <1>5
<1>8. \A i \in DOMAIN s :
        \/ i \in DOMAIN front /\ s[i] = front[i]
        \/ i - n \in DOMAIN back /\ s[i] = back[i - n]
  BY <1>1, <1>3, <1>4, <1>5
<1>9. Distinct(front)
  BY <1>6 DEF Distinct
<1>10. Distinct(back)
  <2>1. ASSUME NEW i \in DOMAIN back, NEW j \in DOMAIN back, back[i] = back[j]
        PROVE  i = j
    <3>1. n + i = n + j
      BY <1>7, <2>1 DEF Distinct
    <3>2. QED
      BY <1>1, <1>5, <3>1
  <2>2. QED
    BY <2>1 DEF Distinct
<1>11. ToSet(front) \cup ToSet(back) = ToSet(s)
  <2>1. ToSet(front) \subseteq ToSet(s)
    BY <1>6 DEF ToSet
  <2>2. ToSet(back) \subseteq ToSet(s)
    BY <1>7 DEF ToSet
  <2>3. ToSet(s) \subseteq ToSet(front) \cup ToSet(back)
    BY <1>8 DEF ToSet
  <2>4. QED
    BY <2>1, <2>2, <2>3
<1>12. ToSet(front) \cap ToSet(back) = {}
  <2>1. ASSUME NEW i \in DOMAIN front, NEW j \in DOMAIN back, front[i] = back[j]
        PROVE  FALSE
    <3>1. i = n + j
      BY <1>6, <1>7, <2>1 DEF Distinct
    <3>2. QED
      BY <1>1, <1>5, <1>6, <1>7, <3>1
  <2>2. QED
    BY <2>1 DEF ToSet
<1>13. QED
  BY <1>3, <1>4, <1>9, <1>10, <1>11, <1>12 DEF front, back

(* Reversal keeps what a sequence holds. *)
LEMMA ReverseElements ==
  ASSUME NEW S, NEW s \in Seq(S)
  PROVE  /\ Reverse(s) \in Seq(S)
         /\ ToSet(Reverse(s)) = ToSet(s)
         /\ Distinct(s) => Distinct(Reverse(s))
<1> DEFINE u == Reverse(s)
<1>1. DOMAIN s = 1..Len(s) /\ Len(s) \in Nat
  BY LenProperties
<1>2. u \in Seq(S) /\ DOMAIN u = 1..Len(s) /\ \A i \in 1..Len(s) : u[i] = s[Len(s) - i + 1]
  BY DEF Reverse
<1> HIDE DEF u
<1>3. \A i \in 1..Len(s) : Len(s) - i + 1 \in 1..Len(s)
  BY <1>1
<1>4. \A i \in 1..Len(s) : s[i] = u[Len(s) - i + 1]
  <2>1. ASSUME NEW i \in 1..Len(s) PROVE Len(s) - (Len(s) - i + 1) + 1 = i
    BY <1>1
  <2>2. QED
    BY <1>2, <1>3, <2>1
<1>5. ToSet(u) = ToSet(s)
  <2>1. ToSet(u) \subseteq ToSet(s)
    BY <1>1, <1>2, <1>3 DEF ToSet
  <2>2. ToSet(s) \subseteq ToSet(u)
    BY <1>1, <1>2, <1>3, <1>4 DEF ToSet
  <2>3. QED
    BY <2>1, <2>2
<1>6. ASSUME Distinct(s), NEW i \in DOMAIN u, NEW j \in DOMAIN u, u[i] = u[j]
      PROVE  i = j
  <2>1. Len(s) - i + 1 = Len(s) - j + 1
    BY <1>1, <1>2, <1>3, <1>6 DEF Distinct
  <2>2. QED
    BY <1>1, <1>2, <2>1
<1>7. QED
  BY <1>2, <1>5, <1>6 DEF Distinct, u

(* A sequence without repetition is as long as its set of elements. *)
LEMMA DistinctLength ==
  ASSUME NEW S, NEW s \in Seq(S), Distinct(s)
  PROVE  IsFiniteSet(ToSet(s)) /\ Cardinality(ToSet(s)) = Len(s)
<1> DEFINE D == 1..Len(s)
<1>1. DOMAIN s = D /\ Len(s) \in Nat
  BY LenProperties
<1>2. IsFiniteSet(D) /\ Cardinality(D) = Len(s)
  BY SMTT(30), <1>1, FS_Interval
<1>3. s \in [D -> ToSet(s)]
  BY <1>1, LenProperties DEF ToSet
<1>4. s \in Injection(D, ToSet(s))
  BY <1>1, <1>3 DEF Injection, IsInjective, Distinct
<1>5. s \in Surjection(D, ToSet(s))
  BY <1>1, <1>3 DEF Surjection, ToSet
<1>6. QED
  BY <1>2, <1>4, <1>5, FS_Surjection

-----------------------------------------------------------------------------
(* Queues of request ids, which are natural numbers. *)

Ordered(q) == \A i, j \in DOMAIN q : i < j => q[i] < q[j]

(* What is kept of a sequence keeps its order. *)
Places(at, u, s) ==
  /\ at \in [DOMAIN u -> DOMAIN s]
  /\ \A k \in DOMAIN u : u[k] = s[at[k]]
  /\ \A k, l \in DOMAIN u : k < l => at[k] < at[l]

LEMMA KeptPlaces ==
  ASSUME NEW S, NEW s \in Seq(S), NEW T
  PROVE  \E at : Places(at, Kept(s, T), s)
<1> DEFINE I == {i \in DOMAIN s : s[i] \in T}
<1> DEFINE n == Cardinality(I)
<1> DEFINE at == [k \in 1..n |-> CHOOSE i \in I : Rank(I, i) = k]
<1>1. DOMAIN s = 1..Len(s) /\ Len(s) \in Nat
  BY LenProperties
<1>2. I \in SUBSET Nat /\ I \subseteq 1..Len(s)
  BY <1>1
<1>3. IsFiniteSet(I) /\ n \in Nat
  <2>1. IsFiniteSet(1..Len(s))
    BY <1>1, FS_Interval
  <2>2. IsFiniteSet(I)
    BY <1>2, <2>1, FS_Subset
  <2>3. QED
    BY <2>2, FS_CardinalityType
<1>4. ASSUME NEW k \in 1..n PROVE at[k] \in I /\ Rank(I, at[k]) = k
  <2>1. \E i \in I : Rank(I, i) = k
    BY <1>2, <1>3, RankSurjective
  <2>2. QED
    BY <2>1
<1>5. Kept(s, T) = [k \in 1..n |-> s[at[k]]]
  BY DEF Kept
<1>6. at \in [1..n -> DOMAIN s]
  BY <1>4
<1> HIDE DEF at, n
<1>7. ASSUME NEW k \in 1..n, NEW l \in 1..n, k < l PROVE at[k] < at[l]
  <2>1. at[k] \in I /\ at[l] \in I /\ at[k] \in Nat /\ at[l] \in Nat
    BY <1>2, <1>4
  <2>2. CASE at[k] = at[l]
    <3>1. k = l
      BY <1>4, <2>2
    <3>2. QED
      BY <1>3, <1>7, <3>1
  <2>3. CASE at[l] < at[k]
    <3>1. Rank(I, at[l]) < Rank(I, at[k])
      BY <1>2, <1>3, <2>1, <2>3, RankMono
    <3>2. l < k
      BY <1>4, <3>1
    <3>3. QED
      BY <1>3, <1>7, <3>2
  <2>4. QED
    BY <2>1, <2>2, <2>3
<1>8. Places(at, Kept(s, T), s)
  BY <1>5, <1>6, <1>7 DEF Places
<1>9. QED
  BY <1>8

(* A request taken out of a queue. *)
LEMMA WithoutProperties ==
  ASSUME NEW q \in Seq(Nat), NEW r, NEW left, left = Kept(q, ToSet(q) \ {r})
  PROVE  /\ left \in Seq(Nat) /\ ToSet(left) = ToSet(q) \ {r}
         /\ Ordered(q) => Ordered(left)
<1>1. left \in Seq(Nat) /\ ToSet(left) = ToSet(q) \ {r}
  BY KeptProperties
<1>2. ASSUME Ordered(q) PROVE Ordered(left)
  <2>1. PICK at : Places(at, left, q)
    BY KeptPlaces
  <2>2. ASSUME NEW i \in DOMAIN left, NEW j \in DOMAIN left, i < j
        PROVE  left[i] < left[j]
    <3>1. /\ at[i] \in DOMAIN q /\ at[j] \in DOMAIN q /\ at[i] < at[j]
          /\ left[i] = q[at[i]] /\ left[j] = q[at[j]]
      BY ONLY <2>1, <2>2 DEF Places
    <3>2. QED
      BY ONLY <1>2, <3>1 DEF Ordered
  <2>3. QED
    BY ONLY <2>2 DEF Ordered
<1>3. QED
  BY <1>1, <1>2

(* A request that comes after everything in a queue goes to its end. *)
LEMMA AppendOrdered ==
  ASSUME NEW q \in Seq(Nat), Ordered(q), NEW r \in Nat, \A x \in ToSet(q) : x < r,
         NEW more, more = Append(q, r)
  PROVE  more \in Seq(Nat) /\ ToSet(more) = ToSet(q) \cup {r} /\ Ordered(more)
<1>1. /\ more \in Seq(Nat) /\ Len(more) = Len(q) + 1 /\ Len(q) \in Nat
      /\ \A i \in 1..Len(q) : more[i] = q[i]
      /\ more[Len(q) + 1] = r
  BY AppendProperties, LenProperties
<1>2. DOMAIN q = 1..Len(q) /\ DOMAIN more = 1..(Len(q) + 1)
  BY <1>1, LenProperties
<1>3. \A i \in DOMAIN more : (i \in DOMAIN q /\ more[i] = q[i]) \/ (i = Len(q) + 1 /\ more[i] = r)
  BY <1>1, <1>2
<1>4. ToSet(more) = ToSet(q) \cup {r}
  <2>1. ToSet(more) \subseteq ToSet(q) \cup {r}
    BY <1>3 DEF ToSet
  <2>2. ToSet(q) \subseteq ToSet(more)
    BY <1>1, <1>2 DEF ToSet
  <2>3. r \in ToSet(more)
    BY <1>1, <1>2 DEF ToSet
  <2>4. QED
    BY <2>1, <2>2, <2>3
<1>5. ASSUME NEW i \in DOMAIN more, NEW j \in DOMAIN more, i < j PROVE more[i] < more[j]
  <2>1. i \in DOMAIN q /\ more[i] = q[i] /\ q[i] \in ToSet(q)
    BY <1>1, <1>2, <1>3, <1>5 DEF ToSet
  <2>2. CASE j \in DOMAIN q /\ more[j] = q[j]
    BY <1>5, <2>1, <2>2 DEF Ordered
  <2>3. CASE j = Len(q) + 1 /\ more[j] = r
    BY <2>1, <2>3
  <2>4. QED
    BY <1>3, <2>2, <2>3
<1>6. QED
  BY <1>1, <1>4, <1>5 DEF Ordered

(* A request that comes before everything in a queue goes to its head. *)
LEMMA PrependOrdered ==
  ASSUME NEW q \in Seq(Nat), Ordered(q), NEW r \in Nat, \A x \in ToSet(q) : r < x,
         NEW more, more = <<r>> \o q
  PROVE  more \in Seq(Nat) /\ ToSet(more) = ToSet(q) \cup {r} /\ Ordered(more)
<1>1. <<r>> \in Seq(Nat) /\ Len(<<r>>) = 1 /\ ToSet(<<r>>) = {r}
  BY DEF ToSet
<1>2. /\ more \in Seq(Nat) /\ Len(more) = Len(q) + 1 /\ Len(q) \in Nat
      /\ ToSet(more) = {r} \cup ToSet(q)
  <2>1. /\ more \in Seq(Nat) /\ Len(more) = Len(<<r>>) + Len(q)
        /\ ToSet(more) = ToSet(<<r>>) \cup ToSet(q)
    <3>1. ASSUME NEW s \in Seq(Nat), NEW t \in Seq(Nat)
          PROVE  /\ s \o t \in Seq(Nat) /\ Len(s \o t) = Len(s) + Len(t)
                 /\ ToSet(s \o t) = ToSet(s) \cup ToSet(t)
      BY <3>1, ConcatElements
    <3>2. QED
      BY <1>1, <3>1
  <2>2. Len(q) \in Nat
    BY LenProperties
  <2>3. Len(more) = Len(q) + 1
    BY ONLY <1>1, <2>1, <2>2
  <2>4. ToSet(more) = {r} \cup ToSet(q)
    BY ONLY <1>1, <2>1
  <2>5. QED
    BY ONLY <2>1, <2>2, <2>3, <2>4
<1>3. \A i \in 1..(Len(q) + 1) : more[i] = IF i <= 1 THEN r ELSE q[i - 1]
  BY <1>1, ConcatProperties
<1>4. DOMAIN q = 1..Len(q) /\ DOMAIN more = 1..(Len(q) + 1)
  BY <1>2, LenProperties
<1>5. \A i \in DOMAIN more : \/ i = 1 /\ more[i] = r
                             \/ i > 1 /\ i - 1 \in DOMAIN q /\ more[i] = q[i - 1]
  BY <1>2, <1>3, <1>4
<1>6. ASSUME NEW i \in DOMAIN more, NEW j \in DOMAIN more, i < j PROVE more[i] < more[j]
  <2>1. j - 1 \in DOMAIN q /\ more[j] = q[j - 1] /\ q[j - 1] \in ToSet(q)
    BY <1>2, <1>4, <1>5, <1>6 DEF ToSet
  <2>2. CASE i = 1 /\ more[i] = r
    BY <2>1, <2>2
  <2>3. CASE i - 1 \in DOMAIN q /\ more[i] = q[i - 1]
    <3>1. i - 1 < j - 1
      BY <1>2, <1>4, <1>6
    <3>2. QED
      BY <2>1, <2>3, <3>1 DEF Ordered
  <2>4. QED
    BY <1>5, <2>2, <2>3
<1>7. QED
  BY <1>2, <1>6 DEF Ordered

(* The head of a queue leaves it. *)
LEMMA TailOrdered ==
  ASSUME NEW q \in Seq(Nat), q # << >>, Ordered(q), NEW rest, rest = Tail(q)
  PROVE  /\ Head(q) \in ToSet(q)
         /\ rest \in Seq(Nat) /\ ToSet(rest) = ToSet(q) \ {Head(q)} /\ Ordered(rest)
         /\ \A x \in ToSet(rest) : Head(q) < x
<1>1. /\ rest \in Seq(Nat) /\ Len(rest) = Len(q) - 1 /\ Len(q) \in Nat \ {0}
      /\ \A i \in 1..(Len(q) - 1) : rest[i] = q[i + 1]
  BY HeadTailProperties, EmptySeq
<1>2. DOMAIN q = 1..Len(q) /\ DOMAIN rest = 1..(Len(q) - 1) /\ Head(q) = q[1]
  BY <1>1, LenProperties
<1>3. \A i \in DOMAIN rest : i + 1 \in DOMAIN q /\ rest[i] = q[i + 1] /\ i + 1 > 1
  BY <1>1, <1>2
<1>4. \A i \in DOMAIN q : i = 1 \/ (i - 1 \in DOMAIN rest /\ q[i] = rest[i - 1])
  BY <1>1, <1>2
<1>5. 1 \in DOMAIN q /\ Head(q) \in ToSet(q)
  BY <1>1, <1>2 DEF ToSet
<1>6. \A x \in ToSet(rest) : Head(q) < x
  <2>1. ASSUME NEW i \in DOMAIN rest PROVE q[1] < rest[i]
    BY <1>2, <1>3, <1>5 DEF Ordered
  <2>2. QED
    BY <1>2, <2>1 DEF ToSet
<1>7. Head(q) \in Nat /\ ~(Head(q) < Head(q))
  <2>1. Head(q) \in Nat
    BY HeadTailProperties
  <2>2. Head(q) \in Nat
    BY <2>1
  <2>3. QED
    BY <2>2
<1>8. ToSet(rest) = ToSet(q) \ {Head(q)}
  <2>1. ToSet(rest) \subseteq ToSet(q)
    BY <1>3 DEF ToSet
  <2>2. ToSet(q) \ {Head(q)} \subseteq ToSet(rest)
    <3>1. ASSUME NEW x \in ToSet(q), x # Head(q) PROVE x \in ToSet(rest)
      <4>1. PICK i \in DOMAIN q : x = q[i]
        BY DEF ToSet
      <4>2. i - 1 \in DOMAIN rest /\ x = rest[i - 1]
        BY <1>2, <1>4, <3>1, <4>1
      <4>3. QED
        BY <4>2 DEF ToSet
    <3>2. QED
      BY <3>1
  <2>3. QED
    BY <1>6, <1>7, <2>1, <2>2
<1>9. Ordered(rest)
  <2>1. ASSUME NEW i \in DOMAIN rest, NEW j \in DOMAIN rest, i < j PROVE rest[i] < rest[j]
    <3>1. i + 1 < j + 1
      BY <1>1, <1>2, <2>1
    <3>2. QED
      BY <1>3, <3>1 DEF Ordered
  <2>2. QED
    BY <2>1 DEF Ordered
<1>10. QED
  BY <1>1, <1>5, <1>6, <1>8, <1>9

(* The insort of a request that comes after everything is an append. *)
LEMMA InsortLast ==
  ASSUME NEW q \in Seq(Nat), NEW r \in Nat, \A x \in ToSet(q) : x < r
  PROVE  InsertAt(q, Cardinality({i \in DOMAIN q : q[i] < r}) + 1, r) = Append(q, r)
<1>1. DOMAIN q = 1..Len(q) /\ Len(q) \in Nat
  BY LenProperties
<1>2. {i \in DOMAIN q : q[i] < r} = 1..Len(q)
  BY <1>1 DEF ToSet
<1>3. Cardinality(1..Len(q)) = Len(q)
  BY <1>1, SizeOfInterval
<1> DEFINE put == InsertAt(q, Cardinality({i \in DOMAIN q : q[i] < r}) + 1, r)
<1>4. put = SubSeq(q, 1, Len(q)) \o <<r>> \o SubSeq(q, Len(q) + 1, Len(q))
  <2>1. put = InsertAt(q, Len(q) + 1, r)
    BY <1>2, <1>3
  <2>2. Len(q) + 1 - 1 = Len(q)
    BY <1>1
  <2> HIDE DEF put
  <2>3. QED
    BY <2>1, <2>2 DEF InsertAt
<1>5. SubSeq(q, 1, Len(q)) = q
  BY SubSeqFull
<1>6. SubSeq(q, Len(q) + 1, Len(q)) = << >>
  BY <1>1, SubSeqEmpty
<1>7. Append(q, r) = q \o <<r>> /\ q \o <<r>> \in Seq(Nat)
  BY AppendIsConcat, AppendProperties
<1>8. QED
  BY <1>4, <1>5, <1>6, <1>7, ConcatEmptySeq

(* Preemption takes the last of an ordered queue: the rest stays in place. *)
LEMMA WithoutLast ==
  ASSUME NEW q \in Seq(Nat), q # << >>, Ordered(q)
  PROVE  Kept(q, ToSet(q) \ {Last(q)}) = SubSeq(q, 1, Len(q) - 1)
<1> DEFINE n == Len(q) - 1
<1> DEFINE T == ToSet(q) \ {Last(q)}
<1>1. DOMAIN q = 1..Len(q) /\ Len(q) \in Nat \ {0} /\ n \in Nat /\ Len(q) = n + 1
  BY LenProperties, EmptySeq
<1>2. ASSUME NEW i \in 1..n PROVE q[i] \in T
  <2>1. i \in DOMAIN q /\ Len(q) \in DOMAIN q /\ i < Len(q)
    BY <1>1
  <2>2. q[i] < q[Len(q)] /\ q[Len(q)] \in Nat /\ q[i] \in ToSet(q)
    BY <2>1 DEF Ordered, ToSet
  <2>3. q[Len(q)] \in Nat
    BY <2>2
  <2>4. q[i] # q[Len(q)]
    BY <2>2, <2>3
  <2>5. QED
    BY <2>2, <2>4 DEF Last
<1>3. {i \in DOMAIN q : q[i] \in T} = 1..n
  <2>1. q[Len(q)] \notin T
    BY DEF Last
  <2>2. QED
    BY <1>1, <1>2, <2>1
<1>4. IsFiniteSet(1..n) /\ Cardinality(1..n) = n
  BY <1>1, SizeOfInterval
<1>5. ASSUME NEW i \in 1..n PROVE Rank(1..n, i) = i
  <2>1. {j \in 1..n : j <= i} = 1..i /\ i \in Nat \ {0}
    BY <1>1
  <2>2. Cardinality(1..i) = i
    BY <2>1, SizeOfInterval
  <2>3. QED
    BY <2>1, <2>2 DEF Rank
<1>6. ASSUME NEW k \in 1..n PROVE (CHOOSE i \in 1..n : Rank(1..n, i) = k) = k
  BY <1>5
<1>7. Kept(q, T) = [k \in 1..n |-> q[CHOOSE i \in 1..n : Rank(1..n, i) = k]]
  <2> DEFINE I == {i \in DOMAIN q : q[i] \in T}
  <2>1. Kept(q, T) = [k \in 1..Cardinality(I) |-> q[CHOOSE i \in I : Rank(I, i) = k]]
    BY DEF Kept
  <2>2. I = 1..n
    BY <1>3
  <2> HIDE DEF I, n, T
  <2>3. Cardinality(I) = n
    BY <1>4, <2>2
  <2>4. QED
    BY <2>1, <2>2, <2>3
<1>8. Kept(q, T) = [k \in 1..n |-> q[k]]
  BY <1>6, <1>7
<1>9. /\ SubSeq(q, 1, n) \in Seq(Nat) /\ Len(SubSeq(q, 1, n)) = n
      /\ \A i \in 1..n : SubSeq(q, 1, n)[i] = q[i]
  <2>1. \A i \in 1..n : q[i] \in Nat
    BY <1>1, ElementOfSeq
  <2>2. QED
    BY <1>1, <2>1, SubSeqProperties
<1>10. Kept(q, T) \in Seq(Nat) /\ Len(Kept(q, T)) = n
  <2>1. Kept(q, T) \in Seq(Nat)
    BY KeptProperties
  <2>2. DOMAIN Kept(q, T) = 1..n
    BY <1>8
  <2> HIDE DEF T, n
  <2>3. Len(Kept(q, T)) = n
    BY <1>1, <2>1, <2>2, LenProperties
  <2>4. QED
    BY <2>1, <2>3
<1> HIDE DEF n, T
<1>11. \A i \in 1..n : Kept(q, T)[i] = SubSeq(q, 1, n)[i]
  BY <1>8, <1>9
<1>12. Kept(q, T) = SubSeq(q, 1, n)
  BY <1>9, <1>10, <1>11, SeqEqual
<1>13. QED
  BY <1>12 DEF T, n

-----------------------------------------------------------------------------
(* Sequences of sequences, one after the other. *)

(* The recursion that FlattenSeq runs. *)
FlattenRun(f, seqs) ==
  f = [i \in 1..Len(seqs) |-> IF i = 1 THEN seqs[i] ELSE f[i - 1] \o seqs[i]]

LEMMA FlattenRunExists ==
  ASSUME NEW seqs, NEW n \in Nat
  PROVE  \E f : f = [i \in 1..n |-> IF i = 1 THEN seqs[i] ELSE f[i - 1] \o seqs[i]]
<1> DEFINE Upto(f, m) == f = [i \in 1..m |-> IF i = 1 THEN seqs[i] ELSE f[i - 1] \o seqs[i]]
<1> DEFINE M == {m \in Nat : ~\E f : Upto(f, m)}
<1>1. SUFFICES ASSUME M # {} PROVE FALSE
  BY <1>1
<1>2. PICK m \in M : \A i \in M : m <= i
  <2>1. M \in SUBSET Nat
    OBVIOUS
  <2>2. QED
    BY <1>1, <2>1, LeastElement
<1>3. m \in Nat /\ ~\E f : Upto(f, m)
  BY <1>2
<1>4. CASE m = 0
  <2>1. Upto([i \in 1..0 |-> 0], 0)
    OBVIOUS
  <2>2. QED
    BY <1>3, <1>4, <2>1
<1>5. CASE m # 0
  <2>1. m - 1 \in Nat /\ m - 1 \notin M
    <3> HIDE DEF M
    <3>1. QED
      BY <1>2, <1>3, <1>5
  <2>2. PICK f : Upto(f, m - 1)
    BY <2>1
  <2> DEFINE g == [i \in 1..m |-> IF i < m THEN f[i]
                                  ELSE IF m = 1 THEN seqs[m] ELSE f[m - 1] \o seqs[m]]
  <2>3. ASSUME NEW i \in 1..m
        PROVE  g[i] = IF i = 1 THEN seqs[i] ELSE g[i - 1] \o seqs[i]
    <3>1. CASE i = m
      BY <1>5, <2>1, <3>1
    <3>2. CASE i # m
      <4>1. i \in 1..(m - 1) /\ g[i] = f[i]
        BY <1>3, <3>2
      <4>2. f[i] = IF i = 1 THEN seqs[i] ELSE f[i - 1] \o seqs[i]
        BY <2>2, <4>1
      <4>3. i # 1 => g[i - 1] = f[i - 1]
        BY <1>3, <4>1
      <4>4. QED
        BY <4>1, <4>2, <4>3
    <3>3. QED
      BY <3>1, <3>2
  <2>4. g = [i \in 1..m |-> g[i]]
    OBVIOUS
  <2> HIDE DEF g
  <2>5. Upto(g, m)
    BY <2>3, <2>4
  <2>6. QED
    BY <1>3, <2>5
<1>6. QED
  BY <1>4, <1>5

(* What is flattened up to each place. *)
FlattenedTo(f, seqs, X) ==
  /\ f[1] = seqs[1] /\ FlattenSeq(seqs) = f[Len(seqs)]
  /\ \A i \in 1..Len(seqs) : f[i] \in Seq(X) /\ (i # 1 => f[i] = f[i - 1] \o seqs[i])

LEMMA Flattened ==
  ASSUME NEW X, NEW seqs \in Seq(Seq(X)), Len(seqs) # 0
  PROVE  \E f : FlattenedTo(f, seqs, X)
<1> DEFINE f == CHOOSE f : FlattenRun(f, seqs)
<1>1. Len(seqs) \in Nat \ {0} /\ \A i \in 1..Len(seqs) : seqs[i] \in Seq(X)
  BY LenProperties, ElementOfSeq
<1>2. FlattenSeq(seqs) = f[Len(seqs)]
  BY <1>1 DEF FlattenSeq, FlattenRun
<1>3. FlattenRun(f, seqs)
  <2>1. \E g : FlattenRun(g, seqs)
    BY <1>1, FlattenRunExists DEF FlattenRun
  <2>2. QED
    BY <2>1
<1> HIDE DEF f
<1>4. \A i \in 1..Len(seqs) : f[i] = IF i = 1 THEN seqs[i] ELSE f[i - 1] \o seqs[i]
  BY <1>3, Zenon DEF FlattenRun
<1> DEFINE M == {i \in 1..Len(seqs) : f[i] \notin Seq(X)}
<1>5. M = {}
  <2>1. SUFFICES ASSUME M # {} PROVE FALSE
    OBVIOUS
  <2>2. PICK m \in M : \A i \in M : m <= i
    <3>1. M \in SUBSET Nat
      BY <1>1
    <3>2. QED
      BY <2>1, <3>1, LeastElement
  <2>3. m \in 1..Len(seqs) /\ f[m] \notin Seq(X)
    BY <2>2
  <2>4. m # 1
    BY <1>1, <1>4, <2>3
  <2>5. m - 1 \in 1..Len(seqs) /\ ~(m <= m - 1)
    BY ONLY <1>1, <2>3, <2>4
  <2>6. m - 1 \notin M
    <3> HIDE DEF M
    <3>1. QED
      BY <2>2, <2>5
  <2>7. f[m - 1] \in Seq(X) /\ seqs[m] \in Seq(X) /\ f[m] = f[m - 1] \o seqs[m]
    BY <1>1, <1>4, <2>3, <2>4, <2>5, <2>6
  <2>8. QED
    BY ONLY <2>3, <2>7, ConcatProperties
<1>6. FlattenedTo(f, seqs, X)
  <2>1. 1 \in 1..Len(seqs)
    BY <1>1
  <2>2. QED
    BY <1>2, <1>4, <1>5, <2>1 DEF FlattenedTo
<1>7. QED
  BY <1>6
=============================================================================
