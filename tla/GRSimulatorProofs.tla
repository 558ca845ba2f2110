------------------------- MODULE GRSimulatorProofs -------------------------
(***************************************************************************)
(* The tiers of GRSimulator: what they account for is what they hold, a    *)
(* plan can be carried out when its service ends, a plan evicts what LRU-K *)
(* says, and what a tier holds of a user is the snapshot of the user's     *)
(* last service, published whole.  First what a sum over a set of users is *)
(* (FoldSet), then the histories, one tier, and the server; then what the  *)
(* operators of a stage publish, and the snapshots.                        *)
(***************************************************************************)
EXTENDS GRSimulator, QueueLemmas

-----------------------------------------------------------------------------
(* Sums of bytes. *)

(* The objects of T have sizes. *)
Weighed(tier, T) == IsFiniteSet(T) /\ \A u \in T : tier.entries[u].bytes \in Nat

(* The recursion that BytesOf runs. *)
SumRun(g, tier, T) ==
  g = [s \in SUBSET T |->
         IF s = {} THEN 0
         ELSE LET x == CHOOSE x \in s : TRUE IN g[s \ {x}] + tier.entries[x].bytes]

LEMMA BytesOfRun ==
  ASSUME NEW tier, NEW T
  PROVE  BytesOf(tier, T) = (CHOOSE g : SumRun(g, tier, T))[T]
BY DEF BytesOf, FoldSet, MapThenFoldSet, SumRun

LEMMA SumRunExists ==
  ASSUME NEW tier, NEW T, Weighed(tier, T)
  PROVE  \E g : SumRun(g, tier, T)
<1> DEFINE F == [p \in T \X Nat |-> p[2] + tier.entries[p[1]].bytes]
<1> DEFINE c == [s \in SUBSET T |-> CHOOSE x \in s : TRUE]
<1>1. IsFiniteSet(T) /\ \A u \in T : tier.entries[u].bytes \in Nat
  BY DEF Weighed
<1>2. F \in [T \X Nat -> Nat]
  BY <1>1
<1>3. \A s \in SUBSET T : s # {} => c[s] \in s
  OBVIOUS
<1>4. PICK g \in [SUBSET T -> Nat] : Recursion(g, T, 0, F, c)
  <2>1. 0 \in Nat
    OBVIOUS
  <2> HIDE DEF F, c
  <2>2. QED
    BY <1>1, <1>2, <1>3, <2>1, RecursionExists
<1>5. ASSUME NEW s \in SUBSET T
      PROVE  g[s] = IF s = {} THEN 0
                    ELSE LET x == CHOOSE x \in s : TRUE IN g[s \ {x}] + tier.entries[x].bytes
  <2>0. g[s] = IF s = {} THEN 0 ELSE F[<<c[s], g[s \ {c[s]}]>>]
    <3> HIDE DEF F, c
    <3>1. QED
      BY <1>4 DEF Recursion
  <2>1. CASE s = {}
    BY <2>0, <2>1
  <2>2. CASE s # {}
    <3>1. c[s] \in T /\ g[s \ {c[s]}] \in Nat
      BY <1>3, <2>2
    <3>2. F[<<c[s], g[s \ {c[s]}]>>] = g[s \ {c[s]}] + tier.entries[c[s]].bytes
      <4> HIDE DEF c
      <4>1. QED
        BY <3>1
    <3>3. g[s] = g[s \ {c[s]}] + tier.entries[c[s]].bytes
      BY <2>0, <2>2, <3>2
    <3>4. c[s] = CHOOSE x \in s : TRUE
      OBVIOUS
    <3>5. QED
      BY <2>2, <3>3, <3>4
  <2>3. QED
    BY <2>1, <2>2
<1>6. SumRun(g, tier, T)
  BY <1>5 DEF SumRun
<1>7. QED
  BY <1>6

(* One step of the recursion. *)
LEMMA SumRunStep ==
  ASSUME NEW tier, NEW T, NEW g, SumRun(g, tier, T), NEW s \in SUBSET T
  PROVE  /\ s = {} => g[s] = 0
         /\ s # {} => \E x \in s : /\ x = CHOOSE y \in s : TRUE
                                   /\ g[s] = g[s \ {x}] + tier.entries[x].bytes
<1>1. g[s] = IF s = {} THEN 0
             ELSE LET x == CHOOSE x \in s : TRUE IN g[s \ {x}] + tier.entries[x].bytes
  BY Zenon DEF SumRun
<1>2. QED
  BY <1>1

(* The sum depends on the sizes of what is summed, not on the rest of the  *)
(* tier nor on the set that the recursion started with.                    *)
LEMMA SumRunsAgree ==
  ASSUME NEW tier, NEW T, NEW g, SumRun(g, tier, T), IsFiniteSet(T),
         NEW other, NEW U, NEW h, SumRun(h, other, U), T \subseteq U,
         \A u \in T : tier.entries[u].bytes = other.entries[u].bytes
  PROVE  \A s \in SUBSET T : g[s] = h[s]
<1> DEFINE Good == {s \in SUBSET T : g[s] = h[s]}
<1>1. ASSUME NEW s \in SUBSET T, \A x \in s : s \ {x} \in Good PROVE s \in Good
  <2>1. CASE s = {}
    <3>1. g[s] = 0 /\ h[s] = 0
      BY <2>1, SumRunStep
    <3>2. QED
      BY <3>1
  <2>2. CASE s # {}
    <3>1. PICK x \in s : /\ x = CHOOSE y \in s : TRUE
                         /\ g[s] = g[s \ {x}] + tier.entries[x].bytes
      BY <2>2, SumRunStep
    <3>2. s \in SUBSET U
      OBVIOUS
    <3>3. PICK y \in s : /\ y = CHOOSE z \in s : TRUE
                         /\ h[s] = h[s \ {y}] + other.entries[y].bytes
      BY <2>2, <3>2, SumRunStep
    <3>4. x = y /\ g[s \ {x}] = h[s \ {x}] /\ x \in T
      BY <1>1, <3>1, <3>3
    <3>5. QED
      BY <3>1, <3>3, <3>4
  <2>3. QED
    BY <2>1, <2>2
<1>2. SUBSET T \subseteq Good
  <2>1. Hereditary(T, Good)
    BY <1>1 DEF Hereditary
  <2> HIDE DEF Good
  <2>2. QED
    BY <2>1, SubsetInduction
<1>3. QED
  BY <1>2

(* Tiers that agree on T have as much of T. *)
LEMMA BytesAgree ==
  ASSUME NEW tier, NEW other, NEW T, Weighed(tier, T),
         \A u \in T : tier.entries[u].bytes = other.entries[u].bytes
  PROVE  BytesOf(tier, T) = BytesOf(other, T) /\ Weighed(other, T)
<1>1. Weighed(other, T) /\ IsFiniteSet(T)
  BY DEF Weighed
<1> DEFINE g == CHOOSE g : SumRun(g, tier, T)
<1> DEFINE h == CHOOSE h : SumRun(h, other, T)
<1>2. SumRun(g, tier, T) /\ SumRun(h, other, T)
  BY <1>1, SumRunExists
<1> HIDE DEF g, h
<1>3. g[T] = h[T]
  BY <1>1, <1>2, SumRunsAgree
<1>4. QED
  BY <1>1, <1>3, BytesOfRun DEF g, h

(* One object more. *)
LEMMA BytesStep ==
  ASSUME NEW tier, NEW T, Weighed(tier, T)
  PROVE  /\ T = {} => BytesOf(tier, T) = 0
         /\ T # {} => \E x \in T : BytesOf(tier, T) = BytesOf(tier, T \ {x}) + tier.entries[x].bytes
<1> DEFINE g == CHOOSE g : SumRun(g, tier, T)
<1>1. SumRun(g, tier, T)
  BY SumRunExists
<1>2. BytesOf(tier, T) = g[T]
  BY BytesOfRun
<1> HIDE DEF g
<1>3. CASE T = {}
  BY <1>1, <1>2, <1>3, SumRunStep
<1>4. CASE T # {}
  <2>1. PICK x \in T : g[T] = g[T \ {x}] + tier.entries[x].bytes
    BY <1>1, <1>4, SumRunStep
  <2> DEFINE h == CHOOSE h : SumRun(h, tier, T \ {x})
  <2>2. Weighed(tier, T \ {x}) /\ IsFiniteSet(T \ {x})
    BY FS_Subset DEF Weighed
  <2>3. SumRun(h, tier, T \ {x})
    BY <2>2, SumRunExists
  <2>4. BytesOf(tier, T \ {x}) = h[T \ {x}]
    BY BytesOfRun
  <2> HIDE DEF h
  <2>5. h[T \ {x}] = g[T \ {x}]
    BY <1>1, <2>2, <2>3, SumRunsAgree
  <2>6. QED
    BY <1>2, <1>4, <2>1, <2>4, <2>5
<1>5. QED
  BY <1>3, <1>4

(* What is weighed has weighed parts. *)
LEMMA WeighedPart ==
  ASSUME NEW tier, NEW T, Weighed(tier, T), NEW A \in SUBSET T
  PROVE  Weighed(tier, A)
BY FS_Subset DEF Weighed

LEMMA BytesType ==
  ASSUME NEW tier, NEW T, Weighed(tier, T)
  PROVE  BytesOf(tier, T) \in Nat
<1> DEFINE Good == {s \in SUBSET T : BytesOf(tier, s) \in Nat}
<1>1. ASSUME NEW s \in SUBSET T, \A x \in s : s \ {x} \in Good PROVE s \in Good
  <2>1. Weighed(tier, s)
    BY WeighedPart
  <2>2. CASE s = {}
    BY <2>1, <2>2, BytesStep
  <2>3. CASE s # {}
    <3>1. PICK x \in s : BytesOf(tier, s) = BytesOf(tier, s \ {x}) + tier.entries[x].bytes
      BY <2>1, <2>3, BytesStep
    <3>2. BytesOf(tier, s \ {x}) \in Nat /\ tier.entries[x].bytes \in Nat
      BY <1>1, <2>1 DEF Weighed
    <3>3. QED
      BY <3>1, <3>2
  <2>4. QED
    BY <2>2, <2>3
<1>2. SUBSET T \subseteq Good
  <2>1. IsFiniteSet(T)
    BY DEF Weighed
  <2>2. Hereditary(T, Good)
    BY <1>1 DEF Hereditary
  <2> HIDE DEF Good
  <2>3. QED
    BY <2>1, <2>2, SubsetInduction
<1>3. QED
  BY <1>2

(* It does not matter which object is taken away. *)
LEMMA BytesRemove ==
  ASSUME NEW tier, NEW T, Weighed(tier, T), NEW u \in T
  PROVE  BytesOf(tier, T) = BytesOf(tier, T \ {u}) + tier.entries[u].bytes
<1> DEFINE Loses(s, v) == BytesOf(tier, s) = BytesOf(tier, s \ {v}) + tier.entries[v].bytes
<1> DEFINE Good == {s \in SUBSET T : \A v \in s : Loses(s, v)}
<1>1. ASSUME NEW s \in SUBSET T, \A x \in s : s \ {x} \in Good, NEW v \in s PROVE Loses(s, v)
  <2>1. Weighed(tier, s) /\ s # {}
    BY WeighedPart
  <2>2. PICK x \in s : Loses(s, x)
    BY <2>1, BytesStep
  <2>3. CASE x = v
    BY <2>2, <2>3
  <2>4. CASE x # v
    <3> DEFINE r == (s \ {x}) \ {v}
    <3>1. Loses(s \ {x}, v) /\ Loses(s \ {v}, x)
      BY <1>1, <2>4
    <3>2. (s \ {v}) \ {x} = r /\ r \in SUBSET T
      OBVIOUS
    <3>3. BytesOf(tier, r) \in Nat
      BY <3>2, WeighedPart, BytesType
    <3>4. tier.entries[x].bytes \in Nat /\ tier.entries[v].bytes \in Nat
      BY <2>1 DEF Weighed
    <3>5. /\ BytesOf(tier, s \ {x}) = BytesOf(tier, r) + tier.entries[v].bytes
          /\ BytesOf(tier, s \ {v}) = BytesOf(tier, r) + tier.entries[x].bytes
      BY <3>1, <3>2
    <3>6. QED
      BY ONLY <2>2, <3>3, <3>4, <3>5
  <2>5. QED
    BY <2>3, <2>4
<1>2. SUBSET T \subseteq Good
  <2>1. IsFiniteSet(T)
    BY DEF Weighed
  <2>2. Hereditary(T, Good)
    BY <1>1 DEF Hereditary
  <2> HIDE DEF Good
  <2>3. QED
    BY <2>1, <2>2, SubsetInduction
<1>3. QED
  BY <1>2

(* Sums of parts that share nothing. *)
LEMMA BytesSplit ==
  ASSUME NEW tier, NEW T, Weighed(tier, T), NEW A \in SUBSET T
  PROVE  BytesOf(tier, T) = BytesOf(tier, A) + BytesOf(tier, T \ A)
<1> DEFINE Good == {s \in SUBSET (T \ A) :
                      BytesOf(tier, A \cup s) = BytesOf(tier, A) + BytesOf(tier, s)}
<1>1. BytesOf(tier, A) \in Nat
  BY WeighedPart, BytesType
<1>2. ASSUME NEW s \in SUBSET (T \ A), \A x \in s : s \ {x} \in Good PROVE s \in Good
  <2>1. Weighed(tier, s) /\ Weighed(tier, A \cup s) /\ A \cup s \in SUBSET T
    BY WeighedPart
  <2>2. CASE s = {}
    <3>1. A \cup s = A /\ BytesOf(tier, s) = 0
      BY <2>1, <2>2, BytesStep
    <3>2. BytesOf(tier, A \cup s) = BytesOf(tier, A) + BytesOf(tier, s)
      <4>1. BytesOf(tier, A) = BytesOf(tier, A) + 0
        BY ONLY <1>1
      <4>2. QED
        BY <3>1, <4>1
    <3>3. QED
      BY <3>2
  <2>3. CASE s # {}
    <3>1. PICK x \in s : TRUE
      BY <2>3
    <3>2. (A \cup s) \ {x} = A \cup (s \ {x})
      OBVIOUS
    <3>3. BytesOf(tier, A \cup s) = BytesOf(tier, A \cup (s \ {x})) + tier.entries[x].bytes
      BY <2>1, <3>1, <3>2, BytesRemove
    <3>4. BytesOf(tier, s) = BytesOf(tier, s \ {x}) + tier.entries[x].bytes
      BY <2>1, <3>1, BytesRemove
    <3>5. BytesOf(tier, A \cup (s \ {x})) = BytesOf(tier, A) + BytesOf(tier, s \ {x})
      BY <1>2, <3>1
    <3>6. BytesOf(tier, s \ {x}) \in Nat /\ tier.entries[x].bytes \in Nat
      BY <2>1, <3>1, WeighedPart, BytesType DEF Weighed
    <3>7. BytesOf(tier, A \cup s) = BytesOf(tier, A) + BytesOf(tier, s)
      BY ONLY <1>1, <3>3, <3>4, <3>5, <3>6
    <3>8. QED
      BY <3>7
  <2>4. QED
    BY <2>2, <2>3
<1>3. SUBSET (T \ A) \subseteq Good
  <2> DEFINE R == T \ A
  <2>1. IsFiniteSet(R)
    BY FS_Subset DEF Weighed
  <2>2. Hereditary(R, Good)
    BY <1>2 DEF Hereditary
  <2>3. SUBSET R \subseteq Good
    <3> HIDE DEF Good, R
    <3>1. QED
      BY <2>1, <2>2, SubsetInduction
  <2>4. QED
    BY <2>3
<1>4. A \cup (T \ A) = T /\ T \ A \in Good
  BY <1>3
<1>5. QED
  BY <1>4

(* More objects have more bytes. *)
LEMMA BytesMonotonic ==
  ASSUME NEW tier, NEW T, Weighed(tier, T), NEW A \in SUBSET T
  PROVE  BytesOf(tier, A) <= BytesOf(tier, T) /\ BytesOf(tier, A) \in Nat
<1>1. BytesOf(tier, A) \in Nat /\ BytesOf(tier, T \ A) \in Nat
  BY WeighedPart, BytesType
<1>2. BytesOf(tier, T) = BytesOf(tier, A) + BytesOf(tier, T \ A)
  BY BytesSplit
<1>3. QED
  BY <1>1, <1>2

-----------------------------------------------------------------------------
(* Reference histories. *)

Histories == [k : Nat \ {0}, references : [Users -> Seq(Nat)], sequence : Nat, last : Nat]

(* No user has more than k references, and no two users share one. *)
HistoryOK(h) ==
  /\ h \in Histories
  /\ \A u \in Users : Len(h.references[u]) <= h.k
  /\ \A u \in Users : \A i \in 1..Len(h.references[u]) : h.references[u][i] <= h.sequence
  /\ \A u, v \in Users : u # v =>
       \A i \in 1..Len(h.references[u]), j \in 1..Len(h.references[v]) :
         h.references[u][i] # h.references[v][j]

(* A history that has moved on: who had k references still has. *)
Later(h, g) ==
  /\ HistoryOK(g) /\ g.k = h.k
  /\ \A u \in Users : HasPriority(h, u) => HasPriority(g, u)

LEMMA LaterIsTransitive ==
  ASSUME NEW h, NEW g, NEW f, Later(h, g), Later(g, f)
  PROVE  Later(h, f)
BY DEF Later

LEMMA LaterIsReflexive ==
  ASSUME NEW h, HistoryOK(h)
  PROVE  Later(h, h)
BY DEF Later

(* The last references of a user. *)
LEMMA YoungestProperties ==
  ASSUME NEW s \in Seq(Nat), NEW k \in Nat \ {0}
  PROVE  /\ Youngest(s, k) \in Seq(Nat)
         /\ Len(Youngest(s, k)) = IF k <= Len(s) THEN k ELSE Len(s)
         /\ \A i \in 1..Len(Youngest(s, k)) : \E j \in 1..Len(s) : Youngest(s, k)[i] = s[j]
<1> DEFINE m == IF k <= Len(s) THEN k ELSE Len(s)
<1>1. Len(s) \in Nat /\ m \in Nat /\ m <= Len(s)
  BY LenProperties
<1>2. Min({k, Len(s)}) = m
  BY <1>1, MinOfTwo
<1> HIDE DEF m
<1> DEFINE from == Len(s) - m + 1
<1>3. from \in 1..(Len(s) + 1) /\ Len(s) - from + 1 = m
  BY ONLY <1>1
<1>4. Youngest(s, k) = SubSeq(s, from, Len(s))
  BY <1>2 DEF Youngest
<1> HIDE DEF from
<1>5. \A i \in from..Len(s) : i \in 1..Len(s) /\ s[i] \in Nat
  BY <1>1, <1>3, ElementOfSeq
<1>6. /\ SubSeq(s, from, Len(s)) \in Seq(Nat)
      /\ Len(SubSeq(s, from, Len(s))) = m
      /\ \A i \in 1..m : SubSeq(s, from, Len(s))[i] = s[from + i - 1]
  BY <1>1, <1>3, <1>5, SubSeqProperties
<1>7. \A i \in 1..m : from + i - 1 \in 1..Len(s)
  BY ONLY <1>1, <1>3
<1>8. QED
  BY <1>4, <1>6, <1>7 DEF m

(* One more reference. *)
LEMMA RecordOK ==
  ASSUME NEW h, HistoryOK(h), NEW u \in Users, NEW at \in Nat
  PROVE  Later(h, Record(h, u, at))
<1> DEFINE refs == h.references
<1> DEFINE more == Append(refs[u], h.sequence + 1)
<1> DEFINE young == Youngest(more, h.k)
<1> DEFINE g == Record(h, u, at)
<1>1. /\ h \in Histories /\ h.k \in Nat \ {0} /\ refs \in [Users -> Seq(Nat)] /\ h.sequence \in Nat
      /\ \A v \in Users : refs[v] \in Seq(Nat) /\ Len(refs[v]) \in Nat /\ Len(refs[v]) <= h.k
      /\ \A v \in Users : \A i \in 1..Len(refs[v]) : refs[v][i] \in Nat /\ refs[v][i] <= h.sequence
  BY LenProperties, ElementOfSeq DEF HistoryOK, Histories
<1>2. /\ more \in Seq(Nat) /\ Len(more) = Len(refs[u]) + 1
      /\ \A i \in 1..Len(refs[u]) : more[i] = refs[u][i]
      /\ more[Len(refs[u]) + 1] = h.sequence + 1
  BY <1>1, AppendProperties
<1>3. /\ young \in Seq(Nat)
      /\ Len(young) = IF h.k <= Len(more) THEN h.k ELSE Len(more)
      /\ \A i \in 1..Len(young) : \E j \in 1..Len(more) : young[i] = more[j]
  <2> HIDE DEF more
  <2>1. QED
    BY <1>1, <1>2, YoungestProperties
<1>4. ASSUME NEW i \in 1..Len(young)
      PROVE  young[i] = h.sequence + 1 \/ \E j \in 1..Len(refs[u]) : young[i] = refs[u][j]
  <2>1. PICK j \in 1..Len(more) : young[i] = more[j]
    BY <1>3
  <2>2. j = Len(refs[u]) + 1 \/ j \in 1..Len(refs[u])
    <3>1. Len(more) = Len(refs[u]) + 1 /\ Len(refs[u]) \in Nat
      BY <1>1, <1>2
    <3> HIDE DEF more, refs
    <3>2. QED
      BY ONLY <3>1, j \in 1..Len(more)
  <2> HIDE DEF young, more
  <2>3. QED
    BY <1>2, <2>1, <2>2
<1>5. g = [h EXCEPT !.references = [refs EXCEPT ![u] = young], !.sequence = h.sequence + 1,
                    !.last = at]
  BY <1>1 DEF Record, Histories
<1> HIDE DEF young, more
<1>6. /\ g \in Histories /\ g.k = h.k /\ g.sequence = h.sequence + 1
      /\ g.references = [refs EXCEPT ![u] = young]
  <2>1. [refs EXCEPT ![u] = young] \in [Users -> Seq(Nat)]
    BY <1>1, <1>3
  <2>2. h.sequence + 1 \in Nat
    BY <1>1
  <2>3. QED
    BY <1>1, <1>5, <2>1, <2>2 DEF Histories
<1> HIDE DEF g
<1>7. \A v \in Users : g.references[v] = IF v = u THEN young ELSE refs[v]
  BY <1>1, <1>6
<1>8. ASSUME NEW v \in Users PROVE Len(g.references[v]) <= g.k
  <2>1. Len(young) <= h.k
    BY <1>1, <1>2, <1>3
  <2>2. QED
    BY <1>1, <1>6, <1>7, <2>1
<1>9. ASSUME NEW v \in Users, NEW i \in 1..Len(g.references[v])
      PROVE  /\ g.references[v][i] \in Nat /\ g.references[v][i] <= h.sequence + 1
             /\ \/ v = u /\ g.references[v][i] = h.sequence + 1
                \/ \E j \in 1..Len(refs[v]) : g.references[v][i] = refs[v][j]
  <2>1. CASE v = u
    <3>1. g.references[v] = young /\ i \in 1..Len(young)
      BY <1>7, <2>1
    <3>2. young[i] = h.sequence + 1 \/ \E j \in 1..Len(refs[u]) : young[i] = refs[u][j]
      BY <1>4, <3>1
    <3>3. CASE young[i] = h.sequence + 1
      <4>1. h.sequence + 1 \in Nat /\ h.sequence + 1 <= h.sequence + 1
        BY ONLY <1>1
      <4>2. QED
        BY <2>1, <3>1, <3>3, <4>1
    <3>4. CASE \E j \in 1..Len(refs[u]) : young[i] = refs[u][j]
      <4>1. PICK j \in 1..Len(refs[u]) : young[i] = refs[u][j]
        BY <3>4
      <4>2. refs[u][j] \in Nat /\ refs[u][j] <= h.sequence
        BY <1>1
      <4>3. refs[u][j] <= h.sequence + 1
        BY ONLY <1>1, <4>2
      <4>4. QED
        BY <2>1, <3>1, <4>1, <4>2, <4>3
    <3>5. QED
      BY <3>2, <3>3, <3>4
  <2>2. CASE v # u
    <3>1. g.references[v] = refs[v] /\ i \in 1..Len(refs[v])
      BY <1>7, <2>2
    <3>2. refs[v][i] \in Nat /\ refs[v][i] <= h.sequence
      BY <1>1, <3>1
    <3>3. refs[v][i] <= h.sequence + 1
      BY ONLY <1>1, <3>2
    <3>4. QED
      BY <3>1, <3>2, <3>3
  <2>3. QED
    BY <2>1, <2>2
<1>10. ASSUME NEW v \in Users, NEW w \in Users, v # w,
              NEW i \in 1..Len(g.references[v]), NEW j \in 1..Len(g.references[w])
       PROVE  g.references[v][i] # g.references[w][j]
  <2>1. \A a \in 1..Len(refs[v]), b \in 1..Len(refs[w]) : refs[v][a] # refs[w][b]
    BY <1>10 DEF HistoryOK
  <2>2. /\ \A a \in 1..Len(refs[v]) : refs[v][a] # h.sequence + 1
        /\ \A b \in 1..Len(refs[w]) : refs[w][b] # h.sequence + 1
    <3>1. ASSUME NEW n \in Nat, n <= h.sequence PROVE n # h.sequence + 1
      BY ONLY <1>1, <3>1
    <3>2. QED
      BY <1>1, <3>1
  <2>3. \/ v = u /\ g.references[v][i] = h.sequence + 1
        \/ \E a \in 1..Len(refs[v]) : g.references[v][i] = refs[v][a]
    BY <1>9
  <2>4. \/ w = u /\ g.references[w][j] = h.sequence + 1
        \/ \E b \in 1..Len(refs[w]) : g.references[w][j] = refs[w][b]
    BY <1>9
  <2>5. QED
    BY <1>10, <2>1, <2>2, <2>3, <2>4
<1>11. HistoryOK(g)
  BY <1>6, <1>8, <1>9, <1>10 DEF HistoryOK
<1>12. ASSUME NEW v \in Users, HasPriority(h, v) PROVE HasPriority(g, v)
  <2>1. Len(refs[v]) = h.k
    BY <1>12 DEF HasPriority
  <2>2. CASE v = u
    <3>1. Len(young) = h.k
      BY <1>1, <1>2, <1>3, <2>1, <2>2
    <3>2. QED
      BY <1>6, <1>7, <2>2, <3>1 DEF HasPriority
  <2>3. CASE v # u
    BY <1>6, <1>7, <2>1, <2>3 DEF HasPriority
  <2>4. QED
    BY <2>2, <2>3
<1>13. QED
  BY <1>6, <1>11, <1>12 DEF Later, g

(* The references of several requests, in their order. *)
Recorded(h, requests) ==
  FoldLeft(LAMBDA g, req : Record(g, req.user, req.arrival), h, requests)

(* The recursion that Recorded runs. *)
RecordRun(r, h, requests) ==
  r = [s \in SUBSET (DOMAIN requests) |->
         IF s = {} THEN h
         ELSE LET n == Max(s) IN Record(r[s \ {n}], requests[n].user, requests[n].arrival)]

LEMMA RecordedRun ==
  ASSUME NEW h, NEW requests
  PROVE  Recorded(h, requests) = (CHOOSE r : RecordRun(r, h, requests))[DOMAIN requests]
BY DEF Recorded, FoldLeft, MapThenFoldSet, RecordRun

LEMMA RecordedOK ==
  ASSUME NEW h, HistoryOK(h), NEW requests \in Seq(Request)
  PROVE  Later(h, Recorded(h, requests))
<1> DEFINE D == DOMAIN requests
<1> DEFINE V == {g \in Histories : Later(h, g)}
<1> DEFINE F == [p \in D \X V |-> Record(p[2], requests[p[1]].user, requests[p[1]].arrival)]
<1> DEFINE c == [s \in SUBSET D |-> Max(s)]
<1>1. /\ D = 1..Len(requests) /\ Len(requests) \in Nat /\ IsFiniteSet(D)
      /\ \A n \in D : requests[n] \in Request
  <2>1. D = 1..Len(requests) /\ Len(requests) \in Nat
    BY LenProperties
  <2>2. IsFiniteSet(D)
    BY <2>1, SizeOfInterval
  <2>3. QED
    BY <2>1, <2>2, ElementOfSeq
<1>2. \A n \in D : requests[n].user \in Users /\ requests[n].arrival \in Nat
  BY <1>1 DEF Request
<1>3. h \in V
  BY LaterIsReflexive DEF HistoryOK
<1>4. ASSUME NEW g \in V, NEW n \in D
      PROVE  Record(g, requests[n].user, requests[n].arrival) \in V
  <2>1. Later(h, g) /\ HistoryOK(g)
    BY DEF Later
  <2>2. Later(g, Record(g, requests[n].user, requests[n].arrival))
    BY <1>2, <2>1, RecordOK
  <2>3. Later(h, Record(g, requests[n].user, requests[n].arrival))
    BY <2>1, <2>2, LaterIsTransitive
  <2>4. QED
    BY <2>3 DEF Later, HistoryOK
<1> HIDE DEF V
<1>5. F \in [D \X V -> V]
  BY <1>4
<1>6. \A s \in SUBSET D : s # {} => c[s] \in s
  BY <1>1, GreatestElement
<1>7. PICK r \in [SUBSET D -> V] : Recursion(r, D, h, F, c)
  <2> HIDE DEF F, c, D
  <2>1. QED
    BY <1>1, <1>3, <1>5, <1>6, RecursionExists
<1>8. ASSUME NEW s \in SUBSET D
      PROVE  r[s] = IF s = {} THEN h
                    ELSE LET n == Max(s)
                         IN  Record(r[s \ {n}], requests[n].user, requests[n].arrival)
  <2>1. r[s] = IF s = {} THEN h ELSE F[<<c[s], r[s \ {c[s]}]>>]
    <3> HIDE DEF F, c
    <3>1. QED
      BY <1>7 DEF Recursion
  <2>2. CASE s = {}
    BY <2>1, <2>2
  <2>3. CASE s # {}
    <3>1. c[s] \in D /\ s \ {c[s]} \in SUBSET D
      BY <1>6, <2>3
    <3>2. r[s \ {c[s]}] \in V
      BY <1>7, <3>1
    <3>3. F[<<c[s], r[s \ {c[s]}]>>]
            = Record(r[s \ {c[s]}], requests[c[s]].user, requests[c[s]].arrival)
      <4> HIDE DEF c, D
      <4>1. QED
        BY <3>1, <3>2
    <3>4. c[s] = Max(s)
      OBVIOUS
    <3>5. QED
      BY <2>1, <2>3, <3>3, <3>4
  <2>4. QED
    BY <2>2, <2>3
<1>9. RecordRun(r, h, requests)
  BY <1>8 DEF RecordRun
<1> DEFINE q == CHOOSE q : RecordRun(q, h, requests)
<1>10. RecordRun(q, h, requests)
  BY <1>9
<1>11. Recorded(h, requests) = q[D]
  BY RecordedRun
<1> HIDE DEF q, F, c, D
<1> DEFINE Good == {s \in SUBSET D : q[s] \in V}
<1>12. ASSUME NEW s \in SUBSET D, \A x \in s : s \ {x} \in Good PROVE s \in Good
  <2>1. q[s] = IF s = {} THEN h
               ELSE Record(q[s \ {Max(s)}], requests[Max(s)].user, requests[Max(s)].arrival)
    BY <1>10, Zenon DEF RecordRun, D
  <2>2. CASE s = {}
    BY <1>3, <2>1, <2>2
  <2>3. CASE s # {}
    <3>1. Max(s) \in s
      BY <1>1, <2>3, GreatestElement
    <3>2. q[s \ {Max(s)}] \in V /\ Max(s) \in D
      BY <1>12, <3>1
    <3>3. QED
      BY <1>4, <2>1, <2>3, <3>2
  <2>4. QED
    BY <2>2, <2>3
<1>13. SUBSET D \subseteq Good
  <2>1. Hereditary(D, Good)
    BY <1>12 DEF Hereditary
  <2>2. IsFiniteSet(D)
    BY <1>1
  <2> HIDE DEF Good
  <2>3. QED
    BY ONLY <2>1, <2>2, SubsetInduction
<1>14. QED
  BY <1>11, <1>13 DEF V

(* Who has k references has a priority of its own. *)
LEMMA PriorityProperties ==
  ASSUME NEW h, HistoryOK(h)
  PROVE  /\ \A u \in Users : HasPriority(h, u) => Priority(h, u) \in Nat
         /\ \A u, v \in Users : HasPriority(h, u) /\ HasPriority(h, v) /\ u # v
              => Priority(h, u) # Priority(h, v)
<1>1. ASSUME NEW u \in Users, HasPriority(h, u)
      PROVE  /\ Priority(h, u) = h.references[u][1] /\ 1 \in 1..Len(h.references[u])
             /\ h.references[u] \in Seq(Nat)
  <2>1. h.references[u] \in Seq(Nat) /\ Len(h.references[u]) = h.k /\ h.k \in Nat \ {0}
    BY <1>1 DEF HistoryOK, Histories, HasPriority
  <2>2. 1 \in 1..Len(h.references[u])
    BY ONLY <2>1
  <2>3. QED
    BY <2>1, <2>2 DEF Priority
<1>2. ASSUME NEW u \in Users, HasPriority(h, u) PROVE Priority(h, u) \in Nat
  BY <1>1, <1>2, ElementOfSeq
<1>3. ASSUME NEW u \in Users, NEW v \in Users, HasPriority(h, u), HasPriority(h, v), u # v
      PROVE  Priority(h, u) # Priority(h, v)
  BY <1>1, <1>3 DEF HistoryOK
<1>4. QED
  BY <1>2, <1>3

-----------------------------------------------------------------------------
(* One tier. *)

(* What a tier holds it accounts for, within its capacity, and can rank. *)
TierOK(h, tier) ==
  /\ tier = [capacity |-> tier.capacity, entries |-> tier.entries, used |-> tier.used]
  /\ tier.entries = [u \in Resident(tier) |-> tier.entries[u]]
  /\ tier.capacity \in Nat
  /\ Resident(tier) \subseteq Users /\ Weighed(tier, Resident(tier))
  /\ tier.used = BytesOf(tier, Resident(tier)) /\ tier.used <= tier.capacity
  /\ \A u \in Resident(tier) : HasPriority(h, u)

(* The users in the order of their priorities. *)
Ranked(h, others, cold) ==
  /\ cold \in Seq(others)
  /\ \A u \in others : \E n \in 1..Len(cold) : cold[n] = u
  /\ \A n \in 1..Len(cold) : Colder(others, h, cold[n]) = {cold[i] : i \in 1..(n - 1)}

LEMMA ColdestProperties ==
  ASSUME NEW h, HistoryOK(h), NEW tier, TierOK(h, tier), NEW user
  PROVE  Ranked(h, Resident(tier) \ {user}, Coldest(tier, h, user))
<1> DEFINE others == Resident(tier) \ {user}
<1> DEFINE cold == Coldest(tier, h, user)
<1> DEFINE m == Cardinality(others)
<1> DEFINE place(u) == Cardinality(Colder(others, h, u))
<1> DEFINE p(u) == Priority(h, u)
<1>1. IsFiniteSet(others) /\ m \in Nat
  <2>1. IsFiniteSet(others)
    BY FS_Subset DEF TierOK, Weighed
  <2>2. QED
    BY <2>1, FS_CardinalityType
<1>2. /\ \A u \in others : p(u) \in Nat
      /\ \A u, v \in others : u # v => p(u) # p(v)
  BY PriorityProperties DEF TierOK
<1>3. cold = [n \in 1..m |-> CHOOSE u \in others : place(u) = n - 1]
  BY DEF Coldest
<1>4. \A u, v \in others : v \in Colder(others, h, u) <=> p(v) < p(u)
  BY DEF Colder
<1> HIDE DEF others, p, cold, m
<1>5. ASSUME NEW u \in others
      PROVE  /\ IsFiniteSet(Colder(others, h, u)) /\ place(u) \in Nat /\ place(u) <= m
             /\ u \notin Colder(others, h, u) /\ Colder(others, h, u) \subseteq others
  <2>1. Colder(others, h, u) \subseteq others
    BY DEF Colder
  <2>2. /\ IsFiniteSet(Colder(others, h, u))
        /\ Cardinality(Colder(others, h, u)) <= Cardinality(others)
    BY <1>1, <2>1, FS_Subset
  <2>3. place(u) \in Nat /\ place(u) <= m
    BY <2>2, FS_CardinalityType DEF m
  <2>4. ~(p(u) < p(u))
    BY <1>2
  <2>5. QED
    BY <1>4, <2>1, <2>2, <2>3, <2>4
<1>6. ASSUME NEW u \in others, NEW v \in others, p(u) < p(v) PROVE place(u) < place(v)
  <2>1. u \in Colder(others, h, v) /\ u \notin Colder(others, h, u)
    BY <1>4, <1>5, <1>6
  <2>2. Colder(others, h, u) \subseteq Colder(others, h, v)
    <3>1. ASSUME NEW w \in others, p(w) < p(u) PROVE p(w) < p(v)
      <4>1. p(u) \in Nat /\ p(v) \in Nat /\ p(w) \in Nat
        BY <1>2
      <4>2. QED
        BY ONLY <1>6, <3>1, <4>1
    <3>2. QED
      BY <1>4, <1>5, <3>1
  <2>3. /\ IsFiniteSet(Colder(others, h, v))
        /\ Colder(others, h, u) # Colder(others, h, v)
    BY <1>5, <2>1
  <2>4. Cardinality(Colder(others, h, u)) < Cardinality(Colder(others, h, v))
    <3>1. /\ Cardinality(Colder(others, h, u)) <= Cardinality(Colder(others, h, v))
          /\ Cardinality(Colder(others, h, u)) = Cardinality(Colder(others, h, v))
               => Colder(others, h, u) = Colder(others, h, v)
      BY <2>2, <2>3, FS_Subset
    <3>2. place(u) \in Nat /\ place(v) \in Nat
      BY <1>5
    <3>3. QED
      BY <2>3, <3>1, <3>2
  <2>5. QED
    BY <2>4
<1>7. ASSUME NEW u \in others PROVE place(u) + 1 \in 1..m
  <2>1. Colder(others, h, u) # others
    BY <1>5
  <2>2. place(u) # m
    BY <1>1, <1>5, <2>1, FS_Subset DEF m
  <2>3. QED
    BY <1>1, <1>5, <2>2
<1>8. \A u, v \in others : place(u) = place(v) => u = v
  <2>1. SUFFICES ASSUME NEW u \in others, NEW v \in others, place(u) = place(v), u # v
                 PROVE  FALSE
    OBVIOUS
  <2>2. p(u) \in Nat /\ p(v) \in Nat /\ p(u) # p(v)
    BY <1>2, <2>1
  <2>3. p(u) < p(v) \/ p(v) < p(u)
    BY ONLY <2>2
  <2>4. place(u) < place(v) \/ place(v) < place(u)
    BY <1>6, <2>3
  <2>5. place(u) \in Nat /\ place(v) \in Nat
    BY <1>5
  <2> HIDE DEF place
  <2>6. QED
    BY ONLY <2>1, <2>4, <2>5
<1> HIDE DEF place
<1>9. ASSUME NEW n \in 1..m PROVE \E u \in others : place(u) = n - 1
  <2> DEFINE f == [u \in others |-> place(u) + 1]
  <2>1. f \in [others -> 1..m]
    BY <1>7
  <2>2. \A u, v \in others : f[u] = f[v] => u = v
    <3>1. \A u, v \in others : place(u) + 1 = place(v) + 1 => place(u) = place(v)
      BY <1>5
    <3>2. QED
      BY <1>8, <3>1
  <2>3. IsFiniteSet(1..m) /\ Cardinality(1..m) = m
    BY <1>1, SizeOfInterval
  <2>4. f \in Injection(others, 1..m)
    <3> HIDE DEF f
    <3>1. QED
      BY <2>1, <2>2 DEF Injection, IsInjective
  <2> HIDE DEF f
  <2>5. f \in Surjection(others, 1..m)
    BY <2>3, <2>4, FS_Injection DEF m
  <2>6. PICK u \in others : f[u] = n
    BY <2>5 DEF Surjection
  <2>7. place(u) + 1 = n /\ place(u) \in Nat
    BY <1>5, <2>6 DEF f
  <2>8. QED
    BY ONLY <2>7, u \in others
<1>10. ASSUME NEW n \in 1..m PROVE cold[n] \in others /\ place(cold[n]) = n - 1
  BY <1>3, <1>9
<1>11. cold \in Seq(others) /\ Len(cold) = m
  <2>1. cold \in [1..m -> others]
    BY <1>3, <1>10
  <2>2. QED
    BY <1>1, <2>1
<1>12. ASSUME NEW u \in others PROVE place(u) + 1 \in 1..m /\ cold[place(u) + 1] = u
  <2>1. place(u) + 1 \in 1..m /\ place(u) \in Nat
    BY <1>5, <1>7
  <2>2. (place(u) + 1) - 1 = place(u)
    BY <2>1
  <2>3. cold[place(u) + 1] \in others /\ place(cold[place(u) + 1]) = place(u)
    BY <1>10, <2>1, <2>2
  <2>4. QED
    BY <1>8, <2>1, <2>3
<1>13. ASSUME NEW n \in 1..m
       PROVE  Colder(others, h, cold[n]) = {cold[i] : i \in 1..(n - 1)}
  <2>1. cold[n] \in others /\ place(cold[n]) = n - 1
    BY <1>10
  <2>2. ASSUME NEW v \in Colder(others, h, cold[n]) PROVE \E i \in 1..(n - 1) : v = cold[i]
    <3>1. v \in others /\ p(v) < p(cold[n])
      BY <1>4, <1>5, <2>1
    <3>2. place(v) < n - 1 /\ place(v) \in Nat /\ cold[place(v) + 1] = v
      BY <1>5, <1>6, <1>12, <2>1, <3>1
    <3>3. place(v) + 1 \in 1..(n - 1)
      BY ONLY <3>2, <1>1, n \in 1..m
    <3>4. QED
      BY <3>2, <3>3
  <2>3. ASSUME NEW i \in 1..(n - 1) PROVE cold[i] \in Colder(others, h, cold[n])
    <3>1. i \in 1..m /\ i - 1 < n - 1
      BY ONLY <1>1, n \in 1..m, i \in 1..(n - 1)
    <3>2. cold[i] \in others /\ place(cold[i]) = i - 1
      BY <1>10, <3>1
    <3>3. p(cold[i]) < p(cold[n])
      <4>1. SUFFICES ASSUME ~(p(cold[i]) < p(cold[n])) PROVE FALSE
        OBVIOUS
      <4>2. p(cold[i]) \in Nat /\ p(cold[n]) \in Nat
        BY <1>2, <2>1, <3>2
      <4>3. CASE p(cold[i]) = p(cold[n])
        <5>1. cold[i] = cold[n]
          BY <1>2, <2>1, <3>2, <4>3
        <5>2. i - 1 = n - 1
          BY <2>1, <3>2, <5>1
        <5>3. QED
          BY ONLY <3>1, <5>2, <1>1, n \in 1..m
      <4>4. CASE p(cold[n]) < p(cold[i])
        <5>1. place(cold[n]) < place(cold[i])
          BY <1>6, <2>1, <3>2, <4>4
        <5>2. n - 1 < i - 1
          BY <2>1, <3>2, <5>1
        <5>3. QED
          BY ONLY <3>1, <5>2, <1>1, n \in 1..m
      <4>5. QED
        BY ONLY <4>1, <4>2, <4>3, <4>4
    <3>4. QED
      BY <1>4, <2>1, <3>2, <3>3
  <2>4. QED
    BY <2>2, <2>3
<1>14. QED
  BY <1>11, <1>12, <1>13 DEF Ranked, others, cold

(* The sizes of objects. *)
LEMMA SizeType ==
  ASSUME NEW tokens \in Nat
  PROVE  SizeOf(tokens) \in Nat
<1>1. BlockTokens \in Nat \ {0} /\ KvBytes \in Nat \ {0}
  BY LruKAssumption
<1>2. tokens + BlockTokens - 1 \in Nat
  BY <1>1
<1>3. CDivBy(tokens, BlockTokens) \in Nat
  BY <1>1, <1>2, DivBounds DEF CDivBy
<1>4. \A a, b \in Nat : a * b \in Nat
  OBVIOUS
<1>5. CDivBy(tokens, BlockTokens) * BlockTokens \in Nat
  BY <1>1, <1>3, <1>4
<1>6. QED
  BY <1>1, <1>4, <1>5 DEF SizeOf

(* The room for a user and all the others fill the tier. *)
LEMMA RoomAndOthers ==
  ASSUME NEW h, NEW tier, TierOK(h, tier), NEW user
  PROVE  LET others == Resident(tier) \ {user}
         IN  /\ RoomFor(tier, user) \in Nat
             /\ BytesOf(tier, others) \in Nat
             /\ RoomFor(tier, user) + BytesOf(tier, others) = tier.capacity
<1> DEFINE others == Resident(tier) \ {user}
<1>1. /\ Weighed(tier, Resident(tier)) /\ Weighed(tier, others)
      /\ tier.capacity \in Nat /\ tier.used = BytesOf(tier, Resident(tier))
      /\ tier.used <= tier.capacity
  BY WeighedPart DEF TierOK
<1>2. tier.used \in Nat /\ BytesOf(tier, others) \in Nat
  BY <1>1, BytesType
<1>3. CASE user \in Resident(tier)
  <2>1. tier.used = BytesOf(tier, others) + tier.entries[user].bytes
    BY <1>1, <1>3, BytesRemove
  <2>2. tier.entries[user].bytes \in Nat
    BY <1>1, <1>3 DEF Weighed
  <2>3. RoomFor(tier, user) = tier.capacity - tier.used + tier.entries[user].bytes
    BY <1>3 DEF RoomFor
  <2>4. QED
    BY ONLY <1>1, <1>2, <2>1, <2>2, <2>3
<1>4. CASE user \notin Resident(tier)
  <2>1. others = Resident(tier)
    BY <1>4
  <2>2. RoomFor(tier, user) = tier.capacity - tier.used + 0
    BY <1>4 DEF RoomFor
  <2>3. tier.used = BytesOf(tier, others)
    BY <1>1, <2>1
  <2>4. QED
    BY ONLY <1>1, <1>2, <2>2, <2>3
<1>5. QED
  BY <1>3, <1>4

(* The front of a sequence, and its elements. *)
LEMMA FrontElements ==
  ASSUME NEW S, NEW s \in Seq(S), NEW n \in 0..Len(s)
  PROVE  ToSet(SubSeq(s, 1, n)) = {s[i] : i \in 1..n}
<1>1. Len(s) \in Nat /\ n \in Nat /\ n <= Len(s) /\ 1..n \subseteq 1..Len(s)
  BY LenProperties
<1>2. \A i \in 1..n : s[i] \in S
  BY <1>1, ElementOfSeq
<1>3. 1 \in Int /\ n \in Int /\ n - 1 + 1 = n
  BY ONLY <1>1
<1>4. /\ SubSeq(s, 1, n) \in Seq(S)
      /\ Len(SubSeq(s, 1, n)) = IF 1 <= n THEN n - 1 + 1 ELSE 0
      /\ \A i \in 1..(n - 1 + 1) : SubSeq(s, 1, n)[i] = s[1 + i - 1]
  BY <1>2, <1>3, SubSeqProperties
<1>5. Len(SubSeq(s, 1, n)) = n
  BY ONLY <1>1, <1>3, <1>4
<1>6. \A i \in 1..n : SubSeq(s, 1, n)[i] = s[i]
  <2>1. \A i \in 1..n : 1 + i - 1 = i
    BY <1>1
  <2>2. QED
    BY <1>3, <1>4, <2>1
<1>7. DOMAIN SubSeq(s, 1, n) = 1..n
  BY <1>4, <1>5, LenProperties
<1>8. QED
  BY <1>6, <1>7 DEF ToSet

(* The victims are the users that LRU-K has leave; they make the room that *)
(* an object needs if the tier could ever hold it.                         *)
LEMMA VictimsLeave ==
  ASSUME NEW h, HistoryOK(h), NEW tier, TierOK(h, tier), NEW req,
         SizeOf(Updated(req)) \in Nat
  PROVE  LET size    == SizeOf(Updated(req))
             victims == Victims(tier, h, req)
         IN  /\ victims \subseteq Resident(tier) \ {req.user}
             /\ size <= tier.capacity =>
                  /\ victims = Leaves(tier, h, req.user, size)
                  /\ RoomFor(tier, req.user) + BytesOf(tier, victims) >= size
<1> DEFINE user == req.user
<1> DEFINE size == SizeOf(Updated(req))
<1> DEFINE others == Resident(tier) \ {user}
<1> DEFINE cold == Coldest(tier, h, user)
<1> DEFINE room == RoomFor(tier, user)
<1> DEFINE front(n) == ToSet(SubSeq(cold, 1, n))
<1> DEFINE bytes(n) == BytesOf(tier, front(n))
<1> DEFINE enough == {n \in 0..Len(cold) : room + bytes(n) >= size}
<1> DEFINE count == IF enough = {} THEN Len(cold) ELSE Min(enough)
<1>1. /\ cold \in Seq(others) /\ Len(cold) \in Nat
      /\ \A u \in others : \E n \in 1..Len(cold) : cold[n] = u
      /\ \A n \in 1..Len(cold) : Colder(others, h, cold[n]) = {cold[i] : i \in 1..(n - 1)}
      /\ \A n \in 1..Len(cold) : cold[n] \in others
  <2>1. Ranked(h, others, cold)
    BY ColdestProperties
  <2> HIDE DEF others, cold
  <2>2. QED
    BY <2>1, LenProperties, ElementOfSeq DEF Ranked
<1>2. ASSUME NEW n \in 0..Len(cold)
      PROVE  front(n) = {cold[i] : i \in 1..n} /\ front(n) \subseteq others
  <2>1. front(n) = {cold[i] : i \in 1..n}
    <3> HIDE DEF cold
    <3>1. QED
      BY <1>1, FrontElements
  <2>2. 1..n \subseteq 1..Len(cold)
    BY <1>1
  <2>3. QED
    <3> HIDE DEF cold, front, others
    <3>1. QED
      BY <1>1, <2>1, <2>2
<1>3. /\ room \in Nat /\ room + BytesOf(tier, others) = tier.capacity
      /\ Weighed(tier, others) /\ size \in Nat /\ tier.capacity \in Nat
  <2>1. room \in Nat /\ room + BytesOf(tier, others) = tier.capacity
    BY RoomAndOthers
  <2>2. Weighed(tier, Resident(tier)) /\ tier.capacity \in Nat
    BY DEF TierOK
  <2>3. Weighed(tier, others)
    BY <2>2, WeighedPart
  <2>4. QED
    BY <2>1, <2>2, <2>3
<1>4. Victims(tier, h, req) = front(count)
  BY DEF Victims
<1> HIDE DEF cold, room, others, size
<1>5. \A n \in 0..Len(cold) : bytes(n) \in Nat
  BY <1>2, <1>3, WeighedPart, BytesType
<1>6. ASSUME NEW n \in 0..Len(cold), NEW i \in 0..n PROVE bytes(i) <= bytes(n)
  <2>1. i \in 0..Len(cold) /\ 1..i \subseteq 1..n
    BY <1>1
  <2>2. front(i) \subseteq front(n)
    <3> HIDE DEF front
    <3>1. QED
      BY <1>2, <2>1
  <2>3. Weighed(tier, front(n))
    BY <1>2, <1>3, WeighedPart
  <2> HIDE DEF front
  <2>4. QED
    BY <2>2, <2>3, BytesMonotonic
<1>7. count \in 0..Len(cold) /\ (enough # {} => count \in enough /\ \A n \in enough : count <= n)
  <2>1. CASE enough = {}
    BY <1>1, <2>1
  <2>2. CASE enough # {}
    <3>1. enough \subseteq 0..Len(cold) /\ enough \in SUBSET Nat
      BY <1>1
    <3> HIDE DEF enough
    <3>2. PICK n \in enough : \A i \in enough : n <= i
      BY <2>2, <3>1, LeastElement
    <3>3. Min(enough) \in enough /\ \A i \in enough : Min(enough) <= i
      BY <3>2 DEF Min
    <3>4. QED
      BY <2>2, <3>1, <3>3
  <2>3. QED
    BY <2>1, <2>2
<1>8. front(count) \subseteq others
  <2> HIDE DEF count, front
  <2>1. QED
    BY <1>2, <1>7
<1>9. ASSUME size <= tier.capacity PROVE enough # {}
  <2>1. front(Len(cold)) = others
    <3>1. Len(cold) \in 0..Len(cold)
      BY <1>1
    <3> HIDE DEF front
    <3>2. front(Len(cold)) = {cold[i] : i \in 1..Len(cold)}
      BY <1>2, <3>1
    <3>3. QED
      BY <1>1, <3>2
  <2>2. room + bytes(Len(cold)) = tier.capacity
    BY <1>3, <2>1
  <2>3. room + bytes(Len(cold)) >= size
    BY <1>3, <1>9, <2>2
  <2>4. Len(cold) \in enough
    <3> HIDE DEF bytes
    <3>1. QED
      BY <1>1, <2>3
  <2>5. QED
    BY <2>4
<1>10. ASSUME size <= tier.capacity
       PROVE  front(count) = Leaves(tier, h, user, size)
  <2>1. Leaves(tier, h, user, size)
          = {v \in others : room + BytesOf(tier, Colder(others, h, v)) < size}
    BY DEF Leaves, others, room
  <2>2. ASSUME NEW n \in 1..Len(cold)
        PROVE  room + BytesOf(tier, Colder(others, h, cold[n])) < size <=> n <= count
    <3>1. n - 1 \in 0..Len(cold) /\ n \in Nat
      BY <1>1
    <3>2. front(n - 1) = {cold[i] : i \in 1..(n - 1)}
      <4> HIDE DEF front
      <4>1. QED
        BY <1>2, <3>1
    <3>3. BytesOf(tier, Colder(others, h, cold[n])) = bytes(n - 1)
      BY <1>1, <3>2
    <3>4. bytes(n - 1) \in Nat
      BY <1>5, <3>1
    <3>5. count \in Nat /\ room + bytes(count) >= size /\ bytes(count) \in Nat
      <4>1. count \in enough /\ count \in 0..Len(cold)
        BY <1>7, <1>9, <1>10
      <4> HIDE DEF count
      <4>2. count \in Nat /\ room + bytes(count) >= size
        BY <1>1, <4>1
      <4>3. QED
        BY <1>5, <4>1, <4>2
    <3>6. ASSUME n <= count PROVE room + bytes(n - 1) < size
      <4>1. n - 1 \notin enough
        <5>1. ~(count <= n - 1)
          BY ONLY <3>1, <3>5, <3>6
        <5> HIDE DEF count, enough
        <5>2. QED
          BY <1>7, <1>9, <1>10, <5>1
      <4>2. ~(room + bytes(n - 1) >= size)
        <5> HIDE DEF bytes
        <5>1. QED
          BY <3>1, <4>1
      <4> HIDE DEF bytes
      <4>3. QED
        BY ONLY <1>3, <3>4, <4>2
    <3>7. ASSUME ~(n <= count) PROVE ~(room + bytes(n - 1) < size)
      <4>1. count \in 0..(n - 1)
        BY ONLY <3>1, <3>5, <3>7
      <4>2. bytes(count) <= bytes(n - 1)
        <5> HIDE DEF bytes, count
        <5>1. QED
          BY <1>6, <3>1, <4>1
      <4> HIDE DEF bytes, count
      <4>3. QED
        BY ONLY <1>3, <3>4, <3>5, <4>2
    <3> HIDE DEF bytes, count
    <3>8. QED
      BY <3>3, <3>6, <3>7
  <2>3. front(count) = {cold[i] : i \in 1..count}
    <3> HIDE DEF count, front
    <3>1. QED
      BY <1>2, <1>7
  <2>4. \A n \in 1..count : n \in 1..Len(cold) /\ n <= count
    <3> HIDE DEF count
    <3>1. QED
      BY <1>1, <1>7
  <2>5. \A n \in 1..Len(cold) : n <= count => n \in 1..count
    <3>1. count \in Nat
      <4> HIDE DEF count
      <4>1. QED
        BY <1>1, <1>7
    <3> HIDE DEF count
    <3>2. QED
      BY <3>1
  <2> HIDE DEF count, front, enough, bytes
  <2>6. ASSUME NEW v \in others, room + BytesOf(tier, Colder(others, h, v)) < size
        PROVE  v \in front(count)
    <3>1. PICK n \in 1..Len(cold) : cold[n] = v
      BY <1>1
    <3>2. n \in 1..count
      BY <2>2, <2>5, <2>6, <3>1
    <3>3. QED
      BY <2>3, <3>1, <3>2
  <2>7. ASSUME NEW v \in front(count)
        PROVE  v \in others /\ room + BytesOf(tier, Colder(others, h, v)) < size
    <3>1. PICK n \in 1..count : v = cold[n]
      BY <2>3
    <3>2. n \in 1..Len(cold) /\ n <= count
      BY <2>4
    <3>3. QED
      BY <1>1, <2>2, <3>1, <3>2
  <2>8. QED
    BY <2>1, <2>6, <2>7
<1>11. ASSUME size <= tier.capacity PROVE room + bytes(count) >= size
  <2>1. count \in enough
    BY <1>7, <1>9, <1>11
  <2> HIDE DEF count, bytes
  <2>2. QED
    BY <2>1
<1> HIDE DEF count, enough, front
<1>12. QED
  BY <1>4, <1>8, <1>10, <1>11 DEF others, room, size

(* What a plan promises to its commit. *)
PlanOK(h, tier, plan, req) ==
  /\ plan.bytes \in Nat
  /\ plan.victims \subseteq Resident(tier) \ {req.user}
  /\ plan.accepted =>
       /\ RoomFor(tier, req.user) + BytesOf(tier, plan.victims) >= plan.bytes
       /\ HasPriority(h, req.user)

LEMMA PlansAreOK ==
  ASSUME NEW h, HistoryOK(h), NEW tier, TierOK(h, tier), NEW req, NEW now,
         Updated(req) \in Nat
  PROVE  PlanOK(h, tier, Plan(tier, h, req, now), req)
<1> DEFINE plan == Plan(tier, h, req, now)
<1>1. /\ plan.accepted = Admits(tier, h, req) /\ plan.bytes = SizeOf(Updated(req))
      /\ plan.victims = IF Admits(tier, h, req) THEN Victims(tier, h, req) ELSE {}
  BY DEF Plan
<1> HIDE DEF plan
<1>2. SizeOf(Updated(req)) \in Nat
  BY SizeType
<1>3. Victims(tier, h, req) \subseteq Resident(tier) \ {req.user}
  BY <1>2, VictimsLeave
<1>4. Admits(tier, h, req) =>
        /\ RoomFor(tier, req.user) + BytesOf(tier, Victims(tier, h, req)) >= SizeOf(Updated(req))
        /\ HasPriority(h, req.user)
  BY DEF Admits
<1>5. QED
  BY <1>1, <1>2, <1>3, <1>4 DEF PlanOK, plan

(* A plan evicts what LRU-K has leave. *)
LEMMA PlansAreLruK ==
  ASSUME NEW h, HistoryOK(h), NEW tier, TierOK(h, tier), NEW req, NEW now,
         Updated(req) \in Nat, Updated(req) > 0, req.user \in Users
  PROVE  LruK(tier, h, req, Plan(tier, h, req, now))
<1> DEFINE plan == Plan(tier, h, req, now)
<1> DEFINE size == SizeOf(Updated(req))
<1> DEFINE leaves == Leaves(tier, h, req.user, size)
<1> DEFINE admit == /\ size <= tier.capacity /\ HasPriority(h, req.user)
                    /\ h.k > 1 => \A v \in leaves : Priority(h, v) < Priority(h, req.user)
<1>1. /\ plan.accepted = Admits(tier, h, req)
      /\ plan.victims = IF Admits(tier, h, req) THEN Victims(tier, h, req) ELSE {}
  BY DEF Plan
<1> HIDE DEF plan
<1>2. size \in Nat
  BY SizeType
<1>3. /\ Victims(tier, h, req) \subseteq Resident(tier) \ {req.user}
      /\ size <= tier.capacity =>
           /\ Victims(tier, h, req) = leaves
           /\ RoomFor(tier, req.user) + BytesOf(tier, Victims(tier, h, req)) >= size
  BY <1>2, VictimsLeave
<1> HIDE DEF leaves, size
<1>4. \A v \in Resident(tier) : v \in Users /\ HasPriority(h, v)
  BY DEF TierOK
<1>5. ASSUME HasPriority(h, req.user), NEW v \in Resident(tier)
      PROVE  Priority(h, req.user) <= Priority(h, v) <=> ~(Priority(h, v) < Priority(h, req.user))
  <2>1. Priority(h, req.user) \in Nat /\ Priority(h, v) \in Nat
    BY <1>4, <1>5, PriorityProperties
  <2>2. QED
    BY ONLY <2>1
<1>6. ASSUME size <= tier.capacity, HasPriority(h, req.user)
      PROVE  TooCold(tier, h, req)
               <=> h.k > 1 /\ \E v \in leaves : ~(Priority(h, v) < Priority(h, req.user))
  BY <1>3, <1>5, <1>6 DEF TooCold
<1>7. Admits(tier, h, req) <=> admit
  <2>1. CASE size <= tier.capacity /\ HasPriority(h, req.user)
    BY <1>3, <1>6, <2>1 DEF Admits, size
  <2>2. CASE ~(size <= tier.capacity /\ HasPriority(h, req.user))
    BY <2>2 DEF Admits, size
  <2>3. QED
    BY <2>1, <2>2
<1>8. plan.accepted = admit
  <2>1. Admits(tier, h, req) \in BOOLEAN /\ admit \in BOOLEAN
    BY DEF Admits
  <2> HIDE DEF admit
  <2>2. QED
    BY <1>1, <1>7, <2>1
<1>9. plan.victims = IF admit THEN leaves ELSE {}
  BY <1>1, <1>3, <1>7
<1> HIDE DEF admit
<1>10. QED
  BY <1>8, <1>9 DEF LruK, admit, leaves, size, plan

(* Other entries and another account. *)
LEMMA TierExcept ==
  ASSUME NEW tier, NEW c, NEW e, NEW u, tier = [capacity |-> c, entries |-> e, used |-> u],
         NEW entries, NEW used
  PROVE  /\ [tier EXCEPT !.entries = entries, !.used = used]
               = [capacity |-> c, entries |-> entries, used |-> used]
         /\ [tier EXCEPT !.used = used, !.entries = entries]
               = [capacity |-> c, entries |-> entries, used |-> used]
<1>1. [tier EXCEPT !.entries = entries, !.used = used]
        = [capacity |-> c, entries |-> entries, used |-> used]
  <2> DEFINE x == [tier EXCEPT !.entries = entries, !.used = used]
  <2>1. DOMAIN tier = {"capacity", "entries", "used"} /\ DOMAIN x = DOMAIN tier
    OBVIOUS
  <2>2. x.capacity = c /\ x.entries = entries /\ x.used = used
    OBVIOUS
  <2>3. x = [i \in {"capacity", "entries", "used"} |-> x[i]]
    BY <2>1
  <2> HIDE DEF x
  <2>4. x = [capacity |-> c, entries |-> entries, used |-> used]
    BY <2>2, <2>3
  <2>5. QED
    BY <2>4 DEF x
<1>2. [tier EXCEPT !.used = used, !.entries = entries]
        = [capacity |-> c, entries |-> entries, used |-> used]
  <2> DEFINE x == [tier EXCEPT !.used = used, !.entries = entries]
  <2>1. DOMAIN tier = {"capacity", "entries", "used"} /\ DOMAIN x = DOMAIN tier
    OBVIOUS
  <2>2. x.capacity = c /\ x.entries = entries /\ x.used = used
    OBVIOUS
  <2>3. x = [i \in {"capacity", "entries", "used"} |-> x[i]]
    BY <2>1
  <2> HIDE DEF x
  <2>4. x = [capacity |-> c, entries |-> entries, used |-> used]
    BY <2>2, <2>3
  <2>5. QED
    BY <2>4 DEF x
<1>3. QED
  BY <1>1, <1>2

(* Objects go; those of the others stay as they are. *)
Reduced(h, tier, users, left) ==
  /\ TierOK(h, left) /\ left.capacity = tier.capacity
  /\ Resident(left) = Resident(tier) \ users
  /\ left.used = tier.used - BytesOf(tier, users \cap Resident(tier))
  /\ left.used \in Nat
  /\ \A u \in Resident(left) : left.entries[u] = tier.entries[u]

LEMMA WithoutOK ==
  ASSUME NEW h, NEW tier, TierOK(h, tier), NEW users
  PROVE  Reduced(h, tier, users, Without(tier, users))
<1> DEFINE left == Without(tier, users)
<1> DEFINE rest == Resident(tier) \ users
<1> DEFINE gone == users \cap Resident(tier)
<1>1. left = [capacity |-> tier.capacity, entries |-> Restrict(tier.entries, rest),
              used |-> tier.used - BytesOf(tier, gone)]
  <2>1. tier = [capacity |-> tier.capacity, entries |-> tier.entries, used |-> tier.used]
    BY DEF TierOK
  <2>2. left = [tier EXCEPT !.entries = Restrict(tier.entries, rest),
                            !.used = tier.used - BytesOf(tier, gone)]
    BY DEF Without, Resident
  <2> HIDE DEF left, rest, gone
  <2>3. QED
    BY <2>1, <2>2, TierExcept
<1>2. /\ left.capacity = tier.capacity /\ left.used = tier.used - BytesOf(tier, gone)
      /\ left.entries = [u \in rest |-> tier.entries[u]]
      /\ left = [capacity |-> left.capacity, entries |-> left.entries, used |-> left.used]
  BY <1>1 DEF Restrict
<1> HIDE DEF left
<1>3. Resident(left) = rest /\ \A u \in rest : left.entries[u] = tier.entries[u]
  BY <1>2 DEF Resident
<1>4. /\ Weighed(tier, Resident(tier)) /\ tier.used = BytesOf(tier, Resident(tier))
      /\ tier.capacity \in Nat /\ tier.used <= tier.capacity
  BY DEF TierOK
<1>5. Weighed(tier, rest) /\ rest = Resident(tier) \ gone /\ gone \in SUBSET Resident(tier)
  BY <1>4, WeighedPart
<1>6. tier.used = BytesOf(tier, gone) + BytesOf(tier, rest)
  <2> HIDE DEF gone, rest
  <2>1. QED
    BY <1>4, <1>5, BytesSplit
<1>7. BytesOf(tier, gone) \in Nat /\ BytesOf(tier, rest) \in Nat
  BY <1>4, <1>5, WeighedPart, BytesType
<1>8. BytesOf(left, rest) = BytesOf(tier, rest) /\ Weighed(left, rest)
  <2>1. \A u \in rest : tier.entries[u].bytes = left.entries[u].bytes
    BY <1>3
  <2> HIDE DEF rest
  <2>2. QED
    BY <1>5, <2>1, BytesAgree
<1> HIDE DEF gone
<1>9. left.used = BytesOf(left, Resident(left)) /\ left.used <= tier.capacity /\ left.used \in Nat
  BY <1>2, <1>3, <1>4, <1>6, <1>7, <1>8
<1>10. left.entries = [u \in Resident(left) |-> left.entries[u]]
  BY <1>2, <1>3
<1>11. /\ Resident(left) \subseteq Users /\ Weighed(left, Resident(left))
       /\ \A u \in Resident(left) : HasPriority(h, u)
  BY <1>3, <1>8 DEF TierOK
<1>12. TierOK(h, left)
  BY <1>2, <1>4, <1>9, <1>10, <1>11 DEF TierOK
<1>13. QED
  BY <1>2, <1>3, <1>9, <1>12 DEF Reduced, left, gone

(* What a commit leaves: the new snapshot of its user if the tier keeps it,*)
(* and of the others nothing that was not there.                           *)
Committed(tier, after, req, plan, finish) ==
  \A u \in Resident(after) :
    /\ u = req.user => /\ plan.accepted
                       /\ after.entries[u] = [version |-> req.next, tokens |-> Updated(req),
                                              bytes |-> plan.bytes, ready |-> finish]
    /\ u # req.user => u \in Resident(tier) /\ after.entries[u] = tier.entries[u]

(* A commit keeps the tier's account, never raises, and leaves just that. *)
LEMMA CommitOK ==
  ASSUME NEW h, NEW tier, TierOK(h, tier), NEW req, req.user \in Users, NEW plan,
         PlanOK(h, tier, plan, req), NEW finish
  PROVE  /\ TierOK(h, Commit(tier, req, plan, finish))
         /\ ~CommitRaises(tier, plan, req)
         /\ Committed(tier, Commit(tier, req, plan, finish), req, plan, finish)
<1> DEFINE user == req.user
<1> DEFINE go == plan.victims \cup {user}
<1> DEFINE left == Without(tier, go)
<1> DEFINE new == [version |-> req.next, tokens |-> Updated(req), bytes |-> plan.bytes,
                   ready |-> finish]
<1> DEFINE after == [left EXCEPT !.used = @ + plan.bytes, !.entries = Stored(@, user, new)]
<1>1. CASE ~plan.accepted
  <2>1. Commit(tier, req, plan, finish) = Without(tier, {user})
    BY <1>1 DEF Commit
  <2>2. Reduced(h, tier, {user}, Without(tier, {user}))
    BY WithoutOK
  <2>3. TierOK(h, Without(tier, {user})) /\ ~CommitRaises(tier, plan, req)
    BY <1>1, <2>2 DEF CommitRaises, PlanOK, Reduced
  <2>4. Committed(tier, Without(tier, {user}), req, plan, finish)
    BY <2>2 DEF Committed, Reduced
  <2>5. QED
    BY <2>1, <2>3, <2>4
<1>2. CASE plan.accepted
  <2>1. Commit(tier, req, plan, finish) = after
    BY <1>2 DEF Commit
  <2>2. /\ TierOK(h, left) /\ left.capacity = tier.capacity /\ left.used \in Nat
        /\ Resident(left) = Resident(tier) \ go
        /\ left.used = tier.used - BytesOf(tier, go \cap Resident(tier))
        /\ \A u \in Resident(left) : left.entries[u] = tier.entries[u]
    <3>1. Reduced(h, tier, go, left)
      BY WithoutOK
    <3> HIDE DEF left, go
    <3>2. QED
      BY <3>1 DEF Reduced
  <2>3. left.used + plan.bytes <= tier.capacity
    <3> DEFINE gone == go \cap Resident(tier)
    <3>1. /\ Weighed(tier, Resident(tier)) /\ tier.capacity \in Nat
          /\ tier.used = BytesOf(tier, Resident(tier)) /\ plan.bytes \in Nat
          /\ RoomFor(tier, user) + BytesOf(tier, plan.victims) >= plan.bytes
          /\ plan.victims \subseteq Resident(tier) \ {user}
      BY <1>2 DEF TierOK, PlanOK
    <3>2. BytesOf(tier, plan.victims) \in Nat /\ tier.used \in Nat
      BY <3>1, WeighedPart, BytesType
    <3>3. CASE user \in Resident(tier)
      <4>1. gone = go /\ gone \ {user} = plan.victims /\ user \in gone /\ gone \subseteq Resident(tier)
        BY <3>1, <3>3
      <4>2. Weighed(tier, gone)
        BY <3>1, <4>1, WeighedPart
      <4>3. BytesOf(tier, gone) = BytesOf(tier, plan.victims) + tier.entries[user].bytes
        <5> HIDE DEF gone
        <5>1. QED
          BY <4>1, <4>2, BytesRemove
      <4>4. tier.entries[user].bytes \in Nat
        BY <3>1, <3>3 DEF Weighed
      <4>5. RoomFor(tier, user) = tier.capacity - tier.used + tier.entries[user].bytes
        BY <3>3 DEF RoomFor
      <4>6. left.used = tier.used - BytesOf(tier, gone)
        BY <2>2
      <4> HIDE DEF gone, left
      <4>7. QED
        BY ONLY <3>1, <3>2, <4>3, <4>4, <4>5, <4>6
    <3>4. CASE user \notin Resident(tier)
      <4>1. gone = plan.victims
        BY <3>1, <3>4
      <4>2. RoomFor(tier, user) = tier.capacity - tier.used + 0
        BY <3>4 DEF RoomFor
      <4>3. left.used = tier.used - BytesOf(tier, plan.victims)
        BY <2>2, <4>1
      <4> HIDE DEF gone, left
      <4>4. QED
        BY ONLY <3>1, <3>2, <4>2, <4>3
    <3>5. QED
      BY <3>3, <3>4
  <2>4. plan.bytes \in Nat /\ HasPriority(h, user) /\ plan.victims \subseteq Resident(tier) \ {user}
    BY <1>2 DEF PlanOK
  <2>5. ~CommitRaises(tier, plan, req)
    <3> DEFINE used == left.used + plan.bytes
    <3>1. used \in Nat /\ tier.capacity \in Nat /\ used <= tier.capacity
      <4>1. tier.capacity \in Nat
        BY DEF TierOK
      <4> HIDE DEF left
      <4>2. left.used + plan.bytes \in Nat
        BY ONLY <2>2, <2>4
      <4>3. QED
        BY <2>3, <4>1, <4>2
    <3>2. ~(used > tier.capacity)
      <4> HIDE DEF used
      <4>1. QED
        BY ONLY <3>1
    <3>3. QED
      BY <2>4, <3>2 DEF CommitRaises
  <2> DEFINE rest == Resident(left)
  <2>6. user \notin rest /\ rest \subseteq Users
    BY <2>2 DEF TierOK
  <2>7. /\ left = [capacity |-> left.capacity, entries |-> left.entries, used |-> left.used]
        /\ left.entries = [u \in rest |-> left.entries[u]]
        /\ Weighed(left, rest) /\ left.used = BytesOf(left, rest)
        /\ \A u \in rest : HasPriority(h, u)
        /\ left.capacity \in Nat
    BY <2>2 DEF TierOK
  <2> HIDE DEF left
  <2>8. after = [capacity |-> left.capacity, entries |-> Stored(left.entries, user, new),
                 used |-> left.used + plan.bytes]
    <3>1. after = [left EXCEPT !.used = left.used + plan.bytes,
                               !.entries = Stored(left.entries, user, new)]
      OBVIOUS
    <3> HIDE DEF after, new
    <3>2. QED
      BY <2>7, <3>1, TierExcept
  <2> HIDE DEF new, go
  <2>9. /\ after.capacity = left.capacity /\ after.used = left.used + plan.bytes
        /\ after.entries = [u \in rest \cup {user} |-> IF u = user THEN new ELSE left.entries[u]]
        /\ after = [capacity |-> after.capacity, entries |-> after.entries, used |-> after.used]
    <3>1. DOMAIN left.entries = rest
      BY DEF Resident
    <3> HIDE DEF rest, after
    <3>2. QED
      BY <2>8, <3>1 DEF Stored
  <2> HIDE DEF after
  <2>10. /\ Resident(after) = rest \cup {user}
         /\ after.entries[user] = new
         /\ \A u \in rest : after.entries[u] = left.entries[u]
    <3>1. Resident(after) = rest \cup {user}
      BY <2>9 DEF Resident
    <3> HIDE DEF rest
    <3>2. QED
      BY <2>6, <2>9, <3>1
  <2>11. new.bytes = plan.bytes
    BY DEF new
  <2> HIDE DEF rest
  <2>12. IsFiniteSet(rest \cup {user}) /\ Weighed(after, rest \cup {user})
    <3>1. IsFiniteSet(rest \cup {user})
      BY <2>7, FS_AddElement DEF Weighed
    <3>2. \A u \in rest : after.entries[u].bytes \in Nat
      BY <2>7, <2>10 DEF Weighed
    <3>3. after.entries[user].bytes \in Nat
      BY <2>4, <2>10, <2>11
    <3>4. QED
      BY <3>1, <3>2, <3>3 DEF Weighed
  <2>13. BytesOf(after, rest) = BytesOf(left, rest)
    <3>1. \A u \in rest : left.entries[u].bytes = after.entries[u].bytes
      BY <2>10
    <3>2. QED
      BY <2>7, <3>1, BytesAgree
  <2>14. after.used = BytesOf(after, Resident(after))
    <3>1. (rest \cup {user}) \ {user} = rest /\ user \in rest \cup {user}
      BY <2>6
    <3>2. BytesOf(after, rest \cup {user}) = BytesOf(after, rest) + after.entries[user].bytes
      BY <2>12, <3>1, BytesRemove
    <3>3. QED
      BY <2>7, <2>9, <2>10, <2>11, <2>13, <3>2
  <2>15. after.used <= after.capacity /\ after.capacity \in Nat
    BY <2>2, <2>3, <2>7, <2>9
  <2>16. after.entries = [u \in Resident(after) |-> after.entries[u]]
    BY <2>9, <2>10
  <2>17. /\ Resident(after) \subseteq Users /\ Weighed(after, Resident(after))
         /\ \A u \in Resident(after) : HasPriority(h, u)
    BY <2>4, <2>6, <2>7, <2>10, <2>12
  <2>18. TierOK(h, after)
    BY <2>9, <2>14, <2>15, <2>16, <2>17 DEF TierOK
  <2>19. Committed(tier, after, req, plan, finish)
    <3>1. \A u \in rest : u # user /\ u \in Resident(tier) /\ after.entries[u] = tier.entries[u]
      <4>1. rest = Resident(tier) \ go /\ \A u \in rest : left.entries[u] = tier.entries[u]
        BY <2>2 DEF rest
      <4>2. QED
        BY <2>6, <2>10, <4>1
    <3>2. after.entries[user] = [version |-> req.next, tokens |-> Updated(req),
                                 bytes |-> plan.bytes, ready |-> finish]
      BY <2>10 DEF new
    <3>3. Resident(after) = rest \cup {user}
      BY <2>10
    <3>4. QED
      BY ONLY <1>2, <3>1, <3>2, <3>3 DEF Committed
  <2>20. QED
    BY <2>1, <2>5, <2>18, <2>19
<1>3. QED
  BY <1>1, <1>2

-----------------------------------------------------------------------------
(* The server. *)

(* The requests of a run and the clock's place among them. *)
WorkloadOK ==
  /\ scenario \in Scenarios
  /\ served \in Nat /\ seen \in Nat /\ seen <= Len(Workload)

(* The one service in flight serves a request of the workload, and its     *)
(* plans can be committed.                                                 *)
ServiceOK ==
  \A s \in service :
    /\ {"req", "plans"} \subseteq DOMAIN s /\ s.req.user \in Users
    /\ \A t \in TierIds : PlanOK(history, tiers[t], s.plans[t], s.req)

(* The inductive invariant: the histories rank their users, every tier is  *)
(* in order, and so are the plans made from them.                          *)
GRInv ==
  /\ WorkloadOK
  /\ HistoryOK(history)
  /\ tiers = [t \in TierIds |-> tiers[t]]
  /\ \A t \in TierIds : TierOK(history, tiers[t])
  /\ ServiceOK

(* A tier and a plan stay in order when histories move on. *)
LEMMA LaterTier ==
  ASSUME NEW h, NEW g, Later(h, g), NEW tier, TierOK(h, tier)
  PROVE  TierOK(g, tier)
BY DEF TierOK, Later

LEMMA LaterPlan ==
  ASSUME NEW h, NEW g, Later(h, g), NEW tier, NEW req, req.user \in Users, NEW plan,
         PlanOK(h, tier, plan, req)
  PROVE  PlanOK(g, tier, plan, req)
BY DEF PlanOK, Later

LEMMA WorkloadType ==
  ASSUME scenario \in Scenarios
  PROVE  /\ Workload \in Seq(Request) /\ Len(Workload) \in Nat
         /\ \A i \in 1..Len(Workload) :
              /\ Workload[i] \in Request /\ Workload[i].user \in Users
              /\ Workload[i].history \in Nat /\ Workload[i].inc \in Nat
              /\ Updated(Workload[i]) \in Nat
         /\ scenario.k \in Nat \ {0}
         /\ \A t \in TierIds : scenario.capacities[t] \in Nat
<1>1. /\ Workload \in Seq(Request) /\ scenario.k \in Nat \ {0}
      /\ \A t \in TierIds : scenario.capacities[t] \in Nat
  BY GRAssumption DEF Workload, TierIds
<1>2. Len(Workload) \in Nat /\ \A i \in 1..Len(Workload) : Workload[i] \in Request
  BY <1>1, LenProperties, ElementOfSeq
<1>3. ASSUME NEW req \in Request
      PROVE  /\ req.user \in Users /\ req.history \in Nat /\ req.inc \in Nat
             /\ Updated(req) \in Nat
  BY DEF Request, Updated
<1>4. QED
  BY <1>1, <1>2, <1>3

(* Observing arrivals moves the histories on. *)
LEMMA ObserveOK ==
  ASSUME GRInv, NEW time, NEW inclusive, ObserveUntil(time, inclusive)
  PROVE  Later(history, history') /\ seen' \in Nat /\ seen' <= Len(Workload)
<1> DEFINE by == ArrivedBy(time, inclusive)
<1> DEFINE upto == Max({seen, by})
<1> DEFINE new == [k \in 1..(upto - seen) |-> Workload[seen + k]]
<1>1. /\ Workload \in Seq(Request) /\ Len(Workload) \in Nat
      /\ \A i \in 1..Len(Workload) : Workload[i] \in Request
      /\ seen \in Nat /\ seen <= Len(Workload) /\ HistoryOK(history)
  BY WorkloadType DEF GRInv, WorkloadOK
<1>2. by \in Nat /\ by <= Len(Workload)
  <2> DEFINE A == {i \in DOMAIN Workload :
                     Workload[i].arrival < time \/ (inclusive /\ Workload[i].arrival = time)}
  <2>1. A \subseteq 1..Len(Workload)
    BY <1>1, LenProperties
  <2>2. IsFiniteSet(1..Len(Workload)) /\ Cardinality(1..Len(Workload)) = Len(Workload)
    BY <1>1, SizeOfInterval
  <2>3. by = Cardinality(A)
    BY DEF ArrivedBy
  <2> HIDE DEF A, by
  <2>4. QED
    BY <2>1, <2>2, <2>3, FS_Subset, FS_CardinalityType
<1> HIDE DEF by
<1>3. upto \in Nat /\ seen <= upto /\ upto <= Len(Workload)
  <2>1. upto = IF seen <= by THEN by ELSE seen
    BY <1>1, <1>2, MaxOfTwo
  <2> HIDE DEF upto
  <2>2. QED
    BY <1>1, <1>2, <2>1
<1>4. /\ seen' = upto
      /\ history' = FoldLeft(LAMBDA h, req : Record(h, req.user, req.arrival), history, new)
  BY DEF ObserveUntil, by
<1>5. history' = Recorded(history, new)
  BY <1>4 DEF Recorded
<1> HIDE DEF upto
<1>6. new \in Seq(Request)
  <2>1. upto - seen \in Nat
    BY <1>1, <1>3
  <2>2. \A k \in 1..(upto - seen) : seen + k \in 1..Len(Workload)
    BY ONLY <1>1, <1>3
  <2>3. \A k \in 1..(upto - seen) : Workload[seen + k] \in Request
    BY <1>1, <2>2
  <2>4. QED
    BY <2>1, <2>3
<1> HIDE DEF new
<1>7. QED
  BY <1>1, <1>3, <1>4, <1>5, <1>6, RecordedOK

(* A run starts with no references and empty tiers. *)
LEMMA GRInvInit == GRInit => GRInv
<1>1. SUFFICES ASSUME GRInit PROVE GRInv
  OBVIOUS
<1>2. scenario \in Scenarios /\ served = 0 /\ seen = 0 /\ service = {}
  BY <1>1 DEF GRInit
<1>3. WorkloadOK
  BY <1>2, WorkloadType DEF WorkloadOK
<1>4. HistoryOK(history)
  <2>1. history = [k |-> scenario.k, references |-> [u \in Users |-> << >>], sequence |-> 0,
                   last |-> 0]
    BY <1>1 DEF GRInit, NewHistory
  <2>2. scenario.k \in Nat \ {0}
    BY <1>2, WorkloadType
  <2>3. [u \in Users |-> << >>] \in [Users -> Seq(Nat)]
    OBVIOUS
  <2>4. history \in Histories
    BY <2>1, <2>2, <2>3 DEF Histories
  <2>5. \A u \in Users : history.references[u] = << >> /\ Len(history.references[u]) = 0
    BY <2>1
  <2>6. history.k \in Nat \ {0}
    BY <2>1, <2>2
  <2>7. QED
    BY <2>4, <2>5, <2>6 DEF HistoryOK
<1>5. tiers = [t \in TierIds |-> tiers[t]]
  BY <1>1 DEF GRInit
<1>6. ASSUME NEW t \in TierIds PROVE TierOK(history, tiers[t])
  <2>1. tiers[t] = [capacity |-> scenario.capacities[t], entries |-> << >>, used |-> 0]
    BY <1>1 DEF GRInit, NewTier
  <2>2. scenario.capacities[t] \in Nat
    BY <1>2, WorkloadType
  <2> DEFINE tier == tiers[t]
  <2>3. /\ tier = [capacity |-> tier.capacity, entries |-> tier.entries, used |-> tier.used]
        /\ tier.capacity \in Nat /\ tier.entries = << >> /\ tier.used = 0
    BY <2>1, <2>2
  <2> HIDE DEF tier
  <2>4. Resident(tier) = {} /\ tier.entries = [u \in Resident(tier) |-> tier.entries[u]]
    BY <2>3 DEF Resident
  <2>5. IsFiniteSet({})
    BY FS_EmptySet
  <2>6. Weighed(tier, Resident(tier))
    BY <2>4, <2>5 DEF Weighed
  <2>7. BytesOf(tier, Resident(tier)) = 0
    BY <2>4, <2>6, BytesStep
  <2>8. TierOK(history, tier)
    BY <2>3, <2>4, <2>6, <2>7 DEF TierOK
  <2>9. QED
    BY <2>8 DEF tier
<1>7. ServiceOK
  BY <1>2 DEF ServiceOK
<1>8. QED
  BY <1>3, <1>4, <1>5, <1>6, <1>7 DEF GRInv

(* The request that a service starts with. *)
LEMMA NextRequest ==
  ASSUME GRInv, served < Len(Workload)
  PROVE  /\ Workload[served + 1].user \in Users
         /\ Workload[served + 1].history \in Nat /\ Workload[served + 1].inc \in Nat
         /\ Updated(Workload[served + 1]) \in Nat
<1>1. scenario \in Scenarios /\ served \in Nat
  BY DEF GRInv, WorkloadOK
<1>2. Len(Workload) \in Nat
  BY <1>1, WorkloadType
<1>3. served + 1 \in 1..Len(Workload)
  BY <1>1, <1>2
<1>4. QED
  BY <1>1, <1>3, WorkloadType

(* What a service starts with: plans for the histories of that moment, all *)
(* its stages, and nothing published.                                      *)
Started(s) ==
  /\ s = [req |-> s.req, start |-> s.start, source |-> s.source, plans |-> s.plans,
          stages |-> s.stages, published |-> s.published]
  /\ s.req.user \in Users /\ s.req.history \in Nat /\ s.req.inc \in Nat
  /\ Updated(s.req) \in Nat
  /\ \E now : \A t \in TierIds : s.plans[t] = Plan(tiers[t], history', s.req, now)
  /\ s.stages = Stages(s.req, s.source)
  /\ \A t \in TierIds : s.published[t] = 0

LEMMA StartOK ==
  ASSUME GRInv, StartService
  PROVE  /\ Later(history, history') /\ seen' \in Nat /\ seen' <= Len(Workload)
         /\ \A s \in service' : Started(s)
<1> DEFINE req == Workload[served + 1]
<1> DEFINE start == Max({clock, req.arrival})
<1> DEFINE s0 == [req |-> req, start |-> start, source |-> Source(req, start),
                  plans |-> [t \in TierIds |-> Plan(tiers[t], history', req, start)],
                  stages |-> Stages(req, Source(req, start)),
                  published |-> [t \in TierIds |-> 0]]
<1>1. /\ ObserveUntil(start, TRUE) /\ served < Len(Workload) /\ service = {}
      /\ service' = service \/ service' = {s0}
  BY DEF StartService
<1>2. Later(history, history') /\ seen' \in Nat /\ seen' <= Len(Workload)
  <2> HIDE DEF start
  <2>1. QED
    BY <1>1, ObserveOK
<1>3. /\ req.user \in Users /\ req.history \in Nat /\ req.inc \in Nat
      /\ Updated(req) \in Nat
  BY <1>1, NextRequest
<1> HIDE DEF req, start
<1>4. Started(s0)
  <2>1. /\ s0.req = req
        /\ s0 = [req |-> s0.req, start |-> s0.start, source |-> s0.source, plans |-> s0.plans,
                 stages |-> s0.stages, published |-> s0.published]
        /\ \A t \in TierIds : s0.plans[t] = Plan(tiers[t], history', req, start)
    OBVIOUS
  <2>2. s0.stages = Stages(s0.req, s0.source) /\ \A t \in TierIds : s0.published[t] = 0
    OBVIOUS
  <2> HIDE DEF s0
  <2>3. QED
    BY <1>3, <2>1, <2>2 DEF Started
<1> HIDE DEF s0
<1>5. QED
  BY <1>1, <1>2, <1>4

(* Histories have moved on and the tiers are as they were: what is left to *)
(* show is that the plans are in order.                                    *)
LEMMA MovedOn ==
  ASSUME GRInv, Later(history, history'), seen' \in Nat, seen' <= Len(Workload),
         UNCHANGED <<scenario, served, tiers>>
  PROVE  /\ WorkloadOK' /\ HistoryOK(history')
         /\ tiers' = [t \in TierIds' |-> tiers'[t]]
         /\ \A t \in TierIds : tiers'[t] = tiers[t] /\ TierOK(history', tiers'[t])
         /\ TierIds' = TierIds
<1>1. TierIds' = TierIds /\ Workload' = Workload
  BY DEF TierIds, Workload
<1>2. WorkloadOK'
  BY <1>1 DEF WorkloadOK, GRInv
<1>3. HistoryOK(history')
  BY DEF Later
<1>4. ASSUME NEW t \in TierIds PROVE tiers'[t] = tiers[t] /\ TierOK(history', tiers'[t])
  BY LaterTier DEF GRInv
<1>5. tiers' = [t \in TierIds' |-> tiers'[t]]
  BY <1>1 DEF GRInv
<1>6. QED
  BY <1>1, <1>2, <1>3, <1>4, <1>5

LEMMA StartKeeps ==
  ASSUME GRInv, StartService
  PROVE  GRInv'
<1>1. /\ Later(history, history') /\ seen' \in Nat /\ seen' <= Len(Workload)
      /\ \A s \in service' : Started(s)
  BY StartOK
<1>2. UNCHANGED <<scenario, served, tiers>>
  BY DEF StartService
<1>3. /\ WorkloadOK' /\ HistoryOK(history')
      /\ tiers' = [t \in TierIds' |-> tiers'[t]]
      /\ \A t \in TierIds : tiers'[t] = tiers[t] /\ TierOK(history', tiers'[t])
      /\ TierIds' = TierIds
  BY <1>1, <1>2, MovedOn
<1>4. ASSUME NEW s \in service'
      PROVE  /\ {"req", "plans"} \subseteq DOMAIN s /\ s.req.user \in Users
             /\ \A t \in TierIds : PlanOK(history', tiers'[t], s.plans[t], s.req)
  <2>1. /\ {"req", "plans"} \subseteq DOMAIN s
        /\ s.req.user \in Users /\ Updated(s.req) \in Nat
    <3>1. /\ s = [req |-> s.req, start |-> s.start, source |-> s.source, plans |-> s.plans,
                  stages |-> s.stages, published |-> s.published]
          /\ s.req.user \in Users /\ Updated(s.req) \in Nat
      BY <1>1 DEF Started
    <3>2. {"req", "plans"} \subseteq DOMAIN [req |-> s.req, start |-> s.start, source |-> s.source,
                                            plans |-> s.plans, stages |-> s.stages,
                                            published |-> s.published]
      OBVIOUS
    <3>3. QED
      BY <3>1, <3>2
  <2>2. PICK now : \A t \in TierIds : s.plans[t] = Plan(tiers[t], history', s.req, now)
    BY <1>1 DEF Started
  <2>3. ASSUME NEW t \in TierIds PROVE PlanOK(history', tiers'[t], s.plans[t], s.req)
    <3>1. TierOK(history', tiers[t]) /\ tiers'[t] = tiers[t]
      BY <1>3
    <3>2. PlanOK(history', tiers[t], Plan(tiers[t], history', s.req, now), s.req)
      BY <1>3, <2>1, <3>1, PlansAreOK
    <3>3. QED
      BY <2>2, <3>1, <3>2
  <2>4. QED
    BY <2>1, <2>3
<1>5. ServiceOK'
  BY <1>3, <1>4 DEF ServiceOK
<1>6. QED
  BY <1>3, <1>5 DEF GRInv

LEMMA RunKeeps ==
  ASSUME GRInv, RunStage
  PROVE  GRInv'
<1>1. PICK s \in service :
        /\ ObserveUntil(clock', FALSE)
        /\ service' = {[s EXCEPT !.stages = Tail(@),
                                 !.published = [t \in TierIds |-> @[t] + PublishedBy(s, t)]]}
        /\ UNCHANGED <<scenario, served, tiers>>
  BY DEF RunStage
<1>2. Later(history, history') /\ seen' \in Nat /\ seen' <= Len(Workload)
  BY <1>1, ObserveOK
<1>3. /\ WorkloadOK' /\ HistoryOK(history')
      /\ tiers' = [t \in TierIds' |-> tiers'[t]]
      /\ \A t \in TierIds : tiers'[t] = tiers[t] /\ TierOK(history', tiers'[t])
      /\ TierIds' = TierIds
  BY <1>1, <1>2, MovedOn
<1>4. ASSUME NEW r \in service'
      PROVE  r.req = s.req /\ r.plans = s.plans /\ {"req", "plans"} \subseteq DOMAIN r
  <2>1. {"req", "plans"} \subseteq DOMAIN s
    BY DEF GRInv, ServiceOK
  <2> DEFINE rest == Tail(s.stages)
  <2> DEFINE sent == [t \in TierIds |-> s.published[t] + PublishedBy(s, t)]
  <2>2. r = [s EXCEPT !.stages = rest, !.published = sent]
    BY <1>1, <1>4
  <2> HIDE DEF rest, sent
  <2>3. QED
    BY <2>1, <2>2
<1>5. /\ s.req.user \in Users
      /\ \A t \in TierIds : PlanOK(history, tiers[t], s.plans[t], s.req)
  BY DEF GRInv, ServiceOK
<1>6. \A t \in TierIds : PlanOK(history', tiers'[t], s.plans[t], s.req)
  BY <1>2, <1>3, <1>5, LaterPlan
<1>7. ServiceOK'
  BY <1>3, <1>4, <1>5, <1>6 DEF ServiceOK
<1>8. QED
  BY <1>3, <1>7 DEF GRInv

LEMMA FinishKeeps ==
  ASSUME GRInv, Finish
  PROVE  GRInv'
<1>1. PICK s \in service :
        /\ tiers' = [t \in TierIds |-> Commit(tiers[t], s.req, s.plans[t], clock)]
        /\ served' = served + 1 /\ service' = {}
        /\ UNCHANGED <<scenario, seen, history>>
  BY DEF Finish
<1>2. TierIds' = TierIds /\ Workload' = Workload
  BY <1>1 DEF TierIds, Workload
<1>3. WorkloadOK'
  BY <1>1, <1>2 DEF WorkloadOK, GRInv
<1>4. HistoryOK(history') /\ history' = history
  BY <1>1 DEF GRInv
<1>5. ASSUME NEW t \in TierIds PROVE TierOK(history, tiers'[t])
  <2>1. /\ TierOK(history, tiers[t]) /\ s.req.user \in Users
        /\ PlanOK(history, tiers[t], s.plans[t], s.req)
    BY DEF GRInv, ServiceOK
  <2>2. TierOK(history, Commit(tiers[t], s.req, s.plans[t], clock))
    BY <2>1, CommitOK
  <2>3. QED
    BY <1>1, <2>2
<1>6. tiers' = [t \in TierIds' |-> tiers'[t]]
  BY <1>1, <1>2
<1>7. ServiceOK'
  BY <1>1 DEF ServiceOK
<1>8. QED
  BY <1>2, <1>3, <1>4, <1>5, <1>6, <1>7 DEF GRInv

(* And steps that change nothing. *)
LEMMA GRInvStutters ==
  ASSUME GRInv, UNCHANGED gr
  PROVE  GRInv'
<1>1. UNCHANGED <<scenario, served, seen, history, tiers, service>>
  BY DEF gr
<1>2. TierIds' = TierIds /\ Workload' = Workload
  BY <1>1 DEF TierIds, Workload
<1>3. WorkloadOK' /\ ServiceOK'
  BY <1>1, <1>2 DEF GRInv, WorkloadOK, ServiceOK
<1>4. QED
  BY <1>1, <1>2, <1>3 DEF GRInv

(* The invariant holds throughout a run. *)
THEOREM TiersInductive == GRSpec => []GRInv
<1>1. GRInit => GRInv
  BY GRInvInit
<1>2. GRInv /\ [GRNext]_gr => GRInv'
  <2>1. SUFFICES ASSUME GRInv, [GRNext]_gr PROVE GRInv'
    OBVIOUS
  <2>2. CASE StartService
    BY <2>1, <2>2, StartKeeps
  <2>3. CASE RunStage
    BY <2>1, <2>3, RunKeeps
  <2>4. CASE Finish
    BY <2>1, <2>4, FinishKeeps
  <2>5. CASE UNCHANGED gr
    BY <2>1, <2>5, GRInvStutters
  <2>6. QED
    BY <2>1, <2>2, <2>3, <2>4, <2>5 DEF GRNext
<1>3. QED
  BY <1>1, <1>2, PTL DEF GRSpec

(* A tier's account is what it holds and within its capacity, and the plan *)
(* of the service in flight can still be committed (cache.py:123-142).     *)
THEOREM TiersNeverOverfull == GRSpec => []NeverOverfull
<1>1. GRInv => NeverOverfull
  <2>1. SUFFICES ASSUME GRInv PROVE NeverOverfull
    OBVIOUS
  <2>2. ASSUME NEW t \in TierIds
        PROVE  /\ tiers[t].used = BytesOf(tiers[t], Resident(tiers[t]))
               /\ tiers[t].used <= tiers[t].capacity
               /\ \A u \in Resident(tiers[t]) : HasPriority(history, u)
    <3>1. TierOK(history, tiers[t])
      BY <2>1 DEF GRInv
    <3>2. QED
      BY <3>1 DEF TierOK
  <2>3. ASSUME NEW s \in service, NEW t \in TierIds
        PROVE  ~CommitRaises(tiers[t], s.plans[t], s.req)
    <3>1. /\ TierOK(history, tiers[t]) /\ s.req.user \in Users
          /\ PlanOK(history, tiers[t], s.plans[t], s.req)
      BY <2>1 DEF GRInv, ServiceOK
    <3>2. QED
      BY <3>1, CommitOK
  <2>4. QED
    BY <2>2, <2>3 DEF NeverOverfull
<1>2. QED
  BY <1>1, TiersInductive, PTL

(* A service is admitted to a tier, and evicts from it, by the recency of  *)
(* the K-th last reference (cache.py:86-121).                              *)
THEOREM ServicesAdmitByRecency == GRSpec => AdmitsByRecency
<1>1. ASSUME GRInv, [GRNext]_gr
      PROVE  \A s \in service' : service = {} /\ Updated(s.req) > 0 =>
               \A t \in TierIds : LruK(tiers[t], history', s.req, s.plans[t])
  <2>1. SUFFICES ASSUME NEW s \in service', service = {}, Updated(s.req) > 0, NEW t \in TierIds
                 PROVE  LruK(tiers[t], history', s.req, s.plans[t])
    OBVIOUS
  <2>2. StartService
    <3>1. ~RunStage
      BY <2>1 DEF RunStage
    <3>2. ~Finish
      BY <2>1 DEF Finish
    <3>3. ~UNCHANGED gr
      BY <2>1 DEF gr
    <3>4. QED
      BY <1>1, <3>1, <3>2, <3>3 DEF GRNext
  <2>3. Later(history, history') /\ Started(s)
    BY <1>1, <2>2, StartOK
  <2>4. TierOK(history', tiers[t]) /\ HistoryOK(history')
    <3>1. TierOK(history, tiers[t])
      BY <1>1 DEF GRInv
    <3>2. QED
      BY <2>3, <3>1, LaterTier DEF Later
  <2>5. PICK now : s.plans[t] = Plan(tiers[t], history', s.req, now)
    BY <2>3 DEF Started
  <2>6. s.req.user \in Users /\ Updated(s.req) \in Nat
    BY <2>3 DEF Started
  <2>7. LruK(tiers[t], history', s.req, Plan(tiers[t], history', s.req, now))
    BY <2>1, <2>4, <2>6, PlansAreLruK
  <2>8. QED
    BY <2>5, <2>7
<1>2. QED
  BY <1>1, TiersInductive, PTL DEF GRSpec, AdmitsByRecency
-----------------------------------------------------------------------------
(* What a stage writes of the snapshot. *)

(* The recursion that BytesPublished runs, and its values on prefixes. *)
PublishRun(r, ops, at) ==
  r = [s \in SUBSET (DOMAIN ops) |->
         IF s = {} THEN 0 ELSE LET n == Max(s) IN r[s \ {n}] + Published(ops[n], at)]

PrefixSums(v, ops, at) ==
  /\ v \in [0..Len(ops) -> Nat] /\ v[0] = 0
  /\ \A i \in 1..Len(ops) : v[i] = v[i - 1] + Published(ops[i], at)

(* Operators whose published bytes can be counted. *)
Counted(ops, at) ==
  /\ DOMAIN ops = 1..Len(ops) /\ Len(ops) \in Nat
  /\ \A i \in 1..Len(ops) : Published(ops[i], at) \in Nat

LEMMA PublishedRun ==
  ASSUME NEW ops, NEW at
  PROVE  BytesPublished(ops, at) = (CHOOSE r : PublishRun(r, ops, at))[DOMAIN ops]
BY DEF BytesPublished, FoldLeft, MapThenFoldSet, PublishRun

LEMMA PublishRunExists ==
  ASSUME NEW ops, NEW at, Counted(ops, at)
  PROVE  \E r : PublishRun(r, ops, at)
<1> DEFINE D == DOMAIN ops
<1> DEFINE F == [p \in D \X Nat |-> p[2] + Published(ops[p[1]], at)]
<1> DEFINE c == [s \in SUBSET D |-> Max(s)]
<1>1. /\ D = 1..Len(ops) /\ Len(ops) \in Nat /\ IsFiniteSet(D)
      /\ \A i \in D : Published(ops[i], at) \in Nat
  BY SizeOfInterval DEF Counted
<1>2. F \in [D \X Nat -> Nat]
  BY <1>1
<1>3. \A s \in SUBSET D : s # {} => c[s] \in s
  BY <1>1, GreatestElement
<1>4. PICK r \in [SUBSET D -> Nat] : Recursion(r, D, 0, F, c)
  <2>1. 0 \in Nat /\ IsFiniteSet(D)
    BY <1>1
  <2> HIDE DEF F, c, D
  <2>2. QED
    BY <1>2, <1>3, <2>1, RecursionExists
<1>5. ASSUME NEW s \in SUBSET D
      PROVE  r[s] = IF s = {} THEN 0
                    ELSE LET n == Max(s) IN r[s \ {n}] + Published(ops[n], at)
  <2>1. r[s] = IF s = {} THEN 0 ELSE F[<<c[s], r[s \ {c[s]}]>>]
    <3> HIDE DEF F, c
    <3>1. QED
      BY <1>4 DEF Recursion
  <2>2. CASE s = {}
    BY <2>1, <2>2
  <2>3. CASE s # {}
    <3>1. c[s] \in D /\ s \ {c[s]} \in SUBSET D
      BY <1>3, <2>3
    <3>2. r[s \ {c[s]}] \in Nat
      BY <1>4, <3>1
    <3>3. F[<<c[s], r[s \ {c[s]}]>>] = r[s \ {c[s]}] + Published(ops[c[s]], at)
      <4> HIDE DEF c, D
      <4>1. QED
        BY <3>1, <3>2
    <3>4. c[s] = Max(s)
      OBVIOUS
    <3>5. QED
      BY <2>1, <2>3, <3>3, <3>4
  <2>4. QED
    BY <2>2, <2>3
<1>6. PublishRun(r, ops, at)
  BY <1>5 DEF PublishRun
<1>7. QED
  BY <1>6

(* The value on the first n is that on the first n - 1 and the n-th. *)
LEMMA PublishRunStep ==
  ASSUME NEW ops, NEW at, Counted(ops, at), NEW r, PublishRun(r, ops, at)
  PROVE  /\ r[{}] = 0
         /\ \A n \in 1..Len(ops) : r[1..n] = r[1..(n - 1)] + Published(ops[n], at)
<1>1. ASSUME NEW s \in SUBSET (DOMAIN ops)
      PROVE  r[s] = IF s = {} THEN 0 ELSE r[s \ {Max(s)}] + Published(ops[Max(s)], at)
  BY Zenon DEF PublishRun
<1>2. r[{}] = 0
  BY <1>1
<1>3. ASSUME NEW n \in 1..Len(ops)
      PROVE  r[1..n] = r[1..(n - 1)] + Published(ops[n], at)
  <2>1. n \in Nat \ {0} /\ 1..n \in SUBSET (DOMAIN ops)
    BY DEF Counted
  <2>2. 1..n # {} /\ Max(1..n) = n /\ (1..n) \ {n} = 1..(n - 1)
    BY <2>1, TopOfInterval
  <2>3. r[1..n] = r[(1..n) \ {Max(1..n)}] + Published(ops[Max(1..n)], at)
    BY <1>1, <2>1, <2>2
  <2>4. QED
    BY <2>2, <2>3
<1>4. QED
  BY <1>2, <1>3

(* Any prefix sums end in the bytes published. *)
LEMMA PublishedBySums ==
  ASSUME NEW ops, NEW at, Counted(ops, at), NEW v, PrefixSums(v, ops, at)
  PROVE  BytesPublished(ops, at) = v[Len(ops)]
<1> DEFINE r == CHOOSE r : PublishRun(r, ops, at)
<1>1. PublishRun(r, ops, at)
  BY PublishRunExists
<1>2. BytesPublished(ops, at) = r[DOMAIN ops]
  BY PublishedRun
<1> HIDE DEF r
<1>3. /\ r[{}] = 0
      /\ \A n \in 1..Len(ops) : r[1..n] = r[1..(n - 1)] + Published(ops[n], at)
  BY <1>1, PublishRunStep
<1>4. /\ v[0] = 0 /\ Len(ops) \in Nat /\ DOMAIN ops = 1..Len(ops)
      /\ \A i \in 1..Len(ops) : v[i] = v[i - 1] + Published(ops[i], at)
  BY DEF PrefixSums, Counted
<1> DEFINE M == {n \in 0..Len(ops) : r[1..n] # v[n]}
<1>5. M = {}
  <2>1. SUFFICES ASSUME M # {} PROVE FALSE
    OBVIOUS
  <2>2. PICK m \in M : \A i \in M : m <= i
    <3>1. M \in SUBSET Nat
      BY <1>4
    <3>2. QED
      BY <2>1, <3>1, LeastElement
  <2>3. m \in 0..Len(ops) /\ r[1..m] # v[m]
    BY <2>2
  <2>4. m # 0
    <3>1. 1..0 = {}
      OBVIOUS
    <3>2. QED
      BY <1>3, <1>4, <2>3, <3>1
  <2>5. m \in 1..Len(ops) /\ m - 1 \in 0..Len(ops) /\ ~(m <= m - 1)
    BY ONLY <1>4, <2>3, <2>4
  <2>6. m - 1 \notin M
    <3> HIDE DEF M
    <3>1. QED
      BY <2>2, <2>5
  <2>7. r[1..(m - 1)] = v[m - 1]
    BY <2>5, <2>6
  <2>8. QED
    BY <1>3, <1>4, <2>3, <2>5, <2>7
<1>6. QED
  <2>1. Len(ops) \in 0..Len(ops)
    BY <1>4
  <2>2. r[1..Len(ops)] = v[Len(ops)]
    BY <1>5, <2>1
  <2>3. QED
    BY <1>2, <1>4, <2>2

(* There are such sums. *)
LEMMA SumsExist ==
  ASSUME NEW ops, NEW at, Counted(ops, at)
  PROVE  \E v : PrefixSums(v, ops, at)
<1>1. PICK r : PublishRun(r, ops, at)
  BY PublishRunExists
<1>2. /\ r[{}] = 0
      /\ \A n \in 1..Len(ops) : r[1..n] = r[1..(n - 1)] + Published(ops[n], at)
  BY <1>1, PublishRunStep
<1>3. /\ Len(ops) \in Nat
      /\ \A i \in 1..Len(ops) : Published(ops[i], at) \in Nat
  BY DEF Counted
<1> DEFINE v == [n \in 0..Len(ops) |-> r[1..n]]
<1>4. v[0] = 0
  <2>1. 1..0 = {} /\ 0 \in 0..Len(ops)
    BY <1>3
  <2>2. QED
    BY <1>2, <2>1
<1>5. \A i \in 1..Len(ops) : v[i] = v[i - 1] + Published(ops[i], at)
  <2>1. \A i \in 1..Len(ops) : i \in 0..Len(ops) /\ i - 1 \in 0..Len(ops)
    BY <1>3
  <2>2. QED
    BY <1>2, <2>1
<1> HIDE DEF v
<1> DEFINE M == {n \in 0..Len(ops) : v[n] \notin Nat}
<1>6. M = {}
  <2>1. SUFFICES ASSUME M # {} PROVE FALSE
    OBVIOUS
  <2>2. PICK m \in M : \A i \in M : m <= i
    <3>1. M \in SUBSET Nat
      BY <1>3
    <3>2. QED
      BY <2>1, <3>1, LeastElement
  <2>3. m \in 0..Len(ops) /\ v[m] \notin Nat
    BY <2>2
  <2>4. m # 0
    BY <1>4, <2>3
  <2>5. m \in 1..Len(ops) /\ m - 1 \in 0..Len(ops) /\ ~(m <= m - 1)
    BY ONLY <1>3, <2>3, <2>4
  <2>6. m - 1 \notin M
    <3> HIDE DEF M
    <3>1. QED
      BY <2>2, <2>5
  <2>7. v[m - 1] \in Nat /\ Published(ops[m], at) \in Nat /\ v[m] = v[m - 1] + Published(ops[m], at)
    BY <1>3, <1>5, <2>5, <2>6
  <2>8. v[m] \in Nat
    BY ONLY <2>7
  <2>9. QED
    BY <2>3, <2>8
<1>7. v \in [0..Len(ops) -> Nat]
  BY <1>6 DEF v
<1>8. PrefixSums(v, ops, at)
  BY <1>4, <1>5, <1>7 DEF PrefixSums
<1>9. QED
  BY <1>8

(* Counting the operators of one sequence after those of another. *)
LEMMA PublishedConcat ==
  ASSUME NEW X, NEW s \in Seq(X), NEW t \in Seq(X), NEW at, Counted(s, at), Counted(t, at)
  PROVE  /\ Counted(s \o t, at)
         /\ BytesPublished(s, at) \in Nat /\ BytesPublished(t, at) \in Nat
         /\ BytesPublished(s \o t, at) = BytesPublished(s, at) + BytesPublished(t, at)
<1> DEFINE n == Len(s)
<1> DEFINE m == Len(t)
<1> DEFINE st == s \o t
<1>1. /\ n \in Nat /\ m \in Nat
      /\ \A i \in 1..n : Published(s[i], at) \in Nat
      /\ \A i \in 1..m : Published(t[i], at) \in Nat
  BY DEF Counted
<1>2. /\ st \in Seq(X) /\ Len(st) = n + m
      /\ \A i \in 1..(n + m) : st[i] = IF i <= n THEN s[i] ELSE t[i - n]
  BY ConcatProperties
<1>3. PICK v : PrefixSums(v, s, at)
  BY SumsExist
<1>4. PICK w : PrefixSums(w, t, at)
  BY SumsExist
<1>5. /\ v \in [0..n -> Nat] /\ v[0] = 0 /\ \A i \in 1..n : v[i] = v[i - 1] + Published(s[i], at)
      /\ w \in [0..m -> Nat] /\ w[0] = 0 /\ \A i \in 1..m : w[i] = w[i - 1] + Published(t[i], at)
  BY <1>3, <1>4 DEF PrefixSums
<1>6. BytesPublished(s, at) = v[n] /\ BytesPublished(t, at) = w[m]
  BY <1>3, <1>4, PublishedBySums
<1>7. DOMAIN st = 1..Len(st)
  BY <1>2, LenProperties
<1> HIDE DEF n, m, st
<1>8. \A i \in 1..(n + m) : /\ i <= n => i \in 1..n
                            /\ ~(i <= n) => i - n \in 1..m
  BY ONLY <1>1
<1>9. Counted(st, at)
  <2>1. n + m \in Nat
    BY <1>1
  <2>2. ASSUME NEW i \in 1..(n + m) PROVE Published(st[i], at) \in Nat
    BY <1>1, <1>2, <1>8
  <2>3. QED
    BY <1>2, <1>7, <2>1, <2>2 DEF Counted
<1> DEFINE x == [i \in 0..(n + m) |-> IF i <= n THEN v[i] ELSE v[n] + w[i - n]]
<1>10. v[n] \in Nat /\ w[m] \in Nat
  <2>1. n \in 0..n /\ m \in 0..m
    BY <1>1
  <2>2. QED
    BY <1>5, <2>1
<1>11. x \in [0..(n + m) -> Nat]
  <2>1. ASSUME NEW i \in 0..(n + m)
        PROVE  (IF i <= n THEN v[i] ELSE v[n] + w[i - n]) \in Nat
    <3>1. CASE i <= n
      <4>1. i \in 0..n
        BY <1>1, <3>1
      <4>2. QED
        BY <1>5, <3>1, <4>1
    <3>2. CASE ~(i <= n)
      <4>1. i - n \in 0..m
        BY <1>1, <3>2
      <4>2. w[i - n] \in Nat
        BY <1>5, <4>1
      <4>3. v[n] + w[i - n] \in Nat
        BY <1>10, <4>2
      <4>4. QED
        BY <3>2, <4>3
    <3>3. QED
      BY <3>1, <3>2
  <2>2. QED
    BY <2>1
<1>12. x[0] = 0
  <2>1. 0 \in 0..(n + m) /\ 0 <= n
    BY <1>1
  <2>2. QED
    BY <1>5, <2>1
<1>13. ASSUME NEW i \in 1..(n + m) PROVE x[i] = x[i - 1] + Published(st[i], at)
  <2>1. i \in 0..(n + m) /\ i - 1 \in 0..(n + m) /\ i \in Nat
    BY <1>1
  <2>2. CASE i <= n
    <3>1. i \in 1..n /\ i - 1 <= n
      BY <1>1, <2>2
    <3>2. x[i] = v[i] /\ x[i - 1] = v[i - 1]
      BY <2>1, <2>2, <3>1
    <3>3. QED
      BY <1>2, <1>5, <2>2, <3>1, <3>2
  <2>3. CASE ~(i <= n)
    <3>1. i - n \in 1..m /\ (i - 1) - n = (i - n) - 1 /\ i - n \in Int
      BY <1>1, <2>3
    <3>2. x[i] = v[n] + w[i - n]
      BY <2>1, <2>3
    <3>3. w[i - n] = w[(i - n) - 1] + Published(t[i - n], at)
      BY <1>5, <3>1
    <3>4. x[i - 1] = v[n] + w[(i - n) - 1]
      <4>1. CASE i - 1 <= n
        <5>1. i - 1 = n /\ (i - n) - 1 = 0
          BY <1>1, <2>1, <2>3, <4>1
        <5>2. x[i - 1] = v[n]
          BY <2>1, <4>1, <5>1
        <5>3. w[(i - n) - 1] = 0
          BY <1>5, <5>1
        <5> HIDE DEF x
        <5>4. QED
          BY <1>10, <5>2, <5>3
      <4>2. CASE ~(i - 1 <= n)
        BY <2>1, <3>1, <4>2
      <4>3. QED
        BY <4>1, <4>2
    <3>5. st[i] = t[i - n] /\ Published(t[i - n], at) \in Nat /\ w[(i - n) - 1] \in Nat
      <4>1. (i - n) - 1 \in 0..m
        BY <1>1, <3>1
      <4>2. QED
        BY <1>1, <1>2, <1>5, <2>3, <3>1, <4>1
    <3> HIDE DEF x
    <3>6. QED
      BY <1>10, <3>2, <3>3, <3>4, <3>5
  <2>4. QED
    BY <2>2, <2>3
<1>14. x[n + m] = v[n] + w[m]
  <2>1. n + m \in 0..(n + m) /\ (n + m) - n = m
    BY <1>1
  <2>2. CASE n + m <= n
    <3>1. m = 0 /\ n + m = n
      BY <1>1, <2>2
    <3>2. x[n + m] = v[n] /\ w[m] = 0
      BY <1>5, <2>1, <2>2, <3>1
    <3> HIDE DEF x
    <3>3. QED
      BY <1>10, <3>2
  <2>3. CASE ~(n + m <= n)
    BY <2>1, <2>3
  <2>4. QED
    BY <2>2, <2>3
<1> HIDE DEF x
<1>15. PrefixSums(x, st, at)
  BY <1>2, <1>11, <1>12, <1>13 DEF PrefixSums
<1>16. BytesPublished(st, at) = v[n] + w[m]
  BY <1>2, <1>9, <1>14, <1>15, PublishedBySums
<1>17. QED
  BY <1>6, <1>9, <1>10, <1>16 DEF st, n, m

(* Operators that publish nothing at a location. *)
Silent(ops, at) == \A i \in 1..Len(ops) : Published(ops[i], at) = 0

LEMMA NothingPublished ==
  ASSUME NEW X, NEW ops \in Seq(X), NEW at, Silent(ops, at)
  PROVE  Counted(ops, at) /\ BytesPublished(ops, at) = 0
<1>1. DOMAIN ops = 1..Len(ops) /\ Len(ops) \in Nat
  BY LenProperties
<1>2. Counted(ops, at)
  BY <1>1 DEF Counted, Silent
<1> DEFINE v == [n \in 0..Len(ops) |-> 0]
<1>3. \A i \in 1..Len(ops) : i \in 0..Len(ops) /\ i - 1 \in 0..Len(ops)
  BY <1>1
<1>4. PrefixSums(v, ops, at)
  BY <1>1, <1>3 DEF PrefixSums, Silent
<1>5. Len(ops) \in 0..Len(ops)
  BY <1>1
<1>6. QED
  BY <1>2, <1>4, <1>5, PublishedBySums

(* One operator. *)
LEMMA OnePublished ==
  ASSUME NEW op, NEW at, Published(op, at) \in Nat
  PROVE  Counted(<<op>>, at) /\ BytesPublished(<<op>>, at) = Published(op, at)
<1>1. Len(<<op>>) = 1 /\ DOMAIN <<op>> = 1..1 /\ \A i \in 1..1 : <<op>>[i] = op
  OBVIOUS
<1>2. Counted(<<op>>, at)
  BY <1>1 DEF Counted
<1> DEFINE v == [n \in 0..1 |-> IF n = 0 THEN 0 ELSE Published(op, at)]
<1>3. PrefixSums(v, <<op>>, at)
  <2>1. v \in [0..1 -> Nat] /\ v[0] = 0 /\ v[1] = Published(op, at)
    OBVIOUS
  <2>2. v[1] = v[1 - 1] + Published(op, at)
    BY <2>1
  <2>3. \A i \in 1..1 : i = 1
    OBVIOUS
  <2> HIDE DEF v
  <2>4. QED
    BY <1>1, <2>1, <2>2, <2>3 DEF PrefixSums
<1>4. v[1] = Published(op, at)
  OBVIOUS
<1> HIDE DEF v
<1>5. QED
  BY <1>1, <1>2, <1>3, <1>4, PublishedBySums

-----------------------------------------------------------------------------
(* Which stage publishes, and what. *)

Elements(s) == {s[i] : i \in 1..Len(s)}
IsSequence(s) == s \in Seq(Elements(s))

(* These operators publish n bytes at a location. *)
Publishing(ops, at, n) ==
  IsSequence(ops) /\ Counted(ops, at) /\ n \in Nat /\ BytesPublished(ops, at) = n

LEMMA SequenceElements ==
  ASSUME NEW X, NEW s \in Seq(X)
  PROVE  IsSequence(s)
<1>1. Len(s) \in Nat /\ s = [i \in 1..Len(s) |-> s[i]]
  BY LenProperties
<1>2. \A i \in 1..Len(s) : s[i] \in Elements(s)
  BY DEF Elements
<1>3. QED
  BY <1>1, <1>2 DEF IsSequence

LEMMA SequenceOf ==
  ASSUME NEW n \in Nat, NEW s, s = [i \in 1..n |-> s[i]]
  PROVE  IsSequence(s) /\ Len(s) = n
<1> DEFINE X == {s[i] : i \in 1..n}
<1> DEFINE g == [i \in 1..n |-> s[i]]
<1>1. g \in Seq(X) /\ Len(g) = n
  OBVIOUS
<1>2. s = g
  OBVIOUS
<1> HIDE DEF g, X
<1>3. QED
  BY <1>1, <1>2, SequenceElements

(* Two sequences have their elements in one set. *)
LEMMA SequencesJoin ==
  ASSUME NEW s, NEW t, IsSequence(s), IsSequence(t)
  PROVE  /\ s \in Seq(Elements(s) \cup Elements(t)) /\ t \in Seq(Elements(s) \cup Elements(t))
         /\ IsSequence(s \o t)
<1> DEFINE X == Elements(s) \cup Elements(t)
<1>1. s \in Seq(X) /\ t \in Seq(X)
  BY DEF IsSequence
<1>2. s \o t \in Seq(X)
  BY <1>1, ConcatProperties
<1>3. QED
  BY <1>1, <1>2, SequenceElements

LEMMA PublishingJoin ==
  ASSUME NEW s, NEW t, NEW at, NEW n, NEW m, Publishing(s, at, n), Publishing(t, at, m)
  PROVE  Publishing(s \o t, at, n + m)
<1> DEFINE X == Elements(s) \cup Elements(t)
<1>1. s \in Seq(X) /\ t \in Seq(X) /\ IsSequence(s \o t)
  BY SequencesJoin DEF Publishing
<1>2. /\ Counted(s \o t, at)
      /\ BytesPublished(s \o t, at) = BytesPublished(s, at) + BytesPublished(t, at)
  BY <1>1, PublishedConcat DEF Publishing
<1>3. n \in Nat /\ m \in Nat /\ BytesPublished(s, at) = n /\ BytesPublished(t, at) = m
  BY DEF Publishing
<1>4. n + m \in Nat
  BY <1>3
<1>5. QED
  BY <1>1, <1>2, <1>3, <1>4 DEF Publishing

LEMMA PublishingNone ==
  ASSUME NEW at
  PROVE  Publishing(<< >>, at, 0)
<1>1. << >> \in Seq({}) /\ Len(<< >>) = 0
  OBVIOUS
<1>2. Silent(<< >>, at)
  BY <1>1 DEF Silent
<1>3. Counted(<< >>, at) /\ BytesPublished(<< >>, at) = 0
  BY <1>1, <1>2, NothingPublished
<1>4. QED
  BY <1>1, <1>3, SequenceElements DEF Publishing

LEMMA PublishingOne ==
  ASSUME NEW op, NEW at, Published(op, at) \in Nat
  PROVE  Publishing(<<op>>, at, Published(op, at))
<1>1. <<op>> \in Seq({op})
  OBVIOUS
<1>2. Counted(<<op>>, at) /\ BytesPublished(<<op>>, at) = Published(op, at)
  BY OnePublished
<1>3. QED
  BY <1>1, <1>2, SequenceElements DEF Publishing

(* Operators of another name publish nothing; the one of that name does so *)
(* where it is sent.                                                       *)
LEMMA OtherOperator ==
  ASSUME NEW name, name # "publish", NEW kind, NEW layer, NEW bytes, NEW to, NEW at
  PROVE  Publishing(<<Op(name, kind, layer, bytes, to)>>, at, 0)
<1>1. Published(Op(name, kind, layer, bytes, to), at) = 0
  BY DEF Published, Op
<1>2. QED
  BY <1>1, PublishingOne

LEMMA OtherMemory ==
  ASSUME NEW name, name # "publish", NEW kind, NEW layer, NEW bytes, NEW to, NEW at
  PROVE  Publishing(Memory(name, kind, layer, bytes, to), at, 0)
<1>1. CASE bytes = 0
  BY <1>1, PublishingNone DEF Memory
<1>2. CASE bytes # 0
  BY <1>2, OtherOperator DEF Memory
<1>3. QED
  BY <1>1, <1>2

LEMMA PublishMemory ==
  ASSUME NEW kind, NEW layer, NEW bytes \in Nat, NEW to, NEW at
  PROVE  Publishing(Memory("publish", kind, layer, bytes, to), at, IF to = at THEN bytes ELSE 0)
<1> DEFINE op == Op("publish", kind, layer, bytes, to)
<1>1. Published(op, at) = IF to = at THEN bytes ELSE 0
  BY DEF Published, Op
<1>2. CASE bytes = 0
  BY <1>2, PublishingNone DEF Memory
<1>3. CASE bytes # 0
  <2>1. Memory("publish", kind, layer, bytes, to) = <<op>>
    BY <1>3 DEF Memory
  <2>2. Published(op, at) \in Nat
    BY <1>1
  <2> HIDE DEF op
  <2>3. Publishing(<<op>>, at, Published(op, at))
    BY <2>2, PublishingOne
  <2>4. QED
    BY <1>1, <2>1, <2>3
<1>4. QED
  BY <1>2, <1>3

(* Sequences one after another, with what is published up to each. *)
LEMMA PublishingFlat ==
  ASSUME NEW n \in Nat \ {0}, NEW seqs, seqs = [i \in 1..n |-> seqs[i]], NEW at,
         NEW v \in [0..n -> Nat], v[0] = 0,
         \A i \in 1..n : v[i - 1] <= v[i] /\ Publishing(seqs[i], at, v[i] - v[i - 1])
  PROVE  Publishing(FlattenSeq(seqs), at, v[n])
<1> DEFINE X == UNION {Elements(seqs[i]) : i \in 1..n}
<1>1. \A i \in 1..n : seqs[i] \in Seq(X)
  <2>1. ASSUME NEW i \in 1..n PROVE seqs[i] \in Seq(X)
    <3>1. seqs[i] \in Seq(Elements(seqs[i])) /\ Elements(seqs[i]) \subseteq X
      BY DEF Publishing, IsSequence
    <3>2. QED
      BY <3>1
  <2>2. QED
    BY <2>1
<1> HIDE DEF X
<1>2. seqs \in Seq(Seq(X)) /\ Len(seqs) = n
  <2>1. [i \in 1..n |-> seqs[i]] \in Seq(Seq(X)) /\ Len([i \in 1..n |-> seqs[i]]) = n
    BY <1>1
  <2>2. QED
    BY <2>1
<1>3. PICK f : FlattenedTo(f, seqs, X)
  BY <1>2, Flattened
<1>4. /\ f[1] = seqs[1] /\ FlattenSeq(seqs) = f[n]
      /\ \A i \in 1..n : f[i] \in Seq(X) /\ (i # 1 => f[i] = f[i - 1] \o seqs[i])
  BY <1>2, <1>3 DEF FlattenedTo
<1>5. \A i \in 0..n : v[i] \in Nat
  OBVIOUS
<1> DEFINE M == {i \in 1..n : ~Publishing(f[i], at, v[i])}
<1>6. M = {}
  <2>1. SUFFICES ASSUME M # {} PROVE FALSE
    OBVIOUS
  <2>2. PICK m \in M : \A i \in M : m <= i
    <3>1. M \in SUBSET Nat
      OBVIOUS
    <3>2. QED
      BY <2>1, <3>1, LeastElement
  <2>3. m \in 1..n /\ ~Publishing(f[m], at, v[m])
    BY <2>2
  <2>4. Publishing(seqs[m], at, v[m] - v[m - 1]) /\ v[m] \in Nat
    BY <1>5, <2>3
  <2>5. m # 1
    <3>1. ASSUME m = 1 PROVE FALSE
      <4>1. v[m] - v[m - 1] = v[m]
        <5>1. v[m - 1] = 0
          BY <3>1
        <5>2. QED
          BY <2>4, <5>1
      <4>2. f[m] = seqs[m]
        BY <1>4, <3>1
      <4>3. QED
        BY <2>3, <2>4, <4>1, <4>2
    <3>2. QED
      BY <3>1
  <2>6. m - 1 \in 1..n /\ ~(m <= m - 1) /\ m - 1 \in 0..n
    BY ONLY <2>3, <2>5, n \in Nat \ {0}
  <2>7. m - 1 \notin M
    <3> HIDE DEF M
    <3>1. QED
      BY <2>2, <2>6
  <2>8. Publishing(f[m - 1], at, v[m - 1])
    BY <2>6, <2>7
  <2>9. f[m] = f[m - 1] \o seqs[m]
    BY <1>4, <2>3, <2>5
  <2>10. v[m - 1] + (v[m] - v[m - 1]) = v[m]
    BY <1>5, <2>4, <2>6
  <2>11. Publishing(f[m - 1] \o seqs[m], at, v[m - 1] + (v[m] - v[m - 1]))
    BY <2>4, <2>8, PublishingJoin
  <2>12. QED
    BY <2>3, <2>9, <2>10, <2>11
<1>7. n \in 1..n
  OBVIOUS
<1>8. Publishing(f[n], at, v[n])
  BY <1>6, <1>7
<1>9. QED
  BY <1>4, <1>8

(* A layer publishes nothing. *)
LEMMA LayerPublishes ==
  ASSUME NEW req, NEW stage, NEW source, NEW layer, NEW at
  PROVE  Publishing(LayerOps(req, stage, source, layer), at, 0)
<1> DEFINE kv == Share(KvBytes, layer)
<1> DEFINE a == Memory("weights", "load", layer, Share(WeightBytes, layer), "local")
<1> DEFINE b == <<Op("projection", "compute", layer, 0, "npu")>>
<1> DEFINE c == Memory("working_kv_append", "store", layer, stage.queries * kv, "local")
<1> DEFINE d == Memory("user_history", "load", layer, Streamed(req, stage, source) * kv,
                       IF Direct(source) THEN Locations[source] ELSE "local")
<1> DEFINE e == Memory("working_kv_read", "load", layer,
                       LocalTokens(req, stage, source) * kv, "local")
<1> DEFINE p == Op("attention", "compute", layer, 0, "npu")
<1> DEFINE q == Op("output_ffn", "compute", layer, 0, "npu")
<1>1. LayerOps(req, stage, source, layer) = a \o b \o c \o d \o e \o <<p, q>>
  BY DEF LayerOps
<1>2. Publishing(a, at, 0) /\ Publishing(c, at, 0) /\ Publishing(d, at, 0) /\ Publishing(e, at, 0)
  <2>1. "weights" # "publish" /\ "working_kv_append" # "publish" /\ "user_history" # "publish"
        /\ "working_kv_read" # "publish"
    OBVIOUS
  <2>2. QED
    BY <2>1, OtherMemory
<1>3. Publishing(b, at, 0)
  <2>1. "projection" # "publish"
    OBVIOUS
  <2>2. QED
    BY <2>1, OtherOperator
<1>4. Published(p, at) = 0 /\ Published(q, at) = 0
  BY DEF Published, Op
<1> HIDE DEF a, b, c, d, e, p, q
<1>5. Publishing(<<p, q>>, at, 0) /\ 0 + 0 = 0
  <2>1. <<p, q>> \in Seq({p, q}) /\ Len(<<p, q>>) = 2
    OBVIOUS
  <2>2. Silent(<<p, q>>, at)
    BY <1>4, <2>1 DEF Silent
  <2>3. Counted(<<p, q>>, at) /\ BytesPublished(<<p, q>>, at) = 0
    BY <2>1, <2>2, NothingPublished
  <2>4. IsSequence(<<p, q>>)
    BY <2>1, SequenceElements
  <2> DEFINE pq == <<p, q>>
  <2>5. IsSequence(pq) /\ Counted(pq, at) /\ BytesPublished(pq, at) = 0
    BY <2>3, <2>4
  <2> HIDE DEF pq
  <2>6. Publishing(pq, at, 0)
    BY <2>5 DEF Publishing
  <2>7. QED
    BY <2>6 DEF pq
<1>6. Publishing(a \o b, at, 0 + 0)
  BY <1>2, <1>3, PublishingJoin
<1>7. Publishing(a \o b \o c, at, 0 + 0)
  BY <1>2, <1>5, <1>6, PublishingJoin
<1>8. Publishing(a \o b \o c \o d, at, 0 + 0)
  BY <1>2, <1>5, <1>7, PublishingJoin
<1>9. Publishing(a \o b \o c \o d \o e, at, 0 + 0)
  BY <1>2, <1>5, <1>8, PublishingJoin
<1>10. Publishing(a \o b \o c \o d \o e \o <<p, q>>, at, 0 + 0)
  BY <1>5, <1>9, PublishingJoin
<1>11. QED
  BY <1>1, <1>5, <1>10

LEMMA LayersPublish ==
  ASSUME NEW req, NEW stage, NEW source, NEW at
  PROVE  Publishing(FlattenSeq([l \in 1..NumLayers |-> LayerOps(req, stage, source, l - 1)]),
                    at, 0)
<1> DEFINE seqs == [l \in 1..NumLayers |-> LayerOps(req, stage, source, l - 1)]
<1> DEFINE v == [i \in 0..NumLayers |-> 0]
<1>1. NumLayers \in Nat \ {0}
  BY GRStagesAssumption
<1>2. seqs = [i \in 1..NumLayers |-> seqs[i]]
  OBVIOUS
<1>3. \A i \in 1..NumLayers : Publishing(seqs[i], at, 0)
  BY LayerPublishes
<1>4. v \in [0..NumLayers -> Nat] /\ v[0] = 0 /\ v[NumLayers] = 0
  BY <1>1
<1>5. \A i \in 1..NumLayers : v[i] = 0 /\ v[i - 1] = 0
  BY <1>1
<1> HIDE DEF v, seqs
<1>6. \A i \in 1..NumLayers : v[i - 1] <= v[i] /\ Publishing(seqs[i], at, v[i] - v[i - 1])
  BY <1>3, <1>5
<1>7. Publishing(FlattenSeq(seqs), at, v[NumLayers])
  BY <1>1, <1>2, <1>4, <1>6, PublishingFlat
<1>8. QED
  BY <1>4, <1>7 DEF seqs

(* The plans write to each tier at its own location. *)
LEMMA PlansPublish ==
  ASSUME NEW plans, NEW t \in DOMAIN Locations, \A i \in DOMAIN Locations : plans[i].writes \in Nat
  PROVE  Publishing(FlattenSeq([i \in DOMAIN Locations |-> Publish(plans, i)]), Locations[t],
                    plans[t].writes)
<1> DEFINE n == Len(Locations)
<1> DEFINE at == Locations[t]
<1> DEFINE w == plans[t].writes
<1> DEFINE seqs == [i \in DOMAIN Locations |-> Publish(plans, i)]
<1> DEFINE v == [i \in 0..n |-> IF t <= i THEN w ELSE 0]
<1>1. DOMAIN Locations = 1..n /\ n \in Nat \ {0} /\ t \in 1..n /\ w \in Nat
  <2>1. DOMAIN Locations = 1..n /\ n \in Nat
    BY GRStagesAssumption, LenProperties
  <2>2. QED
    BY <2>1
<1>2. ASSUME NEW i \in 1..n PROVE Publishing(Publish(plans, i), at, IF i = t THEN w ELSE 0)
  <2> DEFINE a == Memory("publish_source", "load", 0, plans[i].writes, "local")
  <2> DEFINE b == Memory("publish", "store", 0, plans[i].writes, Locations[i])
  <2>1. Publishing(a, at, 0)
    <3>1. "publish_source" # "publish"
      OBVIOUS
    <3>2. QED
      BY <3>1, OtherMemory
  <2>2. Publishing(b, at, IF Locations[i] = at THEN plans[i].writes ELSE 0)
    BY <1>1, PublishMemory
  <2>3. (Locations[i] = at) <=> (i = t)
    BY <1>1, GRStagesAssumption DEF IsInjective
  <2>4. Publishing(b, at, IF i = t THEN w ELSE 0)
    BY <2>2, <2>3
  <2>5. Publish(plans, i) = a \o b
    BY DEF Publish
  <2> HIDE DEF a, b
  <2>6. Publishing(a \o b, at, 0 + (IF i = t THEN w ELSE 0))
    BY <2>1, <2>4, PublishingJoin
  <2>7. 0 + (IF i = t THEN w ELSE 0) = IF i = t THEN w ELSE 0
    BY <1>1
  <2>8. QED
    BY <2>5, <2>6, <2>7
<1>3. seqs = [i \in 1..n |-> seqs[i]] /\ \A i \in 1..n : seqs[i] = Publish(plans, i)
  BY <1>1
<1> HIDE DEF n, w, seqs, at
<1>4. v \in [0..n -> Nat] /\ v[0] = 0 /\ v[n] = w
  BY <1>1
<1>5. \A i \in 1..n : v[i - 1] <= v[i] /\ v[i] - v[i - 1] = IF i = t THEN w ELSE 0
  <2>1. ASSUME NEW i \in 1..n
        PROVE  v[i - 1] <= v[i] /\ v[i] - v[i - 1] = IF i = t THEN w ELSE 0
    <3>1. i \in 0..n /\ i - 1 \in 0..n
      BY <1>1
    <3>2. v[i] = (IF t <= i THEN w ELSE 0) /\ v[i - 1] = IF t <= i - 1 THEN w ELSE 0
      BY <3>1
    <3> HIDE DEF v
    <3>3. QED
      BY <1>1, <3>2
  <2>2. QED
    BY <2>1
<1> HIDE DEF v
<1>6. \A i \in 1..n : v[i - 1] <= v[i] /\ Publishing(seqs[i], at, v[i] - v[i - 1])
  BY <1>2, <1>3, <1>5
<1>7. Publishing(FlattenSeq(seqs), at, v[n])
  BY <1>1, <1>3, <1>4, <1>6, PublishingFlat
<1>8. QED
  BY <1>4, <1>7 DEF seqs, w, at

(* A stage publishes what the plans keep if it is the first decode step,   *)
(* and else nothing.                                                       *)
LEMMA StagePublishes ==
  ASSUME NEW req, NEW stage, NEW source, NEW plans, NEW t \in DOMAIN Locations,
         stage.name = "recall" => stage.step # 1,
         \A i \in DOMAIN Locations : plans[i].writes \in Nat
  PROVE  BytesPublished(Operators(req, stage, source, plans), Locations[t])
           = IF stage.step = 1 THEN plans[t].writes ELSE 0
<1> DEFINE at == Locations[t]
<1> DEFINE w == plans[t].writes
<1> DEFINE a == FlattenSeq([l \in 1..NumLayers |-> LayerOps(req, stage, source, l - 1)])
<1> DEFINE b == IF stage.step > 0 THEN <<Op("head", "compute", NumLayers, 0, "npu")>> ELSE << >>
<1> DEFINE c == IF stage.step = 1
                THEN FlattenSeq([i \in DOMAIN Locations |-> Publish(plans, i)]) ELSE << >>
<1>1. CASE stage.name = "recall"
  <2> DEFINE x == Memory("recall_history", "load", 0, req.history * KvBytes, "remote")
  <2> DEFINE y == Memory("stage_history", "store", 0, req.history * KvBytes, "local")
  <2>1. Operators(req, stage, source, plans) = x \o y
    BY <1>1 DEF Operators, RecallOps
  <2>2. Publishing(x, at, 0) /\ Publishing(y, at, 0)
    <3>1. "recall_history" # "publish" /\ "stage_history" # "publish"
      OBVIOUS
    <3>2. QED
      BY <3>1, OtherMemory
  <2> HIDE DEF x, y
  <2>3. Publishing(x \o y, at, 0 + 0)
    BY <2>2, PublishingJoin
  <2>4. QED
    BY <1>1, <2>1, <2>3 DEF Publishing
<1>2. CASE stage.name # "recall"
  <2>1. Operators(req, stage, source, plans) = a \o b \o c
    BY <1>2 DEF Operators
  <2>2. Publishing(a, at, 0)
    BY LayersPublish
  <2>3. Publishing(b, at, 0)
    <3>1. "head" # "publish"
      OBVIOUS
    <3>2. Publishing(<<Op("head", "compute", NumLayers, 0, "npu")>>, at, 0)
      BY <3>1, OtherOperator
    <3>3. QED
      BY <3>2, PublishingNone
  <2>4. Publishing(c, at, IF stage.step = 1 THEN w ELSE 0)
    <3>1. CASE stage.step = 1
      BY <3>1, PlansPublish
    <3>2. CASE stage.step # 1
      BY <3>2, PublishingNone
    <3>3. QED
      BY <3>1, <3>2
  <2>5. w \in Nat
    OBVIOUS
  <2> HIDE DEF a, b, c, w
  <2>6. Publishing(a \o b, at, 0 + 0) /\ 0 + 0 = 0
    BY <2>2, <2>3, PublishingJoin
  <2>7. Publishing(a \o b \o c, at, 0 + (IF stage.step = 1 THEN w ELSE 0))
    BY <2>4, <2>6, PublishingJoin
  <2>8. 0 + (IF stage.step = 1 THEN w ELSE 0) = IF stage.step = 1 THEN w ELSE 0
    BY <2>5
  <2>9. QED
    BY <2>1, <2>7, <2>8 DEF Publishing, w
<1>3. QED
  BY <1>1, <1>2
-----------------------------------------------------------------------------
(* The stages of a service: one of them publishes. *)

PublishesOnce(stages) ==
  \E i \in 1..Len(stages) : \A j \in 1..Len(stages) : (stages[j].step = 1) <=> (j = i)

PublishesNever(stages) == \A j \in 1..Len(stages) : stages[j].step # 1

StagesOK(stages) ==
  IsSequence(stages) /\ \A j \in 1..Len(stages) : stages[j].name = "recall" => stages[j].step # 1

Quiet(stages) == IsSequence(stages) /\ PublishesNever(stages)

LEMMA JoinPlaces ==
  ASSUME NEW s, NEW t, IsSequence(s), IsSequence(t)
  PROVE  /\ Len(s) \in Nat /\ Len(t) \in Nat /\ Len(s \o t) = Len(s) + Len(t)
         /\ IsSequence(s \o t)
         /\ \A j \in 1..Len(s \o t) : \/ j \in 1..Len(s) /\ (s \o t)[j] = s[j]
                                      \/ /\ j - Len(s) \in 1..Len(t) /\ j \notin 1..Len(s)
                                         /\ (s \o t)[j] = t[j - Len(s)]
<1> DEFINE X == Elements(s) \cup Elements(t)
<1>1. s \in Seq(X) /\ t \in Seq(X) /\ IsSequence(s \o t)
  BY SequencesJoin
<1> HIDE DEF X
<1>2. Len(s) \in Nat /\ Len(t) \in Nat
  BY <1>1, LenProperties
<1>3. /\ Len(s \o t) = Len(s) + Len(t)
      /\ \A j \in 1..(Len(s) + Len(t)) : (s \o t)[j] = IF j <= Len(s) THEN s[j] ELSE t[j - Len(s)]
  BY <1>1, ConcatProperties
<1>4. \A j \in 1..(Len(s) + Len(t)) :
        /\ j <= Len(s) => j \in 1..Len(s)
        /\ ~(j <= Len(s)) => j - Len(s) \in 1..Len(t) /\ j \notin 1..Len(s)
  BY ONLY <1>2
<1>5. QED
  BY <1>1, <1>2, <1>3, <1>4

LEMMA QuietJoin ==
  ASSUME NEW s, NEW t, Quiet(s), Quiet(t)
  PROVE  Quiet(s \o t)
BY JoinPlaces DEF Quiet, PublishesNever

LEMMA QuietThenOnce ==
  ASSUME NEW s, NEW t, Quiet(s), StagesOK(t), PublishesOnce(t)
  PROVE  StagesOK(s \o t) /\ PublishesOnce(s \o t)
<1>1. IsSequence(s) /\ IsSequence(t) /\ \A j \in 1..Len(s) : s[j].step # 1
  BY DEF Quiet, PublishesNever, StagesOK
<1> DEFINE st == s \o t
<1>2. /\ Len(s) \in Nat /\ Len(t) \in Nat /\ Len(st) = Len(s) + Len(t)
      /\ IsSequence(st)
      /\ \A j \in 1..Len(st) : \/ j \in 1..Len(s) /\ st[j] = s[j]
                               \/ /\ j - Len(s) \in 1..Len(t) /\ j \notin 1..Len(s)
                                  /\ st[j] = t[j - Len(s)]
  BY <1>1, JoinPlaces
<1> HIDE DEF st
<1>3. StagesOK(st)
  BY <1>1, <1>2 DEF StagesOK
<1>4. PICK i \in 1..Len(t) : \A j \in 1..Len(t) : (t[j].step = 1) <=> (j = i)
  BY DEF PublishesOnce
<1>5. Len(s) + i \in 1..Len(st)
  BY <1>2
<1>6. ASSUME NEW j \in 1..Len(st) PROVE (st[j].step = 1) <=> (j = Len(s) + i)
  <2>1. CASE j \in 1..Len(s) /\ st[j] = s[j]
    <3>1. j # Len(s) + i
      BY <1>2, <2>1
    <3>2. QED
      BY <1>1, <2>1, <3>1
  <2>2. CASE j - Len(s) \in 1..Len(t) /\ j \notin 1..Len(s) /\ st[j] = t[j - Len(s)]
    <3>1. (j = Len(s) + i) <=> (j - Len(s) = i)
      BY <1>2
    <3>2. QED
      BY <1>4, <2>2, <3>1
  <2>3. QED
    BY <1>2, <2>1, <2>2
<1>7. PublishesOnce(st)
  BY <1>5, <1>6 DEF PublishesOnce
<1>8. QED
  BY <1>3, <1>7 DEF st

LEMMA ChunksAreQuiet ==
  ASSUME NEW name, NEW first \in Nat, NEW count \in Nat, NEW last, last = first + count
  PROVE  Quiet(Chunks(name, first, last))
<1> DEFINE n == (last - first + ChunkTokens - 1) \div ChunkTokens
<1> DEFINE s == Chunks(name, first, last)
<1>1. n \in Nat
  <2>1. ChunkTokens \in Nat \ {0}
    BY GRStagesAssumption
  <2>2. last - first + ChunkTokens - 1 \in Nat
    BY <2>1
  <2>3. QED
    BY <2>1, <2>2
<1>2. s = [k \in 1..n |-> s[k]] /\ \A k \in 1..n : s[k].step = 0
  BY DEF Chunks
<1> HIDE DEF s, n
<1>3. IsSequence(s) /\ Len(s) = n
  BY <1>1, <1>2, SequenceOf
<1>4. \A k \in 1..n : s[k].step = 0
  BY <1>2
<1>5. Quiet(s)
  BY ONLY <1>3, <1>4 DEF Quiet, PublishesNever
<1>6. QED
  BY <1>5 DEF s

LEMMA EmptyIsQuiet == Quiet(<< >>)
<1>1. << >> \in Seq({}) /\ Len(<< >>) = 0
  OBVIOUS
<1>2. IsSequence(<< >>)
  BY <1>1, SequenceElements
<1>3. QED
  BY <1>1, <1>2 DEF Quiet, PublishesNever

LEMMA RecallIsQuiet ==
  ASSUME NEW req
  PROVE  Quiet(<<RecallStage(req)>>)
<1> DEFINE r == RecallStage(req)
<1>1. r.step = 0
  BY DEF RecallStage
<1> HIDE DEF r
<1>2. <<r>> \in Seq({r}) /\ Len(<<r>>) = 1 /\ <<r>>[1] = r
  OBVIOUS
<1>3. IsSequence(<<r>>)
  BY <1>2, SequenceElements
<1>4. PublishesNever(<<r>>)
  BY <1>1, <1>2 DEF PublishesNever
<1>5. QED
  BY <1>3, <1>4 DEF Quiet, r

(* Of the stages of a request the first decode step publishes. *)
LEMMA StagesPublishOnce ==
  ASSUME NEW req, req.history \in Nat, req.inc \in Nat, NEW source
  PROVE  StagesOK(Stages(req, source)) /\ PublishesOnce(Stages(req, source))
<1> DEFINE a == IF RecallsFirst(req, source) THEN <<RecallStage(req)>> ELSE << >>
<1> DEFINE b == IF source = NoTier THEN Chunks("history_prefill", 0, req.history) ELSE << >>
<1> DEFINE c == Chunks("incremental_prefill", req.history, Updated(req))
<1> DEFINE d == DecodeStages(req)
<1>1. Stages(req, source) = a \o b \o c \o d
  BY DEF Stages
<1>2. Quiet(a)
  BY RecallIsQuiet, EmptyIsQuiet
<1>3. Quiet(b)
  <2>1. req.history = 0 + req.history /\ 0 \in Nat
    OBVIOUS
  <2>2. Quiet(Chunks("history_prefill", 0, req.history))
    BY <2>1, ChunksAreQuiet
  <2>3. QED
    BY <2>2, EmptyIsQuiet
<1>4. Quiet(c)
  BY ChunksAreQuiet DEF Updated
<1>5. StagesOK(d) /\ PublishesOnce(d)
  <2>1. NumSteps \in Nat /\ 1 \in 1..NumSteps
    BY DEF NumSteps
  <2>2. d = [k \in 1..NumSteps |-> d[k]]
    BY DEF DecodeStages
  <2>3. \A k \in 1..NumSteps : d[k].name = "candidate_decode" /\ d[k].step = k
    BY DEF DecodeStages
  <2> HIDE DEF d
  <2>4. IsSequence(d) /\ Len(d) = NumSteps
    BY <2>1, <2>2, SequenceOf
  <2>5. "candidate_decode" # "recall"
    OBVIOUS
  <2>6. StagesOK(d)
    BY <2>3, <2>4, <2>5 DEF StagesOK
  <2>7. \A j \in 1..NumSteps : (d[j].step = 1) <=> (j = 1)
    BY <2>3
  <2>8. QED
    BY <2>1, <2>4, <2>6, <2>7 DEF PublishesOnce
<1> HIDE DEF a, b, c, d
<1>6. Quiet(a \o b)
  BY <1>2, <1>3, QuietJoin
<1>7. Quiet(a \o b \o c)
  BY <1>4, <1>6, QuietJoin
<1>8. StagesOK(a \o b \o c \o d) /\ PublishesOnce(a \o b \o c \o d)
  BY <1>5, <1>7, QuietThenOnce
<1>9. QED
  BY <1>1, <1>8

(* After a stage the others are left, one fewer to publish if it has. *)
LEMMA StagesLeft ==
  ASSUME NEW stages, StagesOK(stages), stages # << >>
  PROVE  /\ Head(stages).name = "recall" => Head(stages).step # 1
         /\ StagesOK(Tail(stages))
         /\ PublishesNever(stages) => Head(stages).step # 1 /\ PublishesNever(Tail(stages))
         /\ PublishesOnce(stages) => IF Head(stages).step = 1 THEN PublishesNever(Tail(stages))
                                     ELSE PublishesOnce(Tail(stages))
<1> DEFINE n == Len(stages)
<1> DEFINE rest == Tail(stages)
<1> DEFINE X == Elements(stages)
<1>1. stages \in Seq(X) /\ \A j \in 1..n : stages[j].name = "recall" => stages[j].step # 1
  BY DEF StagesOK, IsSequence
<1> HIDE DEF X
<1>2. n \in Nat /\ n # 0
  BY <1>1, LenProperties, EmptySeq
<1>3. /\ Head(stages) = stages[1] /\ rest \in Seq(X) /\ Len(rest) = n - 1
      /\ \A j \in 1..Len(rest) : rest[j] = stages[j + 1]
  BY <1>1, HeadTailProperties
<1> HIDE DEF n, rest
<1>4. 1 \in 1..n /\ \A j \in 1..(n - 1) : j + 1 \in 1..n /\ j + 1 # 1
  BY <1>2
<1>5. StagesOK(rest)
  <2>1. IsSequence(rest)
    BY <1>3, SequenceElements
  <2>2. QED
    BY <1>1, <1>3, <1>4, <2>1 DEF StagesOK
<1>6. PublishesNever(stages) => Head(stages).step # 1 /\ PublishesNever(rest)
  BY <1>3, <1>4 DEF PublishesNever, n
<1>7. ASSUME PublishesOnce(stages)
      PROVE  IF Head(stages).step = 1 THEN PublishesNever(rest) ELSE PublishesOnce(rest)
  <2>1. PICK i \in 1..n : \A j \in 1..n : (stages[j].step = 1) <=> (j = i)
    BY <1>7 DEF PublishesOnce, n
  <2>2. CASE i = 1
    <3>1. PublishesNever(rest) /\ Head(stages).step = 1
      BY <1>3, <1>4, <2>1, <2>2 DEF PublishesNever
    <3>2. QED
      BY <3>1
  <2>3. CASE i # 1
    <3>1. Head(stages).step # 1
      BY <1>3, <1>4, <2>1, <2>3
    <3>2. i - 1 \in 1..(n - 1)
      BY <1>2, <2>3
    <3>3. \A j \in 1..(n - 1) : (j + 1 = i) <=> (j = i - 1)
      BY ONLY <1>2, i \in 1..n
    <3>4. \A j \in 1..(n - 1) : (rest[j].step = 1) <=> (j = i - 1)
      BY <1>3, <1>4, <2>1, <3>3
    <3>5. PublishesOnce(rest)
      BY <1>3, <3>2, <3>4 DEF PublishesOnce
    <3>6. QED
      BY <3>1, <3>5
  <2>4. QED
    BY <2>2, <2>3
<1>8. QED
  BY <1>1, <1>3, <1>4, <1>5, <1>6, <1>7 DEF rest, n
-----------------------------------------------------------------------------
(* The snapshots. *)

(* The bytes a plan sends and those it builds on make up the snapshot. *)
Completes(s, t) ==
  /\ s.plans[t].writes \in Nat
  /\ s.plans[t].accepted =>
       s.plans[t].writes + (IF s.plans[t].local THEN stored[t][s.req.user] ELSE 0)
         = Updated(s.req) * KvBytes

(* The service in flight has sent nothing while its publishing stage is    *)
(* ahead, and all that it plans to send once that is over.                 *)
Progress(s) ==
  /\ StagesOK(s.stages)
  /\ \/ PublishesOnce(s.stages) /\ \A t \in TierIds : s.published[t] = 0
     \/ PublishesNever(s.stages) /\ \A t \in TierIds : s.published[t] = s.plans[t].writes

ServiceGoes ==
  \A s \in service :
    /\ s = [req |-> s.req, start |-> s.start, source |-> s.source, plans |-> s.plans,
            stages |-> s.stages, published |-> s.published]
    /\ \A t \in TierIds : Completes(s, t)
    /\ Progress(s)

GhostsOK ==
  /\ latest = [u \in Users |-> latest[u]]
  /\ \A t \in TierIds : stored[t] = [u \in Users |-> stored[t][u]]

(* The inductive invariant of the snapshots. *)
SnapshotInv == GRInv /\ GhostsOK /\ ServiceGoes /\ SnapshotIsLatest

LEMMA PlanWrites ==
  ASSUME NEW tier, NEW h, NEW req, req.history \in Nat, req.inc \in Nat, NEW now
  PROVE  LET plan == Plan(tier, h, req, now)
         IN  /\ plan.writes \in Nat
             /\ plan.accepted => plan.writes = (IF plan.local THEN req.inc ELSE Updated(req)) * KvBytes
             /\ plan.local => Hits(tier, req, now)
<1> DEFINE plan == Plan(tier, h, req, now)
<1>1. KvBytes \in Nat /\ Updated(req) \in Nat
  BY LruKAssumption DEF Updated
<1>2. req.inc * KvBytes \in Nat /\ Updated(req) * KvBytes \in Nat
  BY <1>1
<1>3. /\ plan.accepted = Admits(tier, h, req)
      /\ plan.local = Hits(tier, req, now)
      /\ plan.writes = CASE ~Admits(tier, h, req) -> 0
                         [] Admits(tier, h, req) /\ Hits(tier, req, now) -> req.inc * KvBytes
                         [] OTHER -> Updated(req) * KvBytes
  BY DEF Plan, LocalHit
<1> HIDE DEF plan
<1>4. plan.writes \in Nat
  BY <1>2, <1>3
<1>5. plan.accepted => plan.writes = (IF plan.local THEN req.inc ELSE Updated(req)) * KvBytes
  BY <1>3
<1>6. QED
  BY <1>3, <1>4, <1>5 DEF plan

LEMMA Distributes ==
  ASSUME NEW a \in Nat, NEW b \in Nat, NEW c \in Nat
  PROVE  b * c + a * c = (a + b) * c
OBVIOUS

LEMMA StartCompletes ==
  ASSUME SnapshotInv, NEW s, Started(s), NEW t \in TierIds, UNCHANGED stored
  PROVE  Completes(s, t)'
<1>1. PICK now : s.plans[t] = Plan(tiers[t], history', s.req, now)
  BY DEF Started
<1>2. s.req.history \in Nat /\ s.req.inc \in Nat /\ KvBytes \in Nat /\ Updated(s.req) \in Nat
  BY LruKAssumption DEF Started
<1>3. /\ s.plans[t].writes \in Nat
      /\ s.plans[t].accepted =>
           s.plans[t].writes = (IF s.plans[t].local THEN s.req.inc ELSE Updated(s.req)) * KvBytes
      /\ s.plans[t].local => Hits(tiers[t], s.req, now)
  BY <1>1, <1>2, PlanWrites
<1>4. ASSUME s.plans[t].accepted
      PROVE  s.plans[t].writes + (IF s.plans[t].local THEN stored[t][s.req.user] ELSE 0)
               = Updated(s.req) * KvBytes
  <2>1. CASE s.plans[t].local
    <3>1. /\ s.req.user \in Resident(tiers[t])
          /\ tiers[t].entries[s.req.user].tokens = s.req.history
      BY <1>3, <2>1 DEF Hits
    <3>2. stored[t][s.req.user] = s.req.history * KvBytes
      BY <3>1 DEF SnapshotInv, SnapshotIsLatest
    <3>3. s.plans[t].writes = s.req.inc * KvBytes
      BY <1>3, <1>4, <2>1
    <3>4. s.req.inc * KvBytes + s.req.history * KvBytes = (s.req.history + s.req.inc) * KvBytes
      BY <1>2, Distributes
    <3>5. QED
      BY <2>1, <3>2, <3>3, <3>4 DEF Updated
  <2>2. CASE ~s.plans[t].local
    <3>1. s.plans[t].writes = Updated(s.req) * KvBytes
      BY <1>3, <1>4, <2>2
    <3>2. s.plans[t].writes + 0 = s.plans[t].writes
      BY <1>3
    <3>3. QED
      BY <2>2, <3>1, <3>2
  <2>3. QED
    BY <2>1, <2>2
<1>5. QED
  BY <1>3, <1>4 DEF Completes

LEMMA SnapshotStart ==
  ASSUME SnapshotInv, StartService
  PROVE  SnapshotInv'
<1>1. GRInv /\ GhostsOK /\ SnapshotIsLatest
  BY DEF SnapshotInv
<1>2. \A s \in service' : Started(s)
  BY <1>1, StartOK
<1>3. UNCHANGED <<tiers, latest, stored>> /\ TierIds' = TierIds
  BY DEF StartService, TierIds
<1>4. ASSUME NEW s \in service'
      PROVE  /\ s = [req |-> s.req, start |-> s.start, source |-> s.source, plans |-> s.plans,
                     stages |-> s.stages, published |-> s.published]
             /\ \A t \in TierIds : Completes(s, t)'
             /\ Progress(s)'
  <2>1. Started(s)
    BY <1>2
  <2>2. \A t \in TierIds : Completes(s, t)'
    BY <1>3, <2>1, StartCompletes
  <2>3. StagesOK(s.stages) /\ PublishesOnce(s.stages) /\ \A t \in TierIds : s.published[t] = 0
    BY <2>1, StagesPublishOnce DEF Started
  <2>4. Progress(s)'
    BY <1>3, <2>3 DEF Progress
  <2>5. QED
    BY <2>1, <2>2, <2>4 DEF Started
<1>5. ServiceGoes'
  BY <1>3, <1>4 DEF ServiceGoes
<1>6. GRInv'
  BY <1>1, StartKeeps
<1>7. GhostsOK' /\ SnapshotIsLatest'
  BY <1>1, <1>3 DEF GhostsOK, SnapshotIsLatest
<1>8. QED
  BY <1>5, <1>6, <1>7 DEF SnapshotInv

LEMMA ServiceExcept ==
  ASSUME NEW s, s = [req |-> s.req, start |-> s.start, source |-> s.source, plans |-> s.plans,
                     stages |-> s.stages, published |-> s.published],
         NEW rest, NEW sent
  PROVE  [s EXCEPT !.stages = rest, !.published = sent]
           = [req |-> s.req, start |-> s.start, source |-> s.source, plans |-> s.plans,
              stages |-> rest, published |-> sent]
<1> DEFINE after == [s EXCEPT !.stages = rest, !.published = sent]
<1> DEFINE fields == {"req", "start", "source", "plans", "stages", "published"}
<1>1. DOMAIN s = fields
  OBVIOUS
<1>2. after = [i \in fields |-> IF i = "published" THEN sent ELSE IF i = "stages" THEN rest ELSE s[i]]
  BY <1>1
<1> HIDE DEF after
<1>3. /\ after.req = s.req /\ after.start = s.start /\ after.source = s.source
      /\ after.plans = s.plans /\ after.stages = rest /\ after.published = sent
  BY <1>2
<1>4. after = [i \in fields |-> after[i]]
  BY <1>2
<1>5. after = [req |-> after.req, start |-> after.start, source |-> after.source,
               plans |-> after.plans, stages |-> after.stages, published |-> after.published]
  BY <1>4
<1>6. QED
  BY <1>3, <1>5 DEF after

LEMMA SnapshotRun ==
  ASSUME SnapshotInv, RunStage
  PROVE  SnapshotInv'
<1>1. GRInv /\ GhostsOK /\ ServiceGoes /\ SnapshotIsLatest
  BY DEF SnapshotInv
<1>2. UNCHANGED <<tiers, latest, stored>> /\ TierIds' = TierIds
  BY DEF RunStage, TierIds
<1>3. PICK s \in service :
        /\ s.stages # << >>
        /\ service' = {[s EXCEPT !.stages = Tail(@),
                                 !.published = [t \in TierIds |-> @[t] + PublishedBy(s, t)]]}
  BY DEF RunStage
<1>4. /\ s = [req |-> s.req, start |-> s.start, source |-> s.source, plans |-> s.plans,
              stages |-> s.stages, published |-> s.published]
      /\ \A t \in TierIds : Completes(s, t)
      /\ Progress(s)
  BY <1>1 DEF ServiceGoes
<1> DEFINE rest == Tail(s.stages)
<1> DEFINE sent == [t \in TierIds |-> s.published[t] + PublishedBy(s, t)]
<1> DEFINE r == [req |-> s.req, start |-> s.start, source |-> s.source, plans |-> s.plans,
                 stages |-> rest, published |-> sent]
<1>5. service' = {r}
  <2>1. service' = {[s EXCEPT !.stages = rest, !.published = sent]}
    BY <1>3
  <2> HIDE DEF rest, sent
  <2>2. [s EXCEPT !.stages = rest, !.published = sent] = r
    BY <1>4, ServiceExcept
  <2>3. QED
    BY <2>1, <2>2
<1>6. /\ r.req = s.req /\ r.plans = s.plans /\ r.stages = rest /\ r.published = sent
      /\ r = [req |-> r.req, start |-> r.start, source |-> r.source, plans |-> r.plans,
              stages |-> r.stages, published |-> r.published]
  OBVIOUS
<1> HIDE DEF r
<1>7. /\ Head(s.stages).name = "recall" => Head(s.stages).step # 1
      /\ StagesOK(rest)
      /\ PublishesNever(s.stages) => Head(s.stages).step # 1 /\ PublishesNever(rest)
      /\ PublishesOnce(s.stages) => IF Head(s.stages).step = 1 THEN PublishesNever(rest)
                                    ELSE PublishesOnce(rest)
  BY <1>3, <1>4, StagesLeft DEF Progress
<1> HIDE DEF rest
<1>8. \A t \in TierIds : s.plans[t].writes \in Nat
  BY <1>4 DEF Completes
<1>9. ASSUME NEW t \in TierIds
      PROVE  /\ PublishedBy(s, t) = IF Head(s.stages).step = 1 THEN s.plans[t].writes ELSE 0
             /\ sent[t] = s.published[t] + PublishedBy(s, t)
  BY <1>7, <1>8, StagePublishes DEF PublishedBy, TierIds
<1> HIDE DEF sent
<1>10. Progress(r)
  <2>1. CASE PublishesOnce(s.stages) /\ \A t \in TierIds : s.published[t] = 0
    <3>1. CASE Head(s.stages).step = 1
      <4>1. \A t \in TierIds : sent[t] = s.plans[t].writes
        BY <1>8, <1>9, <2>1, <3>1
      <4>2. QED
        BY <1>6, <1>7, <2>1, <3>1, <4>1 DEF Progress
    <3>2. CASE Head(s.stages).step # 1
      <4>1. \A t \in TierIds : sent[t] = 0
        BY <1>9, <2>1, <3>2
      <4>2. QED
        BY <1>6, <1>7, <2>1, <3>2, <4>1 DEF Progress
    <3>3. QED
      BY <3>1, <3>2
  <2>2. CASE PublishesNever(s.stages) /\ \A t \in TierIds : s.published[t] = s.plans[t].writes
    <3>1. \A t \in TierIds : sent[t] = s.plans[t].writes
      BY <1>7, <1>8, <1>9, <2>2
    <3>2. QED
      BY <1>6, <1>7, <2>2, <3>1 DEF Progress
  <2>3. QED
    BY <1>4, <2>1, <2>2 DEF Progress
<1>11. \A t \in TierIds : Completes(r, t)'
  BY <1>2, <1>4, <1>6 DEF Completes
<1>12. Progress(r)'
  BY <1>2, <1>10 DEF Progress
<1>13. ServiceGoes'
  BY <1>2, <1>5, <1>6, <1>11, <1>12 DEF ServiceGoes
<1>14. GRInv'
  BY <1>1, RunKeeps
<1>15. GhostsOK' /\ SnapshotIsLatest'
  BY <1>1, <1>2 DEF GhostsOK, SnapshotIsLatest
<1>16. QED
  BY <1>13, <1>14, <1>15 DEF SnapshotInv

LEMMA SnapshotFinish ==
  ASSUME SnapshotInv, Finish
  PROVE  SnapshotInv'
<1>1. GRInv /\ GhostsOK /\ ServiceGoes /\ SnapshotIsLatest
  BY DEF SnapshotInv
<1>2. TierIds' = TierIds
  BY DEF TierIds
<1>3. PICK s \in service :
        /\ s.stages = << >>
        /\ tiers' = [t \in TierIds |-> Commit(tiers[t], s.req, s.plans[t], clock)]
        /\ service' = {}
        /\ latest' = [latest EXCEPT ![s.req.user] = Snapshot(s.req)]
        /\ stored' = [t \in TierIds |-> [stored[t] EXCEPT ![s.req.user] = NowStored(s, t)]]
  BY DEF Finish
<1> DEFINE user == s.req.user
<1>4. user \in Users
  BY <1>1 DEF GRInv, ServiceOK
<1>5. /\ latest' = [u \in Users |-> IF u = user THEN Snapshot(s.req) ELSE latest[u]]
      /\ \A t \in TierIds :
           stored'[t] = [u \in Users |-> IF u = user THEN NowStored(s, t) ELSE stored[t][u]]
  BY <1>1, <1>3, <1>4 DEF GhostsOK
<1>6. GhostsOK'
  BY <1>2, <1>5 DEF GhostsOK
<1>7. ASSUME NEW t \in TierIds, NEW u \in Resident(tiers'[t])
      PROVE  /\ [version |-> tiers'[t].entries[u].version,
                 tokens |-> tiers'[t].entries[u].tokens] = latest'[u]
             /\ stored'[t][u] = tiers'[t].entries[u].tokens * KvBytes
  <2> DEFINE after == Commit(tiers[t], s.req, s.plans[t], clock)
  <2>1. tiers'[t] = after
    BY <1>3
  <2>2. /\ TierOK(history, tiers[t]) /\ PlanOK(history, tiers[t], s.plans[t], s.req)
    BY <1>1 DEF GRInv, ServiceOK
  <2>3. Committed(tiers[t], after, s.req, s.plans[t], clock) /\ TierOK(history, after)
    BY <1>4, <2>2, CommitOK
  <2> HIDE DEF after
  <2>4. u \in Users
    BY <2>1, <2>3 DEF TierOK
  <2>5. CASE u = user
    <3>1. /\ s.plans[t].accepted
          /\ after.entries[u] = [version |-> s.req.next, tokens |-> Updated(s.req),
                                 bytes |-> s.plans[t].bytes, ready |-> clock]
      BY <2>1, <2>3, <2>5 DEF Committed
    <3>2. s.published[t] = s.plans[t].writes
      <4>1. Len(s.stages) = 0
        BY <1>3
      <4>2. ~PublishesOnce(s.stages)
        BY <4>1 DEF PublishesOnce
      <4>3. QED
        BY <1>1, <4>2 DEF ServiceGoes, Progress
    <3>3. NowStored(s, t) = Updated(s.req) * KvBytes
      <4>1. Completes(s, t)
        BY <1>1 DEF ServiceGoes
      <4>2. QED
        BY <3>1, <3>2, <4>1 DEF Completes, NowStored
    <3>4. latest'[u] = Snapshot(s.req) /\ stored'[t][u] = NowStored(s, t)
      BY <1>5, <2>4, <2>5
    <3>5. tiers'[t].entries[u].version = s.req.next /\ tiers'[t].entries[u].tokens = Updated(s.req)
      BY <2>1, <3>1
    <3>6. QED
      BY <3>3, <3>4, <3>5 DEF Snapshot
  <2>6. CASE u # user
    <3>1. u \in Resident(tiers[t]) /\ after.entries[u] = tiers[t].entries[u]
      BY <2>1, <2>3, <2>6 DEF Committed
    <3>2. latest'[u] = latest[u] /\ stored'[t][u] = stored[t][u]
      BY <1>5, <2>4, <2>6
    <3>3. /\ [version |-> tiers[t].entries[u].version,
              tokens |-> tiers[t].entries[u].tokens] = latest[u]
          /\ stored[t][u] = tiers[t].entries[u].tokens * KvBytes
      BY <1>1, <3>1 DEF SnapshotIsLatest
    <3>4. QED
      BY <2>1, <3>1, <3>2, <3>3
  <2>7. QED
    BY <2>5, <2>6
<1>8. SnapshotIsLatest'
  BY <1>2, <1>7 DEF SnapshotIsLatest
<1>9. GRInv' /\ ServiceGoes'
  BY <1>1, <1>3, FinishKeeps DEF ServiceGoes
<1>10. QED
  BY <1>6, <1>8, <1>9 DEF SnapshotInv

LEMMA SnapshotInit == GRInit => SnapshotInv
<1>1. SUFFICES ASSUME GRInit PROVE SnapshotInv
  OBVIOUS
<1>2. GRInv
  BY <1>1, GRInvInit
<1>3. /\ latest = [u \in Users |-> Never]
      /\ stored = [t \in TierIds |-> [u \in Users |-> 0]]
      /\ service = {}
  BY <1>1 DEF GRInit
<1>4. GhostsOK /\ ServiceGoes
  BY <1>3 DEF GhostsOK, ServiceGoes
<1>5. \A t \in TierIds : Resident(tiers[t]) = {}
  BY <1>1 DEF GRInit, NewTier, Resident
<1>6. SnapshotIsLatest
  BY <1>5 DEF SnapshotIsLatest
<1>7. QED
  BY <1>2, <1>4, <1>6 DEF SnapshotInv

(* Whatever a tier holds of a user is what the user's last service has     *)
(* published, whole (cache.py:123-142, trace.py's publish operators): a    *)
(* copy that another service has overtaken is never left behind, and an    *)
(* increment is appended only where the history is.                        *)
THEOREM SnapshotsAreLatest == GRSpec => []SnapshotIsLatest
<1>1. GRInit => SnapshotInv
  BY SnapshotInit
<1>2. SnapshotInv /\ [GRNext]_gr => SnapshotInv'
  <2>1. SUFFICES ASSUME SnapshotInv, [GRNext]_gr PROVE SnapshotInv'
    OBVIOUS
  <2>2. CASE StartService
    BY <2>1, <2>2, SnapshotStart
  <2>3. CASE RunStage
    BY <2>1, <2>3, SnapshotRun
  <2>4. CASE Finish
    BY <2>1, <2>4, SnapshotFinish
  <2>5. CASE UNCHANGED gr
    <3>1. UNCHANGED <<tiers, service, latest, stored>> /\ TierIds' = TierIds
      BY <2>5 DEF gr, TierIds
    <3>2. GRInv'
      BY <2>1, <2>5, GRInvStutters DEF SnapshotInv
    <3>3. GhostsOK' /\ SnapshotIsLatest'
      BY <2>1, <3>1 DEF SnapshotInv, GhostsOK, SnapshotIsLatest
    <3>4. ServiceGoes'
      BY <2>1, <3>1 DEF SnapshotInv, ServiceGoes, Completes, Progress
    <3>5. QED
      BY <3>2, <3>3, <3>4 DEF SnapshotInv
  <2>6. QED
    BY <2>1, <2>2, <2>3, <2>4, <2>5 DEF GRNext
<1>3. SnapshotInv => SnapshotIsLatest
  BY DEF SnapshotInv
<1>4. QED
  BY <1>1, <1>2, <1>3, PTL DEF GRSpec
=============================================================================
