------------------------- MODULE PrefillDecodeProofs ------------------------
(***************************************************************************)
(* What a prefill instance of one stage and its decode instance keep of    *)
(* the requests they share: a request is with one of them at a time.       *)
(***************************************************************************)
EXTENDS PrefillDecode, QueueLemmas
-----------------------------------------------------------------------------
(* What every step of the prefill instance and of the decode instance      *)
(* keeps of the types and of the requests it has.                          *)

(* The requests of some work, and of some batches. *)
Of(work)        == {w.req : w \in ToSet(work)}
Flying(batches) == UNION {Of(b.work) : b \in ToSet(batches)}

(* The requests an instance still knows: whatever a step of it can touch.  *)
PHas == ToSet(pRunning) \cup ToSet(pWaiting) \cup Flying(pInflight)
        \cup Of(pStep.todo) \cup Of(pStep.scheduled) \cup ToSet(pStep.handed)
DHas == ToSet(dRunning) \cup ToSet(dWaiting) \cup Flying(dInflight)
        \cup Of(dStep.todo) \cup Of(dStep.scheduled) \cup ToSet(dFinished)

(* A step touches the requests in S only, sends none back to the router    *)
(* and makes none shorter.                                                 *)
Touches(S) ==
  /\ \A r \in Reqs \ S : /\ status'[r] = status[r] /\ computed'[r] = computed[r]
                         /\ reached'[r] = reached[r]
  /\ \A r \in Reqs : /\ status'[r] = "future" => status[r] = "future"
                     /\ reached'[r] >= reached[r]

Begun == \A r \in Reqs : reached[r] >= Prompt[r]

Statuses == [Reqs -> {"future", "waiting", "running", "preempted", "finished"}]

(* Requests, and the parts of TypeOK of each instance, under names. *)
Work == [req : Reqs, n : Nat, before : Nat]

BatchesOf(npus) == [id : Nat, work : Seq(Work), fired : SUBSET npus, ended : SUBSET npus]

StepsOf(npus) ==
  [at : {"idle", "complete", "handover", "raised", "schedule", "running", "waiting", "build"},
   npu : npus, todo : Seq(Work), handed : Seq(Reqs), budget : Nat, i : Nat \ {0},
   scheduled : Seq(Work), preempted : SUBSET Reqs]

-----------------------------------------------------------------------------
(* Sequences and their elements. *)

LEMMA NoElements == ToSet(<< >>) = {} /\ Of(<< >>) = {} /\ Flying(<< >>) = {}
<1>1. ToSet(<< >>) = {}
  BY DEF ToSet
<1>2. QED
  BY <1>1 DEF Of, Flying

LEMMA ElementType ==
  ASSUME NEW S, NEW s \in Seq(S)
  PROVE  ToSet(s) \subseteq S /\ \A k \in DOMAIN s : s[k] \in S /\ s[k] \in ToSet(s)
<1>1. DOMAIN s = 1..Len(s)
  BY LenProperties
<1>2. QED
  BY <1>1, ElementOfSeq DEF ToSet

LEMMA EmptyWhenNoElements ==
  ASSUME NEW S, NEW s \in Seq(S), ToSet(s) = {}
  PROVE  s = << >>
<1>1. DOMAIN s = 1..Len(s) /\ Len(s) \in Nat
  BY LenProperties
<1>2. CASE s # << >>
  <2>1. 1 \in DOMAIN s
    BY <1>1, <1>2, EmptySeq
  <2>2. QED
    BY <2>1 DEF ToSet
<1>3. QED
  BY <1>2

LEMMA AppendSet ==
  ASSUME NEW S, NEW s \in Seq(S), NEW x \in S
  PROVE  Append(s, x) \in Seq(S) /\ ToSet(Append(s, x)) = ToSet(s) \cup {x}
<1> DEFINE more == Append(s, x)
<1>1. /\ more \in Seq(S) /\ Len(more) = Len(s) + 1 /\ Len(s) \in Nat
      /\ \A i \in 1..Len(s) : more[i] = s[i]
      /\ more[Len(s) + 1] = x
  BY AppendProperties, LenProperties
<1> HIDE DEF more
<1>2. DOMAIN s = 1..Len(s) /\ DOMAIN more = 1..(Len(s) + 1)
  BY <1>1, LenProperties
<1>3. \A i \in DOMAIN more : (i \in DOMAIN s /\ more[i] = s[i]) \/ (i = Len(s) + 1 /\ more[i] = x)
  BY <1>1, <1>2
<1>4. \A i \in DOMAIN s : i \in DOMAIN more /\ more[i] = s[i]
  BY <1>1, <1>2
<1>5. Len(s) + 1 \in DOMAIN more
  BY <1>1, <1>2
<1>6. more \in Seq(S) /\ ToSet(more) = ToSet(s) \cup {x}
  BY <1>1, <1>3, <1>4, <1>5 DEF ToSet
<1>7. QED
  BY <1>6 DEF more

LEMMA TailSet ==
  ASSUME NEW S, NEW s \in Seq(S), s # << >>
  PROVE  /\ Head(s) \in S /\ Head(s) \in ToSet(s)
         /\ Tail(s) \in Seq(S) /\ ToSet(Tail(s)) \subseteq ToSet(s)
         /\ \A k \in DOMAIN Tail(s) : k + 1 \in DOMAIN s /\ Tail(s)[k] = s[k + 1]
<1>1. /\ Head(s) \in S /\ Tail(s) \in Seq(S) /\ Len(Tail(s)) = Len(s) - 1
      /\ Len(s) \in Nat \ {0} /\ \A i \in 1..Len(Tail(s)) : Tail(s)[i] = s[i + 1]
  BY HeadTailProperties, EmptySeq
<1>2. DOMAIN s = 1..Len(s) /\ DOMAIN Tail(s) = 1..(Len(s) - 1) /\ Head(s) = s[1]
  BY <1>1, LenProperties
<1>3. \A i \in DOMAIN Tail(s) : i + 1 \in DOMAIN s /\ Tail(s)[i] = s[i + 1]
  BY <1>1, <1>2
<1>4. 1 \in DOMAIN s
  BY <1>1, <1>2
<1>5. QED
  BY <1>1, <1>2, <1>3, <1>4 DEF ToSet

LEMMA PrependSet ==
  ASSUME NEW S, NEW s \in Seq(S), NEW x \in S, NEW more, more = <<x>> \o s
  PROVE  more \in Seq(S) /\ ToSet(more) = {x} \cup ToSet(s)
<1>1. <<x>> \in Seq(S) /\ Len(<<x>>) = 1 /\ <<x>>[1] = x
  OBVIOUS
<1>2. /\ more \in Seq(S) /\ Len(more) = 1 + Len(s) /\ Len(s) \in Nat
      /\ \A i \in 1..(1 + Len(s)) : more[i] = IF i <= 1 THEN <<x>>[i] ELSE s[i - 1]
  BY <1>1, ConcatProperties, LenProperties
<1>3. DOMAIN s = 1..Len(s) /\ DOMAIN more = 1..(1 + Len(s))
  BY <1>2, LenProperties
<1>4. \A i \in DOMAIN more : (i = 1 /\ more[i] = x) \/ (i - 1 \in DOMAIN s /\ more[i] = s[i - 1])
  BY <1>1, <1>2, <1>3
<1>5. \A i \in DOMAIN s : i + 1 \in DOMAIN more /\ more[i + 1] = s[i]
  BY <1>1, <1>2, <1>3
<1>6. 1 \in DOMAIN more /\ more[1] = x
  BY <1>1, <1>2, <1>3
<1>7. ToSet(more) \subseteq {x} \cup ToSet(s)
  BY <1>4 DEF ToSet
<1>8. {x} \cup ToSet(s) \subseteq ToSet(more)
  BY <1>5, <1>6 DEF ToSet
<1>9. QED
  BY <1>2, <1>7, <1>8

LEMMA ChangedSet ==
  ASSUME NEW S, NEW s \in Seq(S), NEW k \in DOMAIN s, NEW x \in S,
         NEW t, t = [s EXCEPT ![k] = x]
  PROVE  /\ t \in Seq(S) /\ Len(t) = Len(s) /\ DOMAIN t = DOMAIN s /\ t[k] = x
         /\ ToSet(t) \subseteq ToSet(s) \cup {x}
         /\ \A j \in DOMAIN s : j # k => t[j] = s[j]
<1>1. DOMAIN s = 1..Len(s)
  BY LenProperties
<1>2. /\ t \in Seq(S) /\ Len(t) = Len(s)
      /\ \A j \in 1..Len(s) : t[j] = IF j = k THEN x ELSE s[j]
  BY <1>1, ExceptSeq
<1>3. DOMAIN t = 1..Len(s)
  BY <1>2, LenProperties
<1>4. QED
  BY <1>1, <1>2, <1>3 DEF ToSet

(* The requests of work and of batches. *)
LEMMA MoreWork ==
  ASSUME NEW s \in Seq(Work), NEW w \in Work, NEW more, more = Append(s, w)
  PROVE  more \in Seq(Work) /\ Of(more) = Of(s) \cup {w.req}
<1>1. more \in Seq(Work) /\ ToSet(more) = ToSet(s) \cup {w}
  BY AppendSet
<1>2. QED
  BY <1>1 DEF Of

LEMMA LessWork ==
  ASSUME NEW s \in Seq(Work), s # << >>
  PROVE  /\ Tail(s) \in Seq(Work) /\ Of(Tail(s)) \subseteq Of(s)
         /\ Head(s) \in Work /\ Head(s).req \in Of(s) /\ Head(s).req \in Reqs
<1>1. /\ Head(s) \in Work /\ Head(s) \in ToSet(s)
      /\ Tail(s) \in Seq(Work) /\ ToSet(Tail(s)) \subseteq ToSet(s)
  BY TailSet
<1>2. QED
  BY <1>1 DEF Of, Work

LEMMA MoreBatches ==
  ASSUME NEW B, NEW q \in Seq(B), NEW b \in B
  PROVE  Append(q, b) \in Seq(B) /\ Flying(Append(q, b)) = Flying(q) \cup Of(b.work)
<1>1. Append(q, b) \in Seq(B) /\ ToSet(Append(q, b)) = ToSet(q) \cup {b}
  BY AppendSet
<1>2. QED
  BY <1>1 DEF Flying

LEMMA FewerBatches ==
  ASSUME NEW q, NEW u, ToSet(u) \subseteq ToSet(q)
  PROVE  Flying(u) \subseteq Flying(q)
  BY DEF Flying

(* u is q with batch k marked, which leaves its work as it is. *)
Marked(B, q, k, u) ==
  /\ u \in Seq(B) /\ Len(u) = Len(q) /\ DOMAIN u = DOMAIN q
  /\ \A j \in DOMAIN q : u[j].work = q[j].work /\ (j # k => u[j] = q[j])
  /\ Flying(u) = Flying(q) /\ Of(q[k].work) \subseteq Flying(q)

LEMMA MarkedBatch ==
  ASSUME NEW B, NEW q \in Seq(B), NEW k \in DOMAIN q, NEW b \in B, b.work = q[k].work
  PROVE  Marked(B, q, k, [q EXCEPT ![k] = b])
<1> DEFINE u == [q EXCEPT ![k] = b]
<1>1. /\ u \in Seq(B) /\ Len(u) = Len(q) /\ DOMAIN u = DOMAIN q
      /\ u[k] = b /\ \A j \in DOMAIN q : j # k => u[j] = q[j]
  BY ChangedSet
<1> HIDE DEF u
<1>2. \A j \in DOMAIN q : u[j].work = q[j].work
  BY <1>1
<1>3. ToSet(u) = {u[j] : j \in DOMAIN q} /\ ToSet(q) = {q[j] : j \in DOMAIN q}
  BY <1>1 DEF ToSet
<1>4. Flying(u) = Flying(q)
  <2>1. ASSUME NEW c \in ToSet(u) PROVE \E d \in ToSet(q) : d.work = c.work
    BY <1>2, <1>3
  <2>2. ASSUME NEW c \in ToSet(q) PROVE \E d \in ToSet(u) : d.work = c.work
    BY <1>2, <1>3
  <2>3. QED
    BY ONLY <2>1, <2>2 DEF Flying
<1>5. Of(q[k].work) \subseteq Flying(q)
  BY <1>3 DEF Flying
<1>6. Marked(B, q, k, u)
  BY <1>1, <1>2, <1>4, <1>5 DEF Marked
<1>7. QED
  BY <1>6 DEF u

-----------------------------------------------------------------------------
(* The operators of the two instances are those of QueueLemmas. *)

LEMMA ReqsNat == Reqs \subseteq Nat
<1>1. IsFiniteSet(Reqs) /\ Reqs = 1..Cardinality(Reqs)
  BY PairAssumption DEF P!KVAssumption, P!SchedulerAssumption, P!Cardinality, P!IsFiniteSet,
     Cardinality, IsFiniteSet
<1>2. Cardinality(Reqs) \in Nat
  BY <1>1, FS_CardinalityType
<1>3. QED
  BY <1>1, <1>2

LEMMA ReqsQueue == ASSUME NEW q \in Seq(Reqs) PROVE q \in Seq(Nat)
  BY ReqsNat, SeqMonotonic

LEMMA SameToSet == \A s : P!ToSet(s) = ToSet(s) /\ D!ToSet(s) = ToSet(s)
  BY DEF P!ToSet, D!ToSet, ToSet

LEMMA SameKept == \A s, T : P!Kept(s, T) = Kept(s, T) /\ D!Kept(s, T) = Kept(s, T)
  BY DEF P!Kept, D!Kept, Kept, P!Rank, D!Rank, Rank, P!Cardinality, D!Cardinality, Cardinality

LEMMA SameWithout ==
  \A q, r : /\ P!Without(q, r) = Kept(q, ToSet(q) \ {r})
            /\ D!Without(q, r) = Kept(q, ToSet(q) \ {r})
  BY SameKept, SameToSet DEF P!Without, D!Without

(* Queues: what is put in, taken out and kept. *)

LEMMA KeptSet ==
  ASSUME NEW B, NEW q \in Seq(B), NEW T, NEW left, left = P!Kept(q, T) \/ left = D!Kept(q, T)
  PROVE  left \in Seq(B) /\ ToSet(left) = ToSet(q) \cap T
<1>1. left = Kept(q, T)
  BY SameKept
<1>2. QED
  BY <1>1, KeptProperties

LEMMA WithoutSet ==
  ASSUME NEW q \in Seq(Reqs), NEW r, NEW left, left = P!Without(q, r) \/ left = D!Without(q, r)
  PROVE  /\ left \in Seq(Reqs) /\ ToSet(left) = ToSet(q) \ {r}
         /\ Ordered(q) => Ordered(left)
<1>1. left = Kept(q, ToSet(q) \ {r})
  BY SameWithout
<1>2. left \in Seq(Reqs) /\ ToSet(left) = ToSet(q) \ {r}
  BY <1>1, KeptProperties
<1>3. QED
  BY <1>1, <1>2, ReqsQueue, WithoutProperties

LEMMA PWithout ==
  ASSUME NEW q \in Seq(Reqs), NEW r
  PROVE  /\ ToSet(P!Without(q, r)) = ToSet(q) \ {r}
         /\ Ordered(q) => Ordered(P!Without(q, r))
<1>1. ASSUME NEW left, left = P!Without(q, r)
      PROVE  ToSet(left) = ToSet(q) \ {r} /\ (Ordered(q) => Ordered(left))
  BY <1>1, WithoutSet
<1>2. QED
  BY <1>1

LEMMA AtTheEnd ==
  ASSUME NEW q \in Seq(Reqs), Ordered(q), NEW r \in Reqs, \A x \in ToSet(q) : x < r
  PROVE  Ordered(Append(q, r)) /\ P!Insort(q, r) = Append(q, r)
<1>1. q \in Seq(Nat) /\ r \in Nat
  BY ReqsNat, ReqsQueue
<1>2. Ordered(Append(q, r))
  BY <1>1, AppendOrdered
<1>3. InsertAt(q, Cardinality({i \in DOMAIN q : q[i] < r}) + 1, r) = Append(q, r)
  BY <1>1, InsortLast
<1>4. P!Insort(q, r) = InsertAt(q, Cardinality({i \in DOMAIN q : q[i] < r}) + 1, r)
  BY DEF P!Insort, P!Cardinality, Cardinality, P!InsertAt, InsertAt
<1>5. QED
  BY <1>2, <1>3, <1>4

LEMMA AtTheFront ==
  ASSUME NEW q \in Seq(Reqs), Ordered(q), NEW r \in Reqs, \A x \in ToSet(q) : r < x
  PROVE  Ordered(<<r>> \o q)
<1>1. q \in Seq(Nat) /\ r \in Nat
  BY ReqsNat, ReqsQueue
<1>2. QED
  BY <1>1, PrependOrdered

LEMMA FromTheFront ==
  ASSUME NEW q \in Seq(Reqs), q # << >>, Ordered(q)
  PROVE  /\ ToSet(Tail(q)) = ToSet(q) \ {Head(q)} /\ Ordered(Tail(q))
         /\ \A x \in ToSet(Tail(q)) : Head(q) < x
  BY ReqsQueue, TailOrdered

LEMMA FromTheEnd ==
  ASSUME NEW q \in Seq(Reqs), q # << >>
  PROVE  /\ Last(q) \in ToSet(q) /\ Last(q) \in Reqs
         /\ Last(q) = P!Last(q) /\ Last(q) = D!Last(q) /\ Last(q) = q[Len(q)]
         /\ Ordered(q) => P!Without(q, Last(q)) = SubSeq(q, 1, Len(q) - 1)
<1>1. Last(q) = P!Last(q) /\ Last(q) = D!Last(q) /\ Last(q) = q[Len(q)]
  BY DEF Last, P!Last, D!Last
<1>2. Len(q) \in DOMAIN q
  BY LenProperties, EmptySeq
<1>3. Last(q) \in ToSet(q) /\ Last(q) \in Reqs
  BY <1>1, <1>2, ElementType
<1>4. ASSUME Ordered(q) PROVE P!Without(q, Last(q)) = SubSeq(q, 1, Len(q) - 1)
  <2>1. Kept(q, ToSet(q) \ {Last(q)}) = SubSeq(q, 1, Len(q) - 1)
    BY <1>4, ReqsQueue, WithoutLast
  <2>2. QED
    BY <2>1, SameWithout
<1>5. QED
  BY <1>1, <1>3, <1>4

-----------------------------------------------------------------------------
(* What an instance hits is a number of tokens: the operators are those of  *)
(* KVCache, for the constants of the instance.                             *)

LEMMA TierFactor ==
  ASSUME NEW t \in DOMAIN Tiers
  PROVE  Tiers[t].factor \in Nat \ {0} /\ Tiers[t].blocks \in Nat \ {0}
<1>1. Tiers \in Seq([blocks : Nat \ {0}, factor : Nat \ {0}])
  BY PairAssumption DEF P!KVAssumption
<1>2. Tiers[t] \in [blocks : Nat \ {0}, factor : Nat \ {0}]
  BY ZenonT(40), <1>1, LenProperties
<1>3. QED
  BY <1>2

LEMMA PNpuHits ==
  ASSUME NEW kv, NEW r \in Reqs, NEW len \in Nat \ {0}
  PROVE  P!NpuHits(kv, r, len) \in 0..Len(Chain[r])
<1> DEFINE max == P!Lesser(P!MaxHitBlocks(len), Len(Chain[r]))
<1> DEFINE M == {i \in Nat : P!CachedBlock(kv.npu, Chain[r][i + 1]) = P!NoBlock}
<1> DEFINE Ends(k) == /\ \A i \in 1..k : ~(P!CachedBlock(kv.npu, Chain[r][i]) = P!NoBlock)
                      /\ k < max => P!CachedBlock(kv.npu, Chain[r][k + 1]) = P!NoBlock
<1>1. max \in Nat /\ max <= Len(Chain[r]) /\ Len(Chain[r]) \in Nat
  <2>1. BlockSize \in Nat \ {0} /\ Chain[r] \in Seq(Hashes) /\ len - 1 \in Nat
    BY PairAssumption DEF P!KVAssumption
  <2>2. P!MaxHitBlocks(len) \in Nat
    BY <2>1, DivBounds DEF P!MaxHitBlocks
  <2>3. Len(Chain[r]) \in Nat
    BY <2>1, LenProperties
  <2>4. QED
    BY <2>2, <2>3 DEF P!Lesser
<1>2. P!NpuHits(kv, r, len) = CHOOSE k \in 0..max : Ends(k)
  BY DEF P!NpuHits
<1> HIDE DEF max
<1>3. \E k \in 0..max : Ends(k)
  <2>1. PICK k \in 0..max : /\ \A i \in 0..(k - 1) : i \notin M
                            /\ k < max => k \in M
    <3> HIDE DEF M
    <3>1. 0 \in Nat /\ max \in Nat /\ 0 <= max
      BY <1>1
    <3>2. PICK N : N = M
      OBVIOUS
    <3>3. N \in SUBSET Nat
      BY <3>2 DEF M
    <3>4. \E k \in 0..max : /\ \A i \in 0..(k - 1) : i \notin N
                            /\ k < max => k \in N
      BY <3>1, <3>3, LongestRun
    <3>5. QED
      BY <3>2, <3>4
  <2>2. ASSUME NEW i \in 1..k PROVE ~(P!CachedBlock(kv.npu, Chain[r][i]) = P!NoBlock)
    <3>1. i - 1 \in 0..(k - 1) /\ i - 1 \in Nat /\ (i - 1) + 1 = i
      BY <1>1, <2>1
    <3>2. QED
      BY <2>1, <3>1
  <2>3. QED
    BY <2>1, <2>2
<1> HIDE DEF Ends
<1>4. P!NpuHits(kv, r, len) \in 0..max /\ Ends(P!NpuHits(kv, r, len))
  BY <1>2, <1>3
<1>5. QED
  BY <1>1, <1>4

LEMMA PGained ==
  ASSUME NEW kv, NEW r \in Reqs, NEW len \in Nat, NEW t \in DOMAIN Tiers, NEW npuHit \in Nat
  PROVE  P!Gained(kv, r, len, t, npuHit) \in Int
<1> DEFINE coarse == BlockSize * Tiers[t].factor
<1> DEFINE start == npuHit \div coarse
<1> DEFINE end == P!MaxCoarse(len, coarse)
<1> DEFINE top == P!Larger(start, end)
<1> DEFINE M == {i \in Nat : ~P!CoarseHit(kv, r, t, i)}
<1> DEFINE Ends(k) == /\ \A i \in start..(k - 1) : P!CoarseHit(kv, r, t, i)
                      /\ k < end => ~P!CoarseHit(kv, r, t, k)
<1> DEFINE last == CHOOSE k \in start..top : Ends(k)
<1>1. P!Gained(kv, r, len, t, npuHit) = coarse * last - npuHit
  BY DEF P!Gained
<1>2. coarse \in Nat \ {0}
  <2>1. BlockSize \in Nat \ {0} /\ Tiers[t].factor \in Nat \ {0}
    BY PairAssumption, TierFactor DEF P!KVAssumption
  <2>2. QED
    BY <2>1
<1> HIDE DEF coarse
<1>3. start \in Nat /\ end \in Nat
  BY <1>2, DivBounds DEF P!MaxCoarse
<1> HIDE DEF start, end
<1>4. top \in Nat /\ start <= top /\ end <= top
  BY <1>3 DEF P!Larger
<1> HIDE DEF top
<1>5. \E k \in start..top : Ends(k)
  <2>1. PICK N : N = M
    OBVIOUS
  <2>2. N \in SUBSET Nat
    BY <2>1
  <2>3. PICK k \in start..top : /\ \A i \in start..(k - 1) : i \notin N
                                /\ k < top => k \in N
    BY <1>3, <1>4, <2>2, LongestRun
  <2>4. ASSUME NEW i \in start..(k - 1) PROVE P!CoarseHit(kv, r, t, i)
    <3>1. i \in Nat
      BY <1>3
    <3>2. QED
      BY <2>1, <2>3, <3>1
  <2>5. ASSUME k < end PROVE ~P!CoarseHit(kv, r, t, k)
    <3>1. k < top
      BY <1>3, <1>4, <2>3, <2>5
    <3>2. QED
      BY <2>1, <2>3, <3>1
  <2>6. QED
    BY <2>3, <2>4, <2>5
<1> HIDE DEF Ends
<1>6. last \in start..top
  BY <1>5
<1> HIDE DEF last
<1>7. coarse * last \in Int
  BY <1>2, <1>3, <1>6
<1>8. QED
  BY <1>1, <1>7

LEMMA PLowerHit ==
  ASSUME NEW kv, NEW r \in Reqs, NEW len \in Nat, NEW npuHit \in Nat
  PROVE  P!LowerHit(kv, r, len, npuHit) \in Nat
<1> DEFINE worth == {t \in DOMAIN Tiers :
                       P!Gained(kv, r, len, t, npuHit) >= BlockSize * Tiers[t].factor}
<1>1. CASE worth = {}
  BY <1>1 DEF P!LowerHit
<1>2. CASE worth # {}
  <2>1. P!LowerHit(kv, r, len, npuHit) = P!Gained(kv, r, len, P!Min(worth), npuHit)
    BY <1>2 DEF P!LowerHit
  <2>2. DOMAIN Tiers = 1..Len(Tiers) /\ Len(Tiers) \in Nat
    BY PairAssumption, LenProperties DEF P!KVAssumption
  <2>3. worth \in SUBSET Nat
    BY <2>2
  <2>4. \E m \in worth : \A i \in worth : m <= i
    BY <1>2, <2>3, LeastElement
  <2>5. P!Min(worth) \in worth
    <3> HIDE DEF worth
    <3>1. QED
      BY <2>4 DEF P!Min
  <2>6. PICK t \in DOMAIN Tiers : /\ t = P!Min(worth)
                                  /\ P!Gained(kv, r, len, t, npuHit) >= BlockSize * Tiers[t].factor
    BY <2>5
  <2>7. P!Gained(kv, r, len, t, npuHit) \in Int
    BY PGained
  <2>8. BlockSize * Tiers[t].factor \in Nat
    <3>1. BlockSize \in Nat \ {0} /\ Tiers[t].factor \in Nat \ {0}
      BY PairAssumption, TierFactor DEF P!KVAssumption
    <3>2. QED
      BY <3>1
  <2>9. QED
    BY <2>1, <2>6, <2>7, <2>8
<1>3. QED
  BY <1>1, <1>2

LEMMA PrefillHits ==
  ASSUME NEW kv, NEW r \in Reqs, NEW len \in Nat \ {0}
  PROVE  P!HitTokens(P!GetComputedBlocks(kv, r, len)) \in Nat
<1> DEFINE k == P!NpuHits(kv, r, len)
<1>1. BlockSize \in Nat \ {0} /\ Len(Chain[r]) \in Nat
  BY PairAssumption DEF P!KVAssumption
<1>2. k \in Nat
  BY <1>1, PNpuHits
<1> HIDE DEF k
<1>3. k * BlockSize \in Nat
  BY <1>1, <1>2
<1>4. P!LowerHit(kv, r, len, k * BlockSize) \in Nat
  BY <1>3, PLowerHit
<1>5. QED
  BY <1>3, <1>4 DEF P!GetComputedBlocks, P!HitTokens, k

LEMMA DNpuHits ==
  ASSUME NEW kv, NEW r \in Reqs, NEW len \in Nat \ {0}
  PROVE  D!NpuHits(kv, r, len) \in 0..Len(Chain[r])
<1> DEFINE max == D!Lesser(D!MaxHitBlocks(len), Len(Chain[r]))
<1> DEFINE M == {i \in Nat : D!CachedBlock(kv.npu, Chain[r][i + 1]) = D!NoBlock}
<1> DEFINE Ends(k) == /\ \A i \in 1..k : ~(D!CachedBlock(kv.npu, Chain[r][i]) = D!NoBlock)
                      /\ k < max => D!CachedBlock(kv.npu, Chain[r][k + 1]) = D!NoBlock
<1>1. max \in Nat /\ max <= Len(Chain[r]) /\ Len(Chain[r]) \in Nat
  <2>1. BlockSize \in Nat \ {0} /\ Chain[r] \in Seq(Hashes) /\ len - 1 \in Nat
    BY PairAssumption DEF D!KVAssumption
  <2>2. D!MaxHitBlocks(len) \in Nat
    BY <2>1, DivBounds DEF D!MaxHitBlocks
  <2>3. Len(Chain[r]) \in Nat
    BY <2>1, LenProperties
  <2>4. QED
    BY <2>2, <2>3 DEF D!Lesser
<1>2. D!NpuHits(kv, r, len) = CHOOSE k \in 0..max : Ends(k)
  BY DEF D!NpuHits
<1> HIDE DEF max
<1>3. \E k \in 0..max : Ends(k)
  <2>1. PICK k \in 0..max : /\ \A i \in 0..(k - 1) : i \notin M
                            /\ k < max => k \in M
    <3> HIDE DEF M
    <3>1. 0 \in Nat /\ max \in Nat /\ 0 <= max
      BY <1>1
    <3>2. PICK N : N = M
      OBVIOUS
    <3>3. N \in SUBSET Nat
      BY <3>2 DEF M
    <3>4. \E k \in 0..max : /\ \A i \in 0..(k - 1) : i \notin N
                            /\ k < max => k \in N
      BY <3>1, <3>3, LongestRun
    <3>5. QED
      BY <3>2, <3>4
  <2>2. ASSUME NEW i \in 1..k PROVE ~(D!CachedBlock(kv.npu, Chain[r][i]) = D!NoBlock)
    <3>1. i - 1 \in 0..(k - 1) /\ i - 1 \in Nat /\ (i - 1) + 1 = i
      BY <1>1, <2>1
    <3>2. QED
      BY <2>1, <3>1
  <2>3. QED
    BY <2>1, <2>2
<1> HIDE DEF Ends
<1>4. D!NpuHits(kv, r, len) \in 0..max /\ Ends(D!NpuHits(kv, r, len))
  BY <1>2, <1>3
<1>5. QED
  BY <1>1, <1>4

LEMMA DGained ==
  ASSUME NEW kv, NEW r \in Reqs, NEW len \in Nat, NEW t \in DOMAIN Tiers, NEW npuHit \in Nat
  PROVE  D!Gained(kv, r, len, t, npuHit) \in Int
<1> DEFINE coarse == BlockSize * Tiers[t].factor
<1> DEFINE start == npuHit \div coarse
<1> DEFINE end == D!MaxCoarse(len, coarse)
<1> DEFINE top == D!Larger(start, end)
<1> DEFINE M == {i \in Nat : ~D!CoarseHit(kv, r, t, i)}
<1> DEFINE Ends(k) == /\ \A i \in start..(k - 1) : D!CoarseHit(kv, r, t, i)
                      /\ k < end => ~D!CoarseHit(kv, r, t, k)
<1> DEFINE last == CHOOSE k \in start..top : Ends(k)
<1>1. D!Gained(kv, r, len, t, npuHit) = coarse * last - npuHit
  BY DEF D!Gained
<1>2. coarse \in Nat \ {0}
  <2>1. BlockSize \in Nat \ {0} /\ Tiers[t].factor \in Nat \ {0}
    BY PairAssumption, TierFactor DEF D!KVAssumption
  <2>2. QED
    BY <2>1
<1> HIDE DEF coarse
<1>3. start \in Nat /\ end \in Nat
  BY <1>2, DivBounds DEF D!MaxCoarse
<1> HIDE DEF start, end
<1>4. top \in Nat /\ start <= top /\ end <= top
  BY <1>3 DEF D!Larger
<1> HIDE DEF top
<1>5. \E k \in start..top : Ends(k)
  <2>1. PICK N : N = M
    OBVIOUS
  <2>2. N \in SUBSET Nat
    BY <2>1
  <2>3. PICK k \in start..top : /\ \A i \in start..(k - 1) : i \notin N
                                /\ k < top => k \in N
    BY <1>3, <1>4, <2>2, LongestRun
  <2>4. ASSUME NEW i \in start..(k - 1) PROVE D!CoarseHit(kv, r, t, i)
    <3>1. i \in Nat
      BY <1>3
    <3>2. QED
      BY <2>1, <2>3, <3>1
  <2>5. ASSUME k < end PROVE ~D!CoarseHit(kv, r, t, k)
    <3>1. k < top
      BY <1>3, <1>4, <2>3, <2>5
    <3>2. QED
      BY <2>1, <2>3, <3>1
  <2>6. QED
    BY <2>3, <2>4, <2>5
<1> HIDE DEF Ends
<1>6. last \in start..top
  BY <1>5
<1> HIDE DEF last
<1>7. coarse * last \in Int
  BY <1>2, <1>3, <1>6
<1>8. QED
  BY <1>1, <1>7

LEMMA DLowerHit ==
  ASSUME NEW kv, NEW r \in Reqs, NEW len \in Nat, NEW npuHit \in Nat
  PROVE  D!LowerHit(kv, r, len, npuHit) \in Nat
<1> DEFINE worth == {t \in DOMAIN Tiers :
                       D!Gained(kv, r, len, t, npuHit) >= BlockSize * Tiers[t].factor}
<1>1. CASE worth = {}
  BY <1>1 DEF D!LowerHit
<1>2. CASE worth # {}
  <2>1. D!LowerHit(kv, r, len, npuHit) = D!Gained(kv, r, len, D!Min(worth), npuHit)
    BY <1>2 DEF D!LowerHit
  <2>2. DOMAIN Tiers = 1..Len(Tiers) /\ Len(Tiers) \in Nat
    BY PairAssumption, LenProperties DEF D!KVAssumption
  <2>3. worth \in SUBSET Nat
    BY <2>2
  <2>4. \E m \in worth : \A i \in worth : m <= i
    BY <1>2, <2>3, LeastElement
  <2>5. D!Min(worth) \in worth
    <3> HIDE DEF worth
    <3>1. QED
      BY <2>4 DEF D!Min
  <2>6. PICK t \in DOMAIN Tiers : /\ t = D!Min(worth)
                                  /\ D!Gained(kv, r, len, t, npuHit) >= BlockSize * Tiers[t].factor
    BY <2>5
  <2>7. D!Gained(kv, r, len, t, npuHit) \in Int
    BY DGained
  <2>8. BlockSize * Tiers[t].factor \in Nat
    <3>1. BlockSize \in Nat \ {0} /\ Tiers[t].factor \in Nat \ {0}
      BY PairAssumption, TierFactor DEF D!KVAssumption
    <3>2. QED
      BY <3>1
  <2>9. QED
    BY <2>1, <2>6, <2>7, <2>8
<1>3. QED
  BY <1>1, <1>2

LEMMA DecodeHits ==
  ASSUME NEW kv, NEW r \in Reqs, NEW len \in Nat \ {0}
  PROVE  D!HitTokens(D!GetComputedBlocks(kv, r, len)) \in Nat
<1> DEFINE k == D!NpuHits(kv, r, len)
<1>1. BlockSize \in Nat \ {0} /\ Len(Chain[r]) \in Nat
  BY PairAssumption DEF D!KVAssumption
<1>2. k \in Nat
  BY <1>1, DNpuHits
<1> HIDE DEF k
<1>3. k * BlockSize \in Nat
  BY <1>1, <1>2
<1>4. D!LowerHit(kv, r, len, k * BlockSize) \in Nat
  BY <1>3, DLowerHit
<1>5. QED
  BY <1>3, <1>4 DEF D!GetComputedBlocks, D!HitTokens, k
-----------------------------------------------------------------------------
(* A step of the prefill instance keeps the types, gives it no request it   *)
(* does not have, and touches no other.                                    *)
PStays == P!TypeOK' /\ PHas' \subseteq PHas /\ Touches(PHas)

LEMMA PIdle == P!StartNpu \in P!Npus /\ P!LastNpu \in P!Npus /\ P!Idle \in StepsOf(P!Npus)
<1>1. NumNpus \in Nat \ {0}
  BY PairAssumption DEF P!SchedulerAssumption
<1>2. P!LastNpu \in Nat
  BY <1>1 DEF P!LastNpu
<1>3. P!StartNpu \in P!Npus /\ P!LastNpu \in P!Npus
  BY <1>2 DEF P!StartNpu, P!Npus
<1>4. << >> \in Seq(Work) /\ << >> \in Seq(Reqs)
  OBVIOUS
<1>5. QED
  BY <1>3, <1>4 DEF P!Idle, StepsOf

LEMMA PTyped ==
  ASSUME P!TypeOK
  PROVE  /\ status \in Statuses /\ computed \in [Reqs -> Nat] /\ reached \in [Reqs -> Nat]
         /\ isInit \subseteq Reqs
         /\ pWaiting \in Seq(Reqs) /\ pRunning \in Seq(Reqs) /\ pFinished \in Seq(Reqs)
         /\ pInflight \in Seq(BatchesOf(P!Npus)) /\ pNextId \in Nat
         /\ pRan \in [P!Npus -> Nat] /\ pBusy \subseteq P!Npus
         /\ pShipping \in [hit : [Reqs -> Nat], sent : [Reqs -> Nat]]
         /\ pStep \in StepsOf(P!Npus)
  BY DEF P!TypeOK, P!Work, Work, Statuses, BatchesOf, StepsOf

LEMMA PTypedNext ==
  ASSUME status' \in Statuses, computed' \in [Reqs -> Nat], reached' \in [Reqs -> Nat],
         isInit' \subseteq Reqs,
         pWaiting' \in Seq(Reqs), pRunning' \in Seq(Reqs), pFinished' \in Seq(Reqs),
         pInflight' \in Seq(BatchesOf(P!Npus)), pNextId' \in Nat,
         pRan' \in [P!Npus -> Nat], pBusy' \subseteq P!Npus,
         pShipping' \in [hit : [Reqs -> Nat], sent : [Reqs -> Nat]],
         pStep' \in StepsOf(P!Npus)
  PROVE  P!TypeOK'
  BY DEF P!TypeOK, P!Work, Work, Statuses, BatchesOf, StepsOf

LEMMA PFields ==
  ASSUME P!TypeOK
  PROVE  /\ pStep.at \in {"idle", "complete", "handover", "raised", "schedule", "running", "waiting", "build"}
         /\ pStep.npu \in P!Npus /\ pStep.todo \in Seq(Work) /\ pStep.handed \in Seq(Reqs)
         /\ pStep.budget \in Nat /\ pStep.i \in Nat \ {0} /\ pStep.scheduled \in Seq(Work)
         /\ pStep.preempted \subseteq Reqs
  BY PTyped DEF StepsOf

(* A step that moves no request. *)
LEMMA PQuiet ==
  ASSUME P!TypeOK, UNCHANGED <<P!requests, P!queues, pFinished, pShipping>>,
         pInflight' \in Seq(BatchesOf(P!Npus)), Flying(pInflight') \subseteq Flying(pInflight),
         pNextId' = pNextId, pRan' \in [P!Npus -> Nat], pBusy' \subseteq P!Npus,
         pStep' \in StepsOf(P!Npus),
         Of(pStep'.todo) \subseteq PHas, Of(pStep'.scheduled) \subseteq PHas
        , ToSet(pStep'.handed) \subseteq PHas
  PROVE  PStays
<1>1. P!TypeOK'
  BY PTyped, PTypedNext DEF P!requests, P!queues
<1>2. PHas' \subseteq PHas
  BY DEF PHas, P!queues
<1>3. Touches(PHas)
  BY PTyped DEF Touches, P!requests
<1>4. QED
  BY <1>1, <1>2, <1>3 DEF PStays

LEMMA PHandBack == ASSUME P!TypeOK, NEW n \in P!Npus, P!HandBack(n) PROVE PStays
<1>1. /\ UNCHANGED <<pKv, P!requests, P!queues, pNextId, pFinished, pShipping>>
      /\ pBusy' = pBusy \ {n} /\ pRan' = [pRan EXCEPT ![n] = @ + 1]
  BY DEF P!HandBack
<1>2. PICK k \in DOMAIN pInflight :
        /\ pInflight' = [pInflight EXCEPT ![k] = P!Ended(@, n)]
        /\ pStep' = IF P!BatchOver(pInflight'[k])
                    THEN [P!Idle EXCEPT !.at = "complete", !.npu = n, !.todo = pInflight[k].work]
                    ELSE [P!Idle EXCEPT !.at = "schedule", !.npu = n]
  BY DEF P!HandBack
<1> DEFINE b == P!Ended(pInflight[k], n)
<1>3. pInflight \in Seq(BatchesOf(P!Npus)) /\ pInflight[k] \in BatchesOf(P!Npus)
  BY PTyped, ElementType
<1>4. b \in BatchesOf(P!Npus) /\ b.work = pInflight[k].work /\ pInflight[k].work \in Seq(Work)
  BY <1>3 DEF P!Ended, BatchesOf
<1>5. pInflight' = [pInflight EXCEPT ![k] = b]
  BY <1>2
<1> HIDE DEF b
<1>6. /\ pInflight' \in Seq(BatchesOf(P!Npus)) /\ Flying(pInflight') = Flying(pInflight)
      /\ Of(pInflight[k].work) \subseteq Flying(pInflight)
  <2>1. Marked(BatchesOf(P!Npus), pInflight, k, [pInflight EXCEPT ![k] = b])
    BY ONLY k \in DOMAIN pInflight, <1>3, <1>4, MarkedBatch
  <2>2. QED
    BY <1>5, <2>1 DEF Marked
<1>7. /\ pStep' \in StepsOf(P!Npus) /\ pStep'.scheduled = << >> /\ pStep'.handed = << >>
      /\ pStep'.todo \in {pInflight[k].work, << >>}
  BY <1>2, <1>4, PIdle DEF StepsOf, P!Idle
<1>8. Of(pStep'.todo) \subseteq PHas /\ Of(pStep'.scheduled) \subseteq PHas /\ ToSet(pStep'.handed) \subseteq PHas
  BY <1>6, <1>7, NoElements DEF PHas
<1>9. pRan' \in [P!Npus -> Nat] /\ pBusy' \subseteq P!Npus
  BY <1>1, PTyped
<1>10. QED
  BY <1>1, <1>6, <1>7, <1>8, <1>9, PQuiet

(* Steps that go on to another place of the handshake, or end it. *)
LEMMA PGoesOn ==
  ASSUME P!TypeOK, UNCHANGED <<pKv, P!requests, P!queues, P!batches, pFinished, pShipping, P!npus>>,
         pStep' \in StepsOf(P!Npus), Of(pStep'.todo) \subseteq Of(pStep.todo),
         Of(pStep'.scheduled) \subseteq Of(pStep.scheduled),
         ToSet(pStep'.handed) \subseteq ToSet(pStep.handed)
  PROVE  PStays
<1>1. /\ UNCHANGED <<P!requests, P!queues, pFinished, pShipping>>
      /\ pInflight' \in Seq(BatchesOf(P!Npus)) /\ Flying(pInflight') \subseteq Flying(pInflight)
      /\ pNextId' = pNextId /\ pRan' \in [P!Npus -> Nat] /\ pBusy' \subseteq P!Npus
  BY PTyped DEF P!batches, P!npus
<1>2. QED
  BY <1>1, PQuiet DEF PHas

LEMMA PPoll == ASSUME P!TypeOK, NEW n \in P!Npus, P!Poll(n) PROVE PStays
<1>1. /\ UNCHANGED <<pKv, P!requests, P!queues, P!batches, pFinished, pShipping, P!npus>>
      /\ pStep' = [P!Idle EXCEPT !.at = "schedule", !.npu = n]
  BY DEF P!Poll
<1>2. /\ pStep' \in StepsOf(P!Npus) /\ pStep'.todo = << >>
      /\ pStep'.scheduled = << >> /\ pStep'.handed = << >>
  BY <1>1, PIdle DEF StepsOf, P!Idle
<1>3. QED
  BY <1>1, <1>2, PGoesOn, NoElements

LEMMA PSkipFinished == ASSUME P!TypeOK, P!SkipFinished PROVE PStays
<1>1. /\ UNCHANGED <<pKv, P!requests, P!queues, P!batches, pFinished, pShipping, P!npus>>
      /\ pStep.todo # << >> /\ pStep' = [pStep EXCEPT !.todo = Tail(@)]
  BY DEF P!SkipFinished
<1>2. Tail(pStep.todo) \in Seq(Work) /\ Of(Tail(pStep.todo)) \subseteq Of(pStep.todo)
  BY <1>1, PFields, LessWork
<1>3. /\ pStep' \in StepsOf(P!Npus) /\ pStep'.todo = Tail(pStep.todo)
      /\ pStep'.scheduled = pStep.scheduled /\ pStep'.handed = pStep.handed
  BY <1>1, <1>2, PTyped DEF StepsOf
<1>4. QED
  BY <1>1, <1>2, <1>3, PGoesOn

LEMMA PPasses ==
  ASSUME P!TypeOK,
         P!Pass \/ P!NothingToBuild \/ P!StartSchedule \/ P!SkipRunning
                \/ P!EndRunning \/ P!EndWaiting
  PROVE  PStays
<1>1. UNCHANGED <<pKv, P!requests, P!queues, P!batches, pFinished, pShipping, P!npus>>
  BY DEF P!Pass, P!NothingToBuild, P!StartSchedule, P!SkipRunning, P!EndRunning, P!EndWaiting
<1>2. CASE P!Pass \/ P!NothingToBuild
  <2>1. pStep' = P!Idle
    BY <1>2 DEF P!Pass, P!NothingToBuild, P!Return
  <2>2. /\ pStep' \in StepsOf(P!Npus) /\ pStep'.todo = << >>
        /\ pStep'.scheduled = << >> /\ pStep'.handed = << >>
    BY <2>1, PIdle DEF P!Idle
  <2>3. QED
    BY <1>1, <2>2, PGoesOn, NoElements
<1>3. CASE P!StartSchedule \/ P!SkipRunning \/ P!EndRunning \/ P!EndWaiting
  <2>1. MaxBatchedTokens \in Nat
    BY PairAssumption DEF P!SchedulerAssumption
  <2>2. /\ pStep' \in StepsOf(P!Npus) /\ pStep'.todo = pStep.todo
        /\ pStep'.scheduled = pStep.scheduled /\ pStep'.handed = pStep.handed
    <3>1. CASE P!StartSchedule
      BY <2>1, <3>1, PTyped DEF P!StartSchedule, StepsOf
    <3>2. CASE P!SkipRunning
      <4>1. pStep.i + 1 \in Nat \ {0}
        BY PFields
      <4>2. pStep' = [pStep EXCEPT !.i = pStep.i + 1]
        BY <3>2 DEF P!SkipRunning
      <4>3. QED
        BY <4>1, <4>2, PTyped DEF StepsOf
    <3>3. CASE P!EndRunning
      BY <3>3, PTyped DEF P!EndRunning, P!Goto, StepsOf
    <3>4. CASE P!EndWaiting
      BY <3>4, PTyped DEF P!EndWaiting, P!Goto, StepsOf
    <3>5. QED
      BY <1>3, <3>1, <3>2, <3>3, <3>4
  <2>3. QED
    BY <1>1, <2>2, PGoesOn
<1>4. QED
  BY <1>2, <1>3

LEMMA PDropBatch == ASSUME P!TypeOK, P!DropBatch PROVE PStays
<1> DEFINE T == {batch \in P!ToSet(pInflight) : ~P!BatchOver(batch)}
<1>1. /\ UNCHANGED <<pKv, P!requests, P!queues, pNextId, pFinished, pShipping, P!npus>>
      /\ pInflight' = P!Kept(pInflight, T)
      /\ pStep' = [pStep EXCEPT !.at = IF pStep.handed = << >> THEN "schedule" ELSE "handover"]
  BY DEF P!DropBatch, P!Goto
<1> HIDE DEF T
<1>2. pInflight' \in Seq(BatchesOf(P!Npus)) /\ ToSet(pInflight') = ToSet(pInflight) \cap T
  BY <1>1, PTyped, KeptSet
<1>3. Flying(pInflight') \subseteq Flying(pInflight)
  BY <1>2, FewerBatches
<1>4. /\ pStep' \in StepsOf(P!Npus) /\ pStep'.todo = pStep.todo
      /\ pStep'.scheduled = pStep.scheduled /\ pStep'.handed = pStep.handed
  BY <1>1, PTyped DEF StepsOf
<1>5. pRan' \in [P!Npus -> Nat] /\ pBusy' \subseteq P!Npus
  BY <1>1, PTyped DEF P!npus
<1>6. QED
  BY <1>1, <1>2, <1>3, <1>4, <1>5, PQuiet DEF PHas

LEMMA PJoinBatch == ASSUME P!TypeOK, P!JoinBatch PROVE PStays
<1>1. /\ UNCHANGED <<pKv, P!requests, P!queues, pNextId, pFinished, pShipping, pRan>>
      /\ pBusy' = pBusy \cup {pStep.npu} /\ pStep' = P!Idle
  BY DEF P!JoinBatch, P!Return
<1>2. PICK k \in P!Joinable(pStep.npu) :
        pInflight' = [pInflight EXCEPT ![k].fired = @ \cup {pStep.npu}]
  BY DEF P!JoinBatch
<1> DEFINE b == [pInflight[k] EXCEPT !.fired = @ \cup {pStep.npu}]
<1>3. /\ k \in DOMAIN pInflight /\ pInflight \in Seq(BatchesOf(P!Npus))
      /\ pInflight[k] \in BatchesOf(P!Npus) /\ pStep.npu \in P!Npus
  BY PTyped, PFields, ElementType DEF P!Joinable
<1>4. b \in BatchesOf(P!Npus) /\ b.work = pInflight[k].work
  BY <1>3 DEF BatchesOf
<1>5. pInflight' = [pInflight EXCEPT ![k] = b]
  BY <1>2
<1> HIDE DEF b
<1>6. pInflight' \in Seq(BatchesOf(P!Npus)) /\ Flying(pInflight') = Flying(pInflight)
  <2>1. Marked(BatchesOf(P!Npus), pInflight, k, [pInflight EXCEPT ![k] = b])
    BY ONLY <1>3, <1>4, MarkedBatch
  <2>2. QED
    BY <1>5, <2>1 DEF Marked
<1>7. /\ pStep' \in StepsOf(P!Npus) /\ pStep'.todo = << >>
      /\ pStep'.scheduled = << >> /\ pStep'.handed = << >>
  BY <1>1, PIdle DEF P!Idle
<1>8. pRan' \in [P!Npus -> Nat] /\ pBusy' \subseteq P!Npus
  BY <1>1, <1>3, PTyped
<1>9. Of(pStep'.todo) \subseteq PHas /\ Of(pStep'.scheduled) \subseteq PHas /\ ToSet(pStep'.handed) \subseteq PHas
  BY <1>7, NoElements
<1>10. QED
  BY <1>1, <1>6, <1>7, <1>8, <1>9, PQuiet

-----------------------------------------------------------------------------
(* A step of the decode instance keeps the types, gives it no request it   *)
(* does not have, and touches no other.                                    *)
DStays == D!TypeOK' /\ DHas' \subseteq DHas /\ Touches(DHas)

LEMMA DIdle == D!StartNpu \in D!Npus /\ D!LastNpu \in D!Npus /\ D!Idle \in StepsOf(D!Npus)
<1>1. NumNpus \in Nat \ {0}
  BY PairAssumption DEF D!SchedulerAssumption
<1>2. D!LastNpu \in Nat
  BY <1>1 DEF D!LastNpu
<1>3. D!StartNpu \in D!Npus /\ D!LastNpu \in D!Npus
  BY <1>2 DEF D!StartNpu, D!Npus
<1>4. << >> \in Seq(Work) /\ << >> \in Seq(Reqs)
  OBVIOUS
<1>5. QED
  BY <1>3, <1>4 DEF D!Idle, StepsOf

LEMMA DTyped ==
  ASSUME D!TypeOK
  PROVE  /\ status \in Statuses /\ computed \in [Reqs -> Nat] /\ reached \in [Reqs -> Nat]
         /\ isInit \subseteq Reqs
         /\ dWaiting \in Seq(Reqs) /\ dRunning \in Seq(Reqs) /\ dFinished \in Seq(Reqs)
         /\ dInflight \in Seq(BatchesOf(D!Npus)) /\ dNextId \in Nat
         /\ dRan \in [D!Npus -> Nat] /\ dBusy \subseteq D!Npus
         /\ dShipping \in [hit : [Reqs -> Nat], sent : [Reqs -> Nat]]
         /\ dStep \in StepsOf(D!Npus)
  BY DEF D!TypeOK, D!Work, Work, Statuses, BatchesOf, StepsOf

LEMMA DTypedNext ==
  ASSUME status' \in Statuses, computed' \in [Reqs -> Nat], reached' \in [Reqs -> Nat],
         isInit' \subseteq Reqs,
         dWaiting' \in Seq(Reqs), dRunning' \in Seq(Reqs), dFinished' \in Seq(Reqs),
         dInflight' \in Seq(BatchesOf(D!Npus)), dNextId' \in Nat,
         dRan' \in [D!Npus -> Nat], dBusy' \subseteq D!Npus,
         dShipping' \in [hit : [Reqs -> Nat], sent : [Reqs -> Nat]],
         dStep' \in StepsOf(D!Npus)
  PROVE  D!TypeOK'
  BY DEF D!TypeOK, D!Work, Work, Statuses, BatchesOf, StepsOf

LEMMA DFields ==
  ASSUME D!TypeOK
  PROVE  /\ dStep.at \in {"idle", "complete", "handover", "raised", "schedule", "running", "waiting", "build"}
         /\ dStep.npu \in D!Npus /\ dStep.todo \in Seq(Work) /\ dStep.handed \in Seq(Reqs)
         /\ dStep.budget \in Nat /\ dStep.i \in Nat \ {0} /\ dStep.scheduled \in Seq(Work)
         /\ dStep.preempted \subseteq Reqs
  BY DTyped DEF StepsOf

(* A step that moves no request. *)
LEMMA DQuiet ==
  ASSUME D!TypeOK, UNCHANGED <<D!requests, D!queues, dFinished, dShipping>>,
         dInflight' \in Seq(BatchesOf(D!Npus)), Flying(dInflight') \subseteq Flying(dInflight),
         dNextId' = dNextId, dRan' \in [D!Npus -> Nat], dBusy' \subseteq D!Npus,
         dStep' \in StepsOf(D!Npus),
         Of(dStep'.todo) \subseteq DHas, Of(dStep'.scheduled) \subseteq DHas
  PROVE  DStays
<1>1. D!TypeOK'
  BY DTyped, DTypedNext DEF D!requests, D!queues
<1>2. DHas' \subseteq DHas
  BY DEF DHas, D!queues
<1>3. Touches(DHas)
  BY DTyped DEF Touches, D!requests
<1>4. QED
  BY <1>1, <1>2, <1>3 DEF DStays

LEMMA DHandBack == ASSUME D!TypeOK, NEW n \in D!Npus, D!HandBack(n) PROVE DStays
<1>1. /\ UNCHANGED <<dKv, D!requests, D!queues, dNextId, dFinished, dShipping>>
      /\ dBusy' = dBusy \ {n} /\ dRan' = [dRan EXCEPT ![n] = @ + 1]
  BY DEF D!HandBack
<1>2. PICK k \in DOMAIN dInflight :
        /\ dInflight' = [dInflight EXCEPT ![k] = D!Ended(@, n)]
        /\ dStep' = IF D!BatchOver(dInflight'[k])
                    THEN [D!Idle EXCEPT !.at = "complete", !.npu = n, !.todo = dInflight[k].work]
                    ELSE [D!Idle EXCEPT !.at = "schedule", !.npu = n]
  BY DEF D!HandBack
<1> DEFINE b == D!Ended(dInflight[k], n)
<1>3. dInflight \in Seq(BatchesOf(D!Npus)) /\ dInflight[k] \in BatchesOf(D!Npus)
  BY DTyped, ElementType
<1>4. b \in BatchesOf(D!Npus) /\ b.work = dInflight[k].work /\ dInflight[k].work \in Seq(Work)
  BY <1>3 DEF D!Ended, BatchesOf
<1>5. dInflight' = [dInflight EXCEPT ![k] = b]
  BY <1>2
<1> HIDE DEF b
<1>6. /\ dInflight' \in Seq(BatchesOf(D!Npus)) /\ Flying(dInflight') = Flying(dInflight)
      /\ Of(dInflight[k].work) \subseteq Flying(dInflight)
  <2>1. Marked(BatchesOf(D!Npus), dInflight, k, [dInflight EXCEPT ![k] = b])
    BY ONLY k \in DOMAIN dInflight, <1>3, <1>4, MarkedBatch
  <2>2. QED
    BY <1>5, <2>1 DEF Marked
<1>7. /\ dStep' \in StepsOf(D!Npus) /\ dStep'.scheduled = << >> /\ dStep'.handed = << >>
      /\ dStep'.todo \in {dInflight[k].work, << >>}
  BY <1>2, <1>4, DIdle DEF StepsOf, D!Idle
<1>8. Of(dStep'.todo) \subseteq DHas /\ Of(dStep'.scheduled) \subseteq DHas /\ ToSet(dStep'.handed) \subseteq DHas
  BY <1>6, <1>7, NoElements DEF DHas
<1>9. dRan' \in [D!Npus -> Nat] /\ dBusy' \subseteq D!Npus
  BY <1>1, DTyped
<1>10. QED
  BY <1>1, <1>6, <1>7, <1>8, <1>9, DQuiet

(* Steps that go on to another place of the handshake, or end it. *)
LEMMA DGoesOn ==
  ASSUME D!TypeOK, UNCHANGED <<dKv, D!requests, D!queues, D!batches, dFinished, dShipping, D!npus>>,
         dStep' \in StepsOf(D!Npus), Of(dStep'.todo) \subseteq Of(dStep.todo),
         Of(dStep'.scheduled) \subseteq Of(dStep.scheduled),
         ToSet(dStep'.handed) \subseteq ToSet(dStep.handed)
  PROVE  DStays
<1>1. /\ UNCHANGED <<D!requests, D!queues, dFinished, dShipping>>
      /\ dInflight' \in Seq(BatchesOf(D!Npus)) /\ Flying(dInflight') \subseteq Flying(dInflight)
      /\ dNextId' = dNextId /\ dRan' \in [D!Npus -> Nat] /\ dBusy' \subseteq D!Npus
  BY DTyped DEF D!batches, D!npus
<1>2. QED
  BY <1>1, DQuiet DEF DHas

LEMMA DPoll == ASSUME D!TypeOK, NEW n \in D!Npus, D!Poll(n) PROVE DStays
<1>1. /\ UNCHANGED <<dKv, D!requests, D!queues, D!batches, dFinished, dShipping, D!npus>>
      /\ dStep' = [D!Idle EXCEPT !.at = "schedule", !.npu = n]
  BY DEF D!Poll
<1>2. /\ dStep' \in StepsOf(D!Npus) /\ dStep'.todo = << >>
      /\ dStep'.scheduled = << >> /\ dStep'.handed = << >>
  BY <1>1, DIdle DEF StepsOf, D!Idle
<1>3. QED
  BY <1>1, <1>2, DGoesOn, NoElements

LEMMA DSkipFinished == ASSUME D!TypeOK, D!SkipFinished PROVE DStays
<1>1. /\ UNCHANGED <<dKv, D!requests, D!queues, D!batches, dFinished, dShipping, D!npus>>
      /\ dStep.todo # << >> /\ dStep' = [dStep EXCEPT !.todo = Tail(@)]
  BY DEF D!SkipFinished
<1>2. Tail(dStep.todo) \in Seq(Work) /\ Of(Tail(dStep.todo)) \subseteq Of(dStep.todo)
  BY <1>1, DFields, LessWork
<1>3. /\ dStep' \in StepsOf(D!Npus) /\ dStep'.todo = Tail(dStep.todo)
      /\ dStep'.scheduled = dStep.scheduled /\ dStep'.handed = dStep.handed
  BY <1>1, <1>2, DTyped DEF StepsOf
<1>4. QED
  BY <1>1, <1>2, <1>3, DGoesOn

LEMMA DPasses ==
  ASSUME D!TypeOK,
         D!Pass \/ D!NothingToBuild \/ D!StartSchedule \/ D!SkipRunning
                \/ D!EndRunning \/ D!EndWaiting
  PROVE  DStays
<1>1. UNCHANGED <<dKv, D!requests, D!queues, D!batches, dFinished, dShipping, D!npus>>
  BY DEF D!Pass, D!NothingToBuild, D!StartSchedule, D!SkipRunning, D!EndRunning, D!EndWaiting
<1>2. CASE D!Pass \/ D!NothingToBuild
  <2>1. dStep' = D!Idle
    BY <1>2 DEF D!Pass, D!NothingToBuild, D!Return
  <2>2. /\ dStep' \in StepsOf(D!Npus) /\ dStep'.todo = << >>
        /\ dStep'.scheduled = << >> /\ dStep'.handed = << >>
    BY <2>1, DIdle DEF D!Idle
  <2>3. QED
    BY <1>1, <2>2, DGoesOn, NoElements
<1>3. CASE D!StartSchedule \/ D!SkipRunning \/ D!EndRunning \/ D!EndWaiting
  <2>1. MaxBatchedTokens \in Nat
    BY PairAssumption DEF D!SchedulerAssumption
  <2>2. /\ dStep' \in StepsOf(D!Npus) /\ dStep'.todo = dStep.todo
        /\ dStep'.scheduled = dStep.scheduled /\ dStep'.handed = dStep.handed
    <3>1. CASE D!StartSchedule
      BY <2>1, <3>1, DTyped DEF D!StartSchedule, StepsOf
    <3>2. CASE D!SkipRunning
      <4>1. dStep.i + 1 \in Nat \ {0}
        BY DFields
      <4>2. dStep' = [dStep EXCEPT !.i = dStep.i + 1]
        BY <3>2 DEF D!SkipRunning
      <4>3. QED
        BY <4>1, <4>2, DTyped DEF StepsOf
    <3>3. CASE D!EndRunning
      BY <3>3, DTyped DEF D!EndRunning, D!Goto, StepsOf
    <3>4. CASE D!EndWaiting
      BY <3>4, DTyped DEF D!EndWaiting, D!Goto, StepsOf
    <3>5. QED
      BY <1>3, <3>1, <3>2, <3>3, <3>4
  <2>3. QED
    BY <1>1, <2>2, DGoesOn
<1>4. QED
  BY <1>2, <1>3

LEMMA DDropBatch == ASSUME D!TypeOK, D!DropBatch PROVE DStays
<1> DEFINE T == {batch \in D!ToSet(dInflight) : ~D!BatchOver(batch)}
<1>1. /\ UNCHANGED <<dKv, D!requests, D!queues, dNextId, dFinished, dShipping, D!npus>>
      /\ dInflight' = D!Kept(dInflight, T)
      /\ dStep' = [dStep EXCEPT !.at = IF dStep.handed = << >> THEN "schedule" ELSE "handover"]
  BY DEF D!DropBatch, D!Goto
<1> HIDE DEF T
<1>2. dInflight' \in Seq(BatchesOf(D!Npus)) /\ ToSet(dInflight') = ToSet(dInflight) \cap T
  BY <1>1, DTyped, KeptSet
<1>3. Flying(dInflight') \subseteq Flying(dInflight)
  BY <1>2, FewerBatches
<1>4. /\ dStep' \in StepsOf(D!Npus) /\ dStep'.todo = dStep.todo
      /\ dStep'.scheduled = dStep.scheduled /\ dStep'.handed = dStep.handed
  BY <1>1, DTyped DEF StepsOf
<1>5. dRan' \in [D!Npus -> Nat] /\ dBusy' \subseteq D!Npus
  BY <1>1, DTyped DEF D!npus
<1>6. QED
  BY <1>1, <1>2, <1>3, <1>4, <1>5, DQuiet DEF DHas

LEMMA DJoinBatch == ASSUME D!TypeOK, D!JoinBatch PROVE DStays
<1>1. /\ UNCHANGED <<dKv, D!requests, D!queues, dNextId, dFinished, dShipping, dRan>>
      /\ dBusy' = dBusy \cup {dStep.npu} /\ dStep' = D!Idle
  BY DEF D!JoinBatch, D!Return
<1>2. PICK k \in D!Joinable(dStep.npu) :
        dInflight' = [dInflight EXCEPT ![k].fired = @ \cup {dStep.npu}]
  BY DEF D!JoinBatch
<1> DEFINE b == [dInflight[k] EXCEPT !.fired = @ \cup {dStep.npu}]
<1>3. /\ k \in DOMAIN dInflight /\ dInflight \in Seq(BatchesOf(D!Npus))
      /\ dInflight[k] \in BatchesOf(D!Npus) /\ dStep.npu \in D!Npus
  BY DTyped, DFields, ElementType DEF D!Joinable
<1>4. b \in BatchesOf(D!Npus) /\ b.work = dInflight[k].work
  BY <1>3 DEF BatchesOf
<1>5. dInflight' = [dInflight EXCEPT ![k] = b]
  BY <1>2
<1> HIDE DEF b
<1>6. dInflight' \in Seq(BatchesOf(D!Npus)) /\ Flying(dInflight') = Flying(dInflight)
  <2>1. Marked(BatchesOf(D!Npus), dInflight, k, [dInflight EXCEPT ![k] = b])
    BY ONLY <1>3, <1>4, MarkedBatch
  <2>2. QED
    BY <1>5, <2>1 DEF Marked
<1>7. /\ dStep' \in StepsOf(D!Npus) /\ dStep'.todo = << >>
      /\ dStep'.scheduled = << >> /\ dStep'.handed = << >>
  BY <1>1, DIdle DEF D!Idle
<1>8. dRan' \in [D!Npus -> Nat] /\ dBusy' \subseteq D!Npus
  BY <1>1, <1>3, DTyped
<1>9. Of(dStep'.todo) \subseteq DHas /\ Of(dStep'.scheduled) \subseteq DHas /\ ToSet(dStep'.handed) \subseteq DHas
  BY <1>7, NoElements
<1>10. QED
  BY <1>1, <1>6, <1>7, <1>8, <1>9, DQuiet

(* Schedule(r, n, before) of the code. *)
LEMMA PSchedule ==
  ASSUME P!TypeOK, NEW r \in Reqs, NEW n \in Nat, n <= pStep.budget, NEW before \in Nat,
         P!Schedule(r, n, before)
  PROVE  /\ pStep' \in StepsOf(P!Npus) /\ pStep'.at = pStep.at /\ pStep'.i = pStep.i + 1
         /\ pStep'.todo = pStep.todo /\ pStep'.handed = pStep.handed
         /\ ToSet(pStep'.scheduled) =
              ToSet(pStep.scheduled) \cup {[req |-> r, n |-> n, before |-> before]}
         /\ Of(pStep'.scheduled) = Of(pStep.scheduled) \cup {r}
<1> DEFINE w == [req |-> r, n |-> n, before |-> before]
<1> DEFINE more == Append(pStep.scheduled, w)
<1>1. w \in Work /\ pStep.scheduled \in Seq(Work) /\ w.req = r
  BY PFields DEF Work
<1>2. more \in Seq(Work) /\ ToSet(more) = ToSet(pStep.scheduled) \cup {w}
  BY <1>1, AppendSet
<1>3. Of(more) = Of(pStep.scheduled) \cup {r}
  <2> HIDE DEF w
  <2>1. Of(more) = Of(pStep.scheduled) \cup {w.req}
    BY <1>1, MoreWork
  <2>2. QED
    BY <1>1, <2>1
<1>4. pStep' = [pStep EXCEPT !.scheduled = more, !.budget = pStep.budget - n, !.i = pStep.i + 1]
  BY DEF P!Schedule
<1>5. pStep.budget - n \in Nat /\ pStep.i + 1 \in Nat \ {0}
  BY PFields
<1> HIDE DEF w, more
<1>6. /\ pStep' \in StepsOf(P!Npus) /\ pStep'.at = pStep.at /\ pStep'.i = pStep.i + 1
      /\ pStep'.scheduled = more /\ pStep'.todo = pStep.todo /\ pStep'.handed = pStep.handed
  BY <1>2, <1>4, <1>5, PTyped DEF StepsOf
<1>7. QED
  BY <1>2, <1>3, <1>6 DEF w

LEMMA PServing ==
  ASSUME P!TypeOK, P!Serving
  PROVE  /\ P!Current \in Reqs /\ P!Current \in ToSet(pRunning) /\ pStep.i \in DOMAIN pRunning
         /\ computed[P!Current] \in Nat /\ reached[P!Current] \in Nat
         /\ pRunning # << >> /\ P!Victim = Last(pRunning)
         /\ P!Victim \in Reqs /\ P!Victim \in ToSet(pRunning)
<1>1. pRunning \in Seq(Reqs) /\ pStep.i \in Nat \ {0} /\ pStep.i <= Len(pRunning)
  BY PTyped, PFields DEF P!Serving
<1>2. pStep.i \in DOMAIN pRunning
  BY <1>1, LenProperties
<1>3. P!Current \in Reqs /\ P!Current \in ToSet(pRunning)
  BY <1>1, <1>2, ElementType DEF P!Current
<1>4. pRunning # << >>
  BY <1>3, NoElements
<1>5. P!Victim = Last(pRunning) /\ P!Victim \in Reqs /\ P!Victim \in ToSet(pRunning)
  BY <1>1, <1>4, FromTheEnd DEF P!Victim
<1>6. QED
  BY <1>2, <1>3, <1>4, <1>5, PTyped

LEMMA PNewTokens ==
  ASSUME P!TypeOK, P!Serving, P!NumNewTokens(P!Current) > 0
  PROVE  /\ P!NumNewTokens(P!Current) \in Nat /\ P!NumNewTokens(P!Current) <= pStep.budget
         /\ P!NumNewTokens(P!Current) <= reached[P!Current] - computed[P!Current]
<1>1. /\ computed[P!Current] \in Nat /\ reached[P!Current] \in Nat /\ pStep.budget \in Nat
      /\ LongPrefillThreshold \in Nat
  BY PServing, PFields, PairAssumption DEF P!SchedulerAssumption
<1>2. QED
  BY <1>1 DEF P!NumNewTokens, P!Capped, P!Lesser

LEMMA PServeRunning == ASSUME P!TypeOK, P!ServeRunning PROVE PStays
<1> DEFINE n == P!NumNewTokens(P!Current)
<1>1. /\ P!Serving /\ n > 0 /\ P!Schedule(P!Current, n, computed[P!Current])
      /\ UNCHANGED <<P!requests, P!queues, P!batches, pFinished, pShipping, P!npus>>
  BY DEF P!ServeRunning
<1>2. n \in Nat /\ n <= pStep.budget
  BY <1>1, PNewTokens
<1>3. P!Current \in Reqs /\ P!Current \in ToSet(pRunning) /\ computed[P!Current] \in Nat
  BY <1>1, PServing
<1> HIDE DEF n
<1>4. /\ pStep' \in StepsOf(P!Npus) /\ pStep'.todo = pStep.todo /\ pStep'.handed = pStep.handed
      /\ Of(pStep'.scheduled) = Of(pStep.scheduled) \cup {P!Current}
  BY <1>1, <1>2, <1>3, PSchedule
<1>5. Of(pStep'.todo) \subseteq PHas /\ Of(pStep'.scheduled) \subseteq PHas
  BY <1>3, <1>4 DEF PHas
<1>6. /\ pInflight' \in Seq(BatchesOf(P!Npus)) /\ Flying(pInflight') \subseteq Flying(pInflight)
      /\ pNextId' = pNextId /\ pRan' \in [P!Npus -> Nat] /\ pBusy' \subseteq P!Npus
  BY <1>1, PTyped DEF P!batches, P!npus
<1>7. ToSet(pStep'.handed) \subseteq PHas
  BY <1>4 DEF PHas
<1>8. QED
  BY <1>1, <1>4, <1>5, <1>6, <1>7, PQuiet

(* A step that changes a request: r, which the instance has. *)
LEMMA PMoves ==
  ASSUME P!TypeOK, P!TypeOK', NEW r \in PHas,
         \A q \in Reqs \ {r} : /\ status'[q] = status[q] /\ computed'[q] = computed[q]
                               /\ reached'[q] = reached[q],
         status'[r] # "future" \/ status'[r] = status[r], reached'[r] >= reached[r],
         PHas' \subseteq PHas
  PROVE  PStays
<1>1. \A q \in Reqs : status'[q] = "future" => status[q] = "future"
  OBVIOUS
<1>2. reached \in [Reqs -> Nat]
  BY PTyped
<1>3. \A q \in Reqs : reached'[q] >= reached[q]
  BY <1>2
<1>4. QED
  BY <1>1, <1>3 DEF PStays, Touches

LEMMA PPreemptTail == ASSUME P!TypeOK, P!PreemptTail PROVE PStays
<1> DEFINE v == P!Victim
<1>1. /\ P!Serving
      /\ status' = [status EXCEPT ![v] = "preempted"]
      /\ computed' = [computed EXCEPT ![v] = 0]
      /\ pRunning' = P!Without(pRunning, v)
      /\ pWaiting' = <<v>> \o pWaiting
      /\ pStep' = [pStep EXCEPT !.preempted = @ \cup {v},
                                !.at = IF v = P!Current THEN "build" ELSE @]
      /\ UNCHANGED <<reached, isInit, P!batches, pFinished, pShipping, P!npus>>
  BY DEF P!PreemptTail
<1>2. v \in Reqs /\ v \in ToSet(pRunning)
  BY <1>1, PServing
<1> HIDE DEF v
<1>3. pRunning' \in Seq(Reqs) /\ ToSet(pRunning') = ToSet(pRunning) \ {v}
  BY <1>1, PTyped, WithoutSet
<1>4. pWaiting' \in Seq(Reqs) /\ ToSet(pWaiting') = {v} \cup ToSet(pWaiting)
  BY ZenonT(40), <1>1, <1>2, PTyped, PrependSet
<1>5. /\ pStep' \in StepsOf(P!Npus) /\ pStep'.todo = pStep.todo
      /\ pStep'.scheduled = pStep.scheduled /\ pStep'.handed = pStep.handed
  BY <1>1, <1>2, PTyped DEF StepsOf
<1>6. P!TypeOK'
  <2>1. status' \in Statuses /\ computed' \in [Reqs -> Nat]
    BY <1>1, <1>2, PTyped DEF Statuses
  <2>2. QED
    BY <1>1, <1>3, <1>4, <1>5, <2>1, PTyped, PTypedNext DEF P!batches, P!npus
<1>7. PHas' \subseteq PHas
  BY <1>1, <1>2, <1>3, <1>4, <1>5 DEF PHas, P!batches
<1>8. v \in PHas
  BY <1>2 DEF PHas
<1>9. status'[v] = "preempted" /\ reached'[v] >= reached[v]
  BY <1>1, <1>2, PTyped DEF Statuses
<1>10. \A q \in Reqs \ {v} : /\ status'[q] = status[q] /\ computed'[q] = computed[q]
                             /\ reached'[q] = reached[q]
  BY <1>1, PTyped DEF Statuses
<1>11. QED
  BY <1>6, <1>7, <1>8, <1>9, <1>10, PMoves

LEMMA PNext ==
  ASSUME P!TypeOK, Begun, pWaiting # << >>
  PROVE  /\ Head(pWaiting) \in Reqs /\ Head(pWaiting) \in ToSet(pWaiting)
         /\ P!HitTokens(P!NextHit) \in Nat /\ P!NextBefore \in Nat
         /\ P!NextBefore = computed[Head(pWaiting)] + P!HitTokens(P!NextHit)
         /\ P!Admissible => P!NextTokens \in Nat /\ P!NextTokens <= pStep.budget
                            /\ P!NextTokens <= reached[Head(pWaiting)] - P!NextBefore
<1> DEFINE r == Head(pWaiting)
<1>1. r \in Reqs /\ r \in ToSet(pWaiting)
  BY PTyped, TailSet
<1>2. computed[r] \in Nat /\ reached[r] \in Nat /\ Prompt[r] \in Nat \ {0} /\ reached[r] >= Prompt[r]
  BY <1>1, PTyped, PairAssumption DEF P!SchedulerAssumption, Begun
<1>3. reached[r] \in Nat \ {0}
  BY <1>2
<1>4. P!HitTokens(P!NextHit) \in Nat
  <2>1. P!HitTokens(P!GetComputedBlocks(pKv, r, reached[r])) \in Nat
    BY <1>1, <1>3, PrefillHits
  <2>2. P!HitTokens(P!NoHit) \in Nat
    BY DEF P!HitTokens, P!NoHit
  <2>3. QED
    BY <2>1, <2>2 DEF P!NextHit
<1>5. P!NextBefore = computed[r] + P!HitTokens(P!NextHit)
  BY DEF P!NextBefore
<1>6. P!NextBefore \in Nat
  BY <1>2, <1>4, <1>5
<1>7. ASSUME P!Admissible
      PROVE  /\ P!NextTokens \in Nat /\ P!NextTokens <= pStep.budget
             /\ P!NextTokens <= reached[r] - P!NextBefore
  <2>1. P!NextTokens > 0 /\ pStep.budget \in Nat /\ LongPrefillThreshold \in Nat
    BY <1>7, PFields, PairAssumption DEF P!Admissible, P!SchedulerAssumption
  <2>2. QED
    BY <1>2, <1>6, <2>1 DEF P!NextTokens, P!NextWanted, P!Capped, P!Lesser
<1>8. QED
  BY <1>1, <1>4, <1>5, <1>6, <1>7

LEMMA PAdmitWaiting == ASSUME P!TypeOK, Begun, P!AdmitWaiting PROVE PStays
<1> DEFINE r == Head(pWaiting)
<1> DEFINE n == P!NextTokens
<1>1. /\ P!Admissible /\ pWaiting # << >>
      /\ computed' = [computed EXCEPT ![r] = P!NextBefore]
      /\ status' = [status EXCEPT ![r] = "running"]
      /\ pRunning' = Append(pRunning, r)
      /\ P!Schedule(r, n, P!NextBefore)
      /\ pShipping' = [pShipping EXCEPT !.hit[r] = P!HitTokens(P!NextHit)]
      /\ pWaiting' = Tail(pWaiting)
      /\ UNCHANGED <<reached, isInit, P!batches, pFinished, P!npus>>
  BY DEF P!AdmitWaiting, P!Admissible
<1>2. /\ r \in Reqs /\ r \in ToSet(pWaiting) /\ P!NextBefore \in Nat
      /\ P!HitTokens(P!NextHit) \in Nat /\ n \in Nat /\ n <= pStep.budget
  BY <1>1, PNext
<1>3. pWaiting' \in Seq(Reqs) /\ ToSet(pWaiting') \subseteq ToSet(pWaiting)
  BY <1>1, PTyped, TailSet
<1> HIDE DEF r, n
<1>4. pRunning' \in Seq(Reqs) /\ ToSet(pRunning') = ToSet(pRunning) \cup {r}
  BY <1>1, <1>2, PTyped, AppendSet
<1>5. /\ pStep' \in StepsOf(P!Npus) /\ pStep'.todo = pStep.todo /\ pStep'.handed = pStep.handed
      /\ Of(pStep'.scheduled) = Of(pStep.scheduled) \cup {r}
  BY <1>1, <1>2, PSchedule
<1>6. P!TypeOK'
  <2>1. status' \in Statuses /\ computed' \in [Reqs -> Nat]
    BY <1>1, <1>2, PTyped DEF Statuses
  <2>2. pShipping' \in [hit : [Reqs -> Nat], sent : [Reqs -> Nat]]
    BY <1>1, <1>2, PTyped
  <2>3. QED
    BY <1>1, <1>3, <1>4, <1>5, <2>1, <2>2, PTyped, PTypedNext DEF P!batches, P!npus
<1>7. PHas' \subseteq PHas
  BY <1>1, <1>2, <1>3, <1>4, <1>5 DEF PHas, P!batches
<1>8. r \in PHas
  BY <1>2 DEF PHas
<1>9. status'[r] = "running" /\ reached'[r] >= reached[r]
  BY <1>1, <1>2, PTyped DEF Statuses
<1>10. \A q \in Reqs \ {r} : /\ status'[q] = status[q] /\ computed'[q] = computed[q]
                             /\ reached'[q] = reached[q]
  BY <1>1, PTyped DEF Statuses
<1>11. QED
  BY <1>6, <1>7, <1>8, <1>9, <1>10, PMoves

(* Schedule(r, n, before) of the code. *)
LEMMA DSchedule ==
  ASSUME D!TypeOK, NEW r \in Reqs, NEW n \in Nat, n <= dStep.budget, NEW before \in Nat,
         D!Schedule(r, n, before)
  PROVE  /\ dStep' \in StepsOf(D!Npus) /\ dStep'.at = dStep.at /\ dStep'.i = dStep.i + 1
         /\ dStep'.todo = dStep.todo /\ dStep'.handed = dStep.handed
         /\ ToSet(dStep'.scheduled) =
              ToSet(dStep.scheduled) \cup {[req |-> r, n |-> n, before |-> before]}
         /\ Of(dStep'.scheduled) = Of(dStep.scheduled) \cup {r}
<1> DEFINE w == [req |-> r, n |-> n, before |-> before]
<1> DEFINE more == Append(dStep.scheduled, w)
<1>1. w \in Work /\ dStep.scheduled \in Seq(Work) /\ w.req = r
  BY DFields DEF Work
<1>2. more \in Seq(Work) /\ ToSet(more) = ToSet(dStep.scheduled) \cup {w}
  BY <1>1, AppendSet
<1>3. Of(more) = Of(dStep.scheduled) \cup {r}
  <2> HIDE DEF w
  <2>1. Of(more) = Of(dStep.scheduled) \cup {w.req}
    BY <1>1, MoreWork
  <2>2. QED
    BY <1>1, <2>1
<1>4. dStep' = [dStep EXCEPT !.scheduled = more, !.budget = dStep.budget - n, !.i = dStep.i + 1]
  BY DEF D!Schedule
<1>5. dStep.budget - n \in Nat /\ dStep.i + 1 \in Nat \ {0}
  BY DFields
<1> HIDE DEF w, more
<1>6. /\ dStep' \in StepsOf(D!Npus) /\ dStep'.at = dStep.at /\ dStep'.i = dStep.i + 1
      /\ dStep'.scheduled = more /\ dStep'.todo = dStep.todo /\ dStep'.handed = dStep.handed
  BY <1>2, <1>4, <1>5, DTyped DEF StepsOf
<1>7. QED
  BY <1>2, <1>3, <1>6 DEF w

LEMMA DServing ==
  ASSUME D!TypeOK, D!Serving
  PROVE  /\ D!Current \in Reqs /\ D!Current \in ToSet(dRunning) /\ dStep.i \in DOMAIN dRunning
         /\ computed[D!Current] \in Nat /\ reached[D!Current] \in Nat
         /\ dRunning # << >> /\ D!Victim = Last(dRunning)
         /\ D!Victim \in Reqs /\ D!Victim \in ToSet(dRunning)
<1>1. dRunning \in Seq(Reqs) /\ dStep.i \in Nat \ {0} /\ dStep.i <= Len(dRunning)
  BY DTyped, DFields DEF D!Serving
<1>2. dStep.i \in DOMAIN dRunning
  BY <1>1, LenProperties
<1>3. D!Current \in Reqs /\ D!Current \in ToSet(dRunning)
  BY <1>1, <1>2, ElementType DEF D!Current
<1>4. dRunning # << >>
  BY <1>3, NoElements
<1>5. D!Victim = Last(dRunning) /\ D!Victim \in Reqs /\ D!Victim \in ToSet(dRunning)
  BY <1>1, <1>4, FromTheEnd DEF D!Victim
<1>6. QED
  BY <1>2, <1>3, <1>4, <1>5, DTyped

LEMMA DNewTokens ==
  ASSUME D!TypeOK, D!Serving, D!NumNewTokens(D!Current) > 0
  PROVE  /\ D!NumNewTokens(D!Current) \in Nat /\ D!NumNewTokens(D!Current) <= dStep.budget
         /\ D!NumNewTokens(D!Current) <= reached[D!Current] - computed[D!Current]
<1>1. /\ computed[D!Current] \in Nat /\ reached[D!Current] \in Nat /\ dStep.budget \in Nat
      /\ LongPrefillThreshold \in Nat
  BY DServing, DFields, PairAssumption DEF D!SchedulerAssumption
<1>2. QED
  BY <1>1 DEF D!NumNewTokens, D!Capped, D!Lesser

LEMMA DServeRunning == ASSUME D!TypeOK, D!ServeRunning PROVE DStays
<1> DEFINE n == D!NumNewTokens(D!Current)
<1>1. /\ D!Serving /\ n > 0 /\ D!Schedule(D!Current, n, computed[D!Current])
      /\ UNCHANGED <<D!requests, D!queues, D!batches, dFinished, dShipping, D!npus>>
  BY DEF D!ServeRunning
<1>2. n \in Nat /\ n <= dStep.budget
  BY <1>1, DNewTokens
<1>3. D!Current \in Reqs /\ D!Current \in ToSet(dRunning) /\ computed[D!Current] \in Nat
  BY <1>1, DServing
<1> HIDE DEF n
<1>4. /\ dStep' \in StepsOf(D!Npus) /\ dStep'.todo = dStep.todo /\ dStep'.handed = dStep.handed
      /\ Of(dStep'.scheduled) = Of(dStep.scheduled) \cup {D!Current}
  BY <1>1, <1>2, <1>3, DSchedule
<1>5. Of(dStep'.todo) \subseteq DHas /\ Of(dStep'.scheduled) \subseteq DHas
  BY <1>3, <1>4 DEF DHas
<1>6. /\ dInflight' \in Seq(BatchesOf(D!Npus)) /\ Flying(dInflight') \subseteq Flying(dInflight)
      /\ dNextId' = dNextId /\ dRan' \in [D!Npus -> Nat] /\ dBusy' \subseteq D!Npus
  BY <1>1, DTyped DEF D!batches, D!npus
<1>8. QED
  BY <1>1, <1>4, <1>5, <1>6, DQuiet

(* A step that changes a request: r, which the instance has. *)
LEMMA DMoves ==
  ASSUME D!TypeOK, D!TypeOK', NEW r \in DHas,
         \A q \in Reqs \ {r} : /\ status'[q] = status[q] /\ computed'[q] = computed[q]
                               /\ reached'[q] = reached[q],
         status'[r] # "future" \/ status'[r] = status[r], reached'[r] >= reached[r],
         DHas' \subseteq DHas
  PROVE  DStays
<1>1. \A q \in Reqs : status'[q] = "future" => status[q] = "future"
  OBVIOUS
<1>2. reached \in [Reqs -> Nat]
  BY DTyped
<1>3. \A q \in Reqs : reached'[q] >= reached[q]
  BY <1>2
<1>4. QED
  BY <1>1, <1>3 DEF DStays, Touches

LEMMA DPreemptTail == ASSUME D!TypeOK, D!PreemptTail PROVE DStays
<1> DEFINE v == D!Victim
<1>1. /\ D!Serving
      /\ status' = [status EXCEPT ![v] = "preempted"]
      /\ computed' = [computed EXCEPT ![v] = 0]
      /\ dRunning' = D!Without(dRunning, v)
      /\ dWaiting' = <<v>> \o dWaiting
      /\ dStep' = [dStep EXCEPT !.preempted = @ \cup {v},
                                !.at = IF v = D!Current THEN "build" ELSE @]
      /\ UNCHANGED <<reached, isInit, D!batches, dFinished, dShipping, D!npus>>
  BY DEF D!PreemptTail
<1>2. v \in Reqs /\ v \in ToSet(dRunning)
  BY <1>1, DServing
<1> HIDE DEF v
<1>3. dRunning' \in Seq(Reqs) /\ ToSet(dRunning') = ToSet(dRunning) \ {v}
  BY <1>1, DTyped, WithoutSet
<1>4. dWaiting' \in Seq(Reqs) /\ ToSet(dWaiting') = {v} \cup ToSet(dWaiting)
  BY <1>1, <1>2, DTyped, PrependSet
<1>5. /\ dStep' \in StepsOf(D!Npus) /\ dStep'.todo = dStep.todo
      /\ dStep'.scheduled = dStep.scheduled /\ dStep'.handed = dStep.handed
  BY <1>1, <1>2, DTyped DEF StepsOf
<1>6. D!TypeOK'
  <2>1. status' \in Statuses /\ computed' \in [Reqs -> Nat]
    BY <1>1, <1>2, DTyped DEF Statuses
  <2>2. QED
    BY <1>1, <1>3, <1>4, <1>5, <2>1, DTyped, DTypedNext DEF D!batches, D!npus
<1>7. DHas' \subseteq DHas
  BY <1>1, <1>2, <1>3, <1>4, <1>5 DEF DHas, D!batches
<1>8. v \in DHas
  BY <1>2 DEF DHas
<1>9. status'[v] = "preempted" /\ reached'[v] >= reached[v]
  BY <1>1, <1>2, DTyped DEF Statuses
<1>10. \A q \in Reqs \ {v} : /\ status'[q] = status[q] /\ computed'[q] = computed[q]
                             /\ reached'[q] = reached[q]
  BY <1>1, DTyped DEF Statuses
<1>11. QED
  BY <1>6, <1>7, <1>8, <1>9, <1>10, DMoves

LEMMA DNext ==
  ASSUME D!TypeOK, Begun, dWaiting # << >>
  PROVE  /\ Head(dWaiting) \in Reqs /\ Head(dWaiting) \in ToSet(dWaiting)
         /\ D!HitTokens(D!NextHit) \in Nat /\ D!NextBefore \in Nat
         /\ D!NextBefore = computed[Head(dWaiting)] + D!HitTokens(D!NextHit)
         /\ D!Admissible => D!NextTokens \in Nat /\ D!NextTokens <= dStep.budget
                            /\ D!NextTokens <= reached[Head(dWaiting)] - D!NextBefore
<1> DEFINE r == Head(dWaiting)
<1>1. r \in Reqs /\ r \in ToSet(dWaiting)
  BY DTyped, TailSet
<1>2. computed[r] \in Nat /\ reached[r] \in Nat /\ Prompt[r] \in Nat \ {0} /\ reached[r] >= Prompt[r]
  BY <1>1, DTyped, PairAssumption DEF D!SchedulerAssumption, Begun
<1>3. reached[r] \in Nat \ {0}
  BY <1>2
<1>4. D!HitTokens(D!NextHit) \in Nat
  <2>1. D!HitTokens(D!GetComputedBlocks(dKv, r, reached[r])) \in Nat
    BY <1>1, <1>3, DecodeHits
  <2>2. D!HitTokens(D!NoHit) \in Nat
    BY DEF D!HitTokens, D!NoHit
  <2>3. QED
    BY <2>1, <2>2 DEF D!NextHit
<1>5. D!NextBefore = computed[r] + D!HitTokens(D!NextHit)
  BY DEF D!NextBefore
<1>6. D!NextBefore \in Nat
  BY <1>2, <1>4, <1>5
<1>7. ASSUME D!Admissible
      PROVE  /\ D!NextTokens \in Nat /\ D!NextTokens <= dStep.budget
             /\ D!NextTokens <= reached[r] - D!NextBefore
  <2>1. D!NextTokens > 0 /\ dStep.budget \in Nat /\ LongPrefillThreshold \in Nat
    BY <1>7, DFields, PairAssumption DEF D!Admissible, D!SchedulerAssumption
  <2>2. QED
    BY <1>2, <1>6, <2>1 DEF D!NextTokens, D!NextWanted, D!Capped, D!Lesser
<1>8. QED
  BY <1>1, <1>4, <1>5, <1>6, <1>7

LEMMA DAdmitWaiting == ASSUME D!TypeOK, Begun, D!AdmitWaiting PROVE DStays
<1> DEFINE r == Head(dWaiting)
<1> DEFINE n == D!NextTokens
<1>1. /\ D!Admissible /\ dWaiting # << >>
      /\ computed' = [computed EXCEPT ![r] = D!NextBefore]
      /\ status' = [status EXCEPT ![r] = "running"]
      /\ dRunning' = Append(dRunning, r)
      /\ D!Schedule(r, n, D!NextBefore)
      /\ dShipping' = dShipping
      /\ dWaiting' = Tail(dWaiting)
      /\ UNCHANGED <<reached, isInit, D!batches, dFinished, D!npus>>
  BY DEF D!AdmitWaiting, D!Admissible
<1>2. /\ r \in Reqs /\ r \in ToSet(dWaiting) /\ D!NextBefore \in Nat
      /\ D!HitTokens(D!NextHit) \in Nat /\ n \in Nat /\ n <= dStep.budget
  BY <1>1, DNext
<1>3. dWaiting' \in Seq(Reqs) /\ ToSet(dWaiting') \subseteq ToSet(dWaiting)
  BY <1>1, DTyped, TailSet
<1> HIDE DEF r, n
<1>4. dRunning' \in Seq(Reqs) /\ ToSet(dRunning') = ToSet(dRunning) \cup {r}
  BY <1>1, <1>2, DTyped, AppendSet
<1>5. /\ dStep' \in StepsOf(D!Npus) /\ dStep'.todo = dStep.todo /\ dStep'.handed = dStep.handed
      /\ Of(dStep'.scheduled) = Of(dStep.scheduled) \cup {r}
  BY <1>1, <1>2, DSchedule
<1>6. D!TypeOK'
  <2>1. status' \in Statuses /\ computed' \in [Reqs -> Nat]
    BY <1>1, <1>2, DTyped DEF Statuses
  <2>2. dShipping' \in [hit : [Reqs -> Nat], sent : [Reqs -> Nat]]
    BY <1>1, <1>2, DTyped
  <2>3. QED
    BY <1>1, <1>3, <1>4, <1>5, <2>1, <2>2, DTyped, DTypedNext DEF D!batches, D!npus
<1>7. DHas' \subseteq DHas
  BY <1>1, <1>2, <1>3, <1>4, <1>5 DEF DHas, D!batches
<1>8. r \in DHas
  BY <1>2 DEF DHas
<1>9. status'[r] = "running" /\ reached'[r] >= reached[r]
  BY <1>1, <1>2, DTyped DEF Statuses
<1>10. \A q \in Reqs \ {r} : /\ status'[q] = status[q] /\ computed'[q] = computed[q]
                             /\ reached'[q] = reached[q]
  BY <1>1, DTyped DEF Statuses
<1>11. QED
  BY <1>6, <1>7, <1>8, <1>9, <1>10, DMoves

LEMMA PCompleteRequest == ASSUME P!TypeOK, P!CompleteRequest PROVE PStays
<1> DEFINE r == Head(pStep.todo).req
<1>1. /\ pStep.todo # << >> /\ ~P!Over(r)
      /\ isInit' \in {isInit, isInit \ {r}}
      /\ reached' = [reached EXCEPT ![r] = IF P!CaughtUp(r) THEN @ + 1 ELSE @]
      /\ \/ UNCHANGED <<status, pRunning, pFinished>>
         \/ /\ status' = [status EXCEPT ![r] = "finished"]
            /\ pRunning' = P!Without(pRunning, r)
            /\ pFinished' = Append(pFinished, r)
      /\ pStep' = [pStep EXCEPT !.todo = Tail(@)]
      /\ UNCHANGED <<computed, pWaiting, P!batches, pShipping, P!npus>>
  BY DEF P!CompleteRequest
<1>2. /\ r \in Reqs /\ r \in Of(pStep.todo)
      /\ Tail(pStep.todo) \in Seq(Work) /\ Of(Tail(pStep.todo)) \subseteq Of(pStep.todo)
  BY <1>1, PFields, LessWork
<1> HIDE DEF r
<1>3. /\ pStep' \in StepsOf(P!Npus) /\ pStep'.todo = Tail(pStep.todo)
      /\ pStep'.scheduled = pStep.scheduled /\ pStep'.handed = pStep.handed
  BY <1>1, <1>2, PTyped DEF StepsOf
<1>4. /\ pRunning' \in Seq(Reqs) /\ ToSet(pRunning') \subseteq ToSet(pRunning)
      /\ pFinished' \in Seq(Reqs) /\ ToSet(pFinished') \subseteq ToSet(pFinished) \cup {r}
      /\ status' \in Statuses
      /\ status'[r] \in {status[r], "finished"} /\ \A q \in Reqs \ {r} : status'[q] = status[q]
  <2>1. CASE UNCHANGED <<status, pRunning, pFinished>>
    BY <2>1, PTyped
  <2>2. CASE /\ status' = [status EXCEPT ![r] = "finished"]
             /\ pRunning' = P!Without(pRunning, r)
             /\ pFinished' = Append(pFinished, r)
    <3>1. pRunning' \in Seq(Reqs) /\ ToSet(pRunning') = ToSet(pRunning) \ {r}
      BY <2>2, PTyped, WithoutSet
    <3>2. pFinished' \in Seq(Reqs) /\ ToSet(pFinished') = ToSet(pFinished) \cup {r}
      BY <1>2, <2>2, PTyped, AppendSet
    <3>3. /\ status' \in Statuses /\ status'[r] = "finished"
          /\ \A q \in Reqs \ {r} : status'[q] = status[q]
      BY <1>2, <2>2, PTyped DEF Statuses
    <3>4. QED
      BY <3>1, <3>2, <3>3
  <2>3. QED
    BY <1>1, <2>1, <2>2
<1>5. /\ reached' \in [Reqs -> Nat] /\ reached'[r] >= reached[r]
      /\ \A q \in Reqs \ {r} : reached'[q] = reached[q]
  BY <1>1, <1>2, PTyped
<1>6. P!TypeOK'
  BY <1>1, <1>3, <1>4, <1>5, PTyped, PTypedNext DEF P!batches, P!npus
<1>7. PHas' \subseteq PHas
  BY <1>1, <1>2, <1>3, <1>4 DEF PHas, P!batches
<1>8. r \in PHas
  BY <1>2 DEF PHas
<1>9. \A q \in Reqs \ {r} : /\ status'[q] = status[q] /\ computed'[q] = computed[q]
                            /\ reached'[q] = reached[q]
  BY <1>1, <1>4, <1>5
<1>10. QED
  BY <1>4, <1>5, <1>6, <1>7, <1>8, <1>9, PMoves

(* _build_batch: what a step has scheduled, for a request that it has.     *)
LEMMA PScheduled ==
  ASSUME P!TypeOK
  PROVE  /\ \A r : P!InBatch(r) <=> r \in Of(pStep.scheduled)
         /\ \A r : P!InBatch(r) => /\ P!WorkOf(r) \in ToSet(pStep.scheduled)
                                   /\ P!WorkOf(r) \in Work /\ P!WorkOf(r).req = r /\ r \in Reqs
<1>1. P!ToSet(pStep.scheduled) = ToSet(pStep.scheduled) /\ ToSet(pStep.scheduled) \subseteq Work
  BY SameToSet, PFields, ElementType
<1>2. \A r : P!InBatch(r) <=> \E w \in ToSet(pStep.scheduled) : w.req = r
  BY <1>1 DEF P!InBatch
<1>3. \A r : P!InBatch(r) => P!WorkOf(r) \in ToSet(pStep.scheduled) /\ P!WorkOf(r).req = r
  BY <1>1, <1>2 DEF P!WorkOf
<1>4. QED
  BY <1>1, <1>2, <1>3 DEF Of, Work

LEMMA PSent == ASSUME P!TypeOK PROVE P!Sent \in [Reqs -> Nat]
<1>1. /\ pShipping.hit \in [Reqs -> Nat] /\ pShipping.sent \in [Reqs -> Nat]
  BY PTyped
<1>2. ASSUME NEW r \in Reqs, P!InBatch(r) PROVE P!Shipped(P!WorkOf(r)) \in Nat
  <2>1. P!WorkOf(r) \in Work
    BY <1>2, PScheduled
  <2>2. P!WorkOf(r).n \in Nat /\ pShipping.hit[P!WorkOf(r).req] \in Nat
    BY <1>1, <2>1 DEF Work
  <2>3. QED
    BY <2>2 DEF P!Shipped
<1>3. QED
  BY <1>1, <1>2 DEF P!Sent

LEMMA PBuildBatch == ASSUME P!TypeOK, P!BuildBatch PROVE PStays
<1> DEFINE b == [id |-> pNextId, work |-> pStep.scheduled, fired |-> {P!StartNpu}, ended |-> {}]
<1>1. /\ computed' = [r \in Reqs |-> IF P!InBatch(r)
                                     THEN P!Advanced(P!WorkOf(r).before, P!WorkOf(r).n)
                                     ELSE computed[r]]
      /\ pInflight' = Append(pInflight, b)
      /\ pNextId' = pNextId + 1
      /\ pBusy' = pBusy \cup {P!StartNpu}
      /\ pShipping' = [pShipping EXCEPT !.sent = P!Sent]
      /\ pStep' = P!Idle
      /\ UNCHANGED <<status, reached, isInit, P!queues, pFinished, pRan>>
  BY DEF P!BuildBatch, P!Return
<1>2. b \in BatchesOf(P!Npus) /\ b.work = pStep.scheduled
  BY PTyped, PFields, PIdle DEF BatchesOf
<1> HIDE DEF b
<1>3. /\ pInflight' \in Seq(BatchesOf(P!Npus))
      /\ Flying(pInflight') = Flying(pInflight) \cup Of(pStep.scheduled)
  <2>1. pInflight \in Seq(BatchesOf(P!Npus))
    BY PTyped
  <2>2. /\ Append(pInflight, b) \in Seq(BatchesOf(P!Npus))
        /\ Flying(Append(pInflight, b)) = Flying(pInflight) \cup Of(b.work)
    BY ONLY <1>2, <2>1, MoreBatches
  <2>3. QED
    BY <1>1, <1>2, <2>2
<1>4. computed' \in [Reqs -> Nat]
  <2>1. ASSUME NEW r \in Reqs, P!InBatch(r)
        PROVE  P!Advanced(P!WorkOf(r).before, P!WorkOf(r).n) \in Nat
    <3>1. P!WorkOf(r).before \in Nat /\ P!WorkOf(r).n \in Nat
      BY <2>1, PScheduled DEF Work
    <3>2. QED
      BY <3>1 DEF P!Advanced
  <2>2. QED
    BY <1>1, <2>1, PTyped
<1>5. pShipping' \in [hit : [Reqs -> Nat], sent : [Reqs -> Nat]]
  BY <1>1, PTyped, PSent
<1>6. /\ pStep' \in StepsOf(P!Npus) /\ pStep'.todo = << >>
      /\ pStep'.scheduled = << >> /\ pStep'.handed = << >>
  BY <1>1, PIdle DEF P!Idle
<1>7. pNextId' \in Nat /\ pBusy' \subseteq P!Npus
  BY <1>1, PTyped, PIdle
<1>8. P!TypeOK'
  BY <1>1, <1>3, <1>4, <1>5, <1>6, <1>7, PTyped, PTypedNext DEF P!queues
<1>9. PHas' \subseteq PHas
  BY <1>1, <1>3, <1>6, NoElements DEF PHas, P!queues
<1>10. ASSUME NEW r \in Reqs \ PHas PROVE computed'[r] = computed[r]
  <2>1. ~P!InBatch(r)
    BY <1>10, PScheduled DEF PHas
  <2>2. QED
    BY <1>1, <2>1
<1>11. Touches(PHas)
  BY <1>1, <1>10, PTyped DEF Touches
<1>12. QED
  BY <1>8, <1>9, <1>11 DEF PStays

(* Every step of the instance but the handing over of a request.           *)
LEMMA PInStep == ASSUME P!TypeOK, Begun, P!InStep PROVE PStays
  BY PSkipFinished, PCompleteRequest, PDropBatch, PJoinBatch, PPasses, PServeRunning,
     PPreemptTail, PAdmitWaiting, PBuildBatch DEF P!InStep

LEMMA DCompleteRequest == ASSUME D!TypeOK, D!CompleteRequest PROVE DStays
<1> DEFINE r == Head(dStep.todo).req
<1>1. /\ dStep.todo # << >> /\ ~D!Over(r)
      /\ isInit' \in {isInit, isInit \ {r}}
      /\ reached' = [reached EXCEPT ![r] = IF D!CaughtUp(r) THEN @ + 1 ELSE @]
      /\ \/ UNCHANGED <<status, dRunning, dFinished>>
         \/ /\ status' = [status EXCEPT ![r] = "finished"]
            /\ dRunning' = D!Without(dRunning, r)
            /\ dFinished' = Append(dFinished, r)
      /\ dStep' = [dStep EXCEPT !.todo = Tail(@)]
      /\ UNCHANGED <<computed, dWaiting, D!batches, dShipping, D!npus>>
  BY DEF D!CompleteRequest
<1>2. /\ r \in Reqs /\ r \in Of(dStep.todo)
      /\ Tail(dStep.todo) \in Seq(Work) /\ Of(Tail(dStep.todo)) \subseteq Of(dStep.todo)
  BY <1>1, DFields, LessWork
<1> HIDE DEF r
<1>3. /\ dStep' \in StepsOf(D!Npus) /\ dStep'.todo = Tail(dStep.todo)
      /\ dStep'.scheduled = dStep.scheduled /\ dStep'.handed = dStep.handed
  BY <1>1, <1>2, DTyped DEF StepsOf
<1>4. /\ dRunning' \in Seq(Reqs) /\ ToSet(dRunning') \subseteq ToSet(dRunning)
      /\ dFinished' \in Seq(Reqs) /\ ToSet(dFinished') \subseteq ToSet(dFinished) \cup {r}
      /\ status' \in Statuses
      /\ status'[r] \in {status[r], "finished"} /\ \A q \in Reqs \ {r} : status'[q] = status[q]
  <2>1. CASE UNCHANGED <<status, dRunning, dFinished>>
    BY <2>1, DTyped
  <2>2. CASE /\ status' = [status EXCEPT ![r] = "finished"]
             /\ dRunning' = D!Without(dRunning, r)
             /\ dFinished' = Append(dFinished, r)
    <3>1. dRunning' \in Seq(Reqs) /\ ToSet(dRunning') = ToSet(dRunning) \ {r}
      BY <2>2, DTyped, WithoutSet
    <3>2. dFinished' \in Seq(Reqs) /\ ToSet(dFinished') = ToSet(dFinished) \cup {r}
      BY <1>2, <2>2, DTyped, AppendSet
    <3>3. /\ status' \in Statuses /\ status'[r] = "finished"
          /\ \A q \in Reqs \ {r} : status'[q] = status[q]
      BY <1>2, <2>2, DTyped DEF Statuses
    <3>4. QED
      BY <3>1, <3>2, <3>3
  <2>3. QED
    BY <1>1, <2>1, <2>2
<1>5. /\ reached' \in [Reqs -> Nat] /\ reached'[r] >= reached[r]
      /\ \A q \in Reqs \ {r} : reached'[q] = reached[q]
  BY <1>1, <1>2, DTyped
<1>6. D!TypeOK'
  BY <1>1, <1>3, <1>4, <1>5, DTyped, DTypedNext DEF D!batches, D!npus
<1>7. DHas' \subseteq DHas
  BY <1>1, <1>2, <1>3, <1>4 DEF DHas, D!batches
<1>8. r \in DHas
  BY <1>2 DEF DHas
<1>9. \A q \in Reqs \ {r} : /\ status'[q] = status[q] /\ computed'[q] = computed[q]
                            /\ reached'[q] = reached[q]
  BY <1>1, <1>4, <1>5
<1>10. QED
  BY <1>4, <1>5, <1>6, <1>7, <1>8, <1>9, DMoves

(* _build_batch: what a step has scheduled, for a request that it has.     *)
LEMMA DScheduled ==
  ASSUME D!TypeOK
  PROVE  /\ \A r : D!InBatch(r) <=> r \in Of(dStep.scheduled)
         /\ \A r : D!InBatch(r) => /\ D!WorkOf(r) \in ToSet(dStep.scheduled)
                                   /\ D!WorkOf(r) \in Work /\ D!WorkOf(r).req = r /\ r \in Reqs
<1>1. D!ToSet(dStep.scheduled) = ToSet(dStep.scheduled) /\ ToSet(dStep.scheduled) \subseteq Work
  BY SameToSet, DFields, ElementType
<1>2. \A r : D!InBatch(r) <=> \E w \in ToSet(dStep.scheduled) : w.req = r
  BY <1>1 DEF D!InBatch
<1>3. \A r : D!InBatch(r) => D!WorkOf(r) \in ToSet(dStep.scheduled) /\ D!WorkOf(r).req = r
  BY <1>1, <1>2 DEF D!WorkOf
<1>4. QED
  BY <1>1, <1>2, <1>3 DEF Of, Work

LEMMA DSent == ASSUME D!TypeOK PROVE D!Sent \in [Reqs -> Nat]
<1>1. /\ dShipping.hit \in [Reqs -> Nat] /\ dShipping.sent \in [Reqs -> Nat]
  BY DTyped
<1>2. ASSUME NEW r \in Reqs, D!InBatch(r) PROVE D!Shipped(D!WorkOf(r)) \in Nat
  <2>1. D!WorkOf(r) \in Work
    BY <1>2, DScheduled
  <2>2. D!WorkOf(r).n \in Nat /\ dShipping.hit[D!WorkOf(r).req] \in Nat
    BY <1>1, <2>1 DEF Work
  <2>3. QED
    BY <2>2 DEF D!Shipped
<1>3. QED
  BY <1>1, <1>2 DEF D!Sent

LEMMA DBuildBatch == ASSUME D!TypeOK, D!BuildBatch PROVE DStays
<1> DEFINE b == [id |-> dNextId, work |-> dStep.scheduled, fired |-> {D!StartNpu}, ended |-> {}]
<1>1. /\ computed' = [r \in Reqs |-> IF D!InBatch(r)
                                     THEN D!Advanced(D!WorkOf(r).before, D!WorkOf(r).n)
                                     ELSE computed[r]]
      /\ dInflight' = Append(dInflight, b)
      /\ dNextId' = dNextId + 1
      /\ dBusy' = dBusy \cup {D!StartNpu}
      /\ dShipping' = dShipping
      /\ dStep' = D!Idle
      /\ UNCHANGED <<status, reached, isInit, D!queues, dFinished, dRan>>
  BY DEF D!BuildBatch, D!Return
<1>2. b \in BatchesOf(D!Npus) /\ b.work = dStep.scheduled
  BY DTyped, DFields, DIdle DEF BatchesOf
<1> HIDE DEF b
<1>3. /\ dInflight' \in Seq(BatchesOf(D!Npus))
      /\ Flying(dInflight') = Flying(dInflight) \cup Of(dStep.scheduled)
  <2>1. dInflight \in Seq(BatchesOf(D!Npus))
    BY DTyped
  <2>2. /\ Append(dInflight, b) \in Seq(BatchesOf(D!Npus))
        /\ Flying(Append(dInflight, b)) = Flying(dInflight) \cup Of(b.work)
    BY ONLY <1>2, <2>1, MoreBatches
  <2>3. QED
    BY <1>1, <1>2, <2>2
<1>4. computed' \in [Reqs -> Nat]
  <2>1. ASSUME NEW r \in Reqs, D!InBatch(r)
        PROVE  D!Advanced(D!WorkOf(r).before, D!WorkOf(r).n) \in Nat
    <3>1. D!WorkOf(r).before \in Nat /\ D!WorkOf(r).n \in Nat
      BY <2>1, DScheduled DEF Work
    <3>2. QED
      BY <3>1 DEF D!Advanced
  <2>2. QED
    BY <1>1, <2>1, DTyped
<1>5. dShipping' \in [hit : [Reqs -> Nat], sent : [Reqs -> Nat]]
  BY <1>1, DTyped, DSent
<1>6. /\ dStep' \in StepsOf(D!Npus) /\ dStep'.todo = << >>
      /\ dStep'.scheduled = << >> /\ dStep'.handed = << >>
  BY <1>1, DIdle DEF D!Idle
<1>7. dNextId' \in Nat /\ dBusy' \subseteq D!Npus
  BY <1>1, DTyped, DIdle
<1>8. D!TypeOK'
  BY <1>1, <1>3, <1>4, <1>5, <1>6, <1>7, DTyped, DTypedNext DEF D!queues
<1>9. DHas' \subseteq DHas
  BY <1>1, <1>3, <1>6, NoElements DEF DHas, D!queues
<1>10. ASSUME NEW r \in Reqs \ DHas PROVE computed'[r] = computed[r]
  <2>1. ~D!InBatch(r)
    BY <1>10, DScheduled DEF DHas
  <2>2. QED
    BY <1>1, <2>1
<1>11. Touches(DHas)
  BY <1>1, <1>10, DTyped DEF Touches
<1>12. QED
  BY <1>8, <1>9, <1>11 DEF DStays

(* Every step of the instance but the handing over of a request.           *)
LEMMA DInStep == ASSUME D!TypeOK, Begun, D!InStep PROVE DStays
  BY DSkipFinished, DCompleteRequest, DDropBatch, DJoinBatch, DPasses, DServeRunning,
     DPreemptTail, DAdmitWaiting, DBuildBatch DEF D!InStep
-----------------------------------------------------------------------------
(* The inductive invariant of a pair whose prefill instance has one stage. *)

(* A request is with one instance at most, and with none before the router *)
(* has brought it.                                                         *)
Apart ==
  /\ PHas \cap DHas = {}
  /\ \A r \in PHas \cup DHas : status[r] # "future"

(* The prefill instance serves in the order of arrival. *)
InLine ==
  /\ Ordered(pRunning) /\ Ordered(pWaiting)
  /\ \A r \in ToSet(pRunning), q \in ToSet(pWaiting) : r < q
  /\ \A r \in ToSet(pRunning) \cup ToSet(pWaiting), q \in Reqs : status[q] = "future" => r < q

(* What it is handing over has left its queues. *)
Handing ==
  /\ \A i, j \in DOMAIN pStep.handed : i # j => pStep.handed[i] # pStep.handed[j]
  /\ \A r \in ToSet(pStep.handed) :
       status[r] = "finished" /\ r \notin ToSet(pRunning) /\ r \notin ToSet(pWaiting)
  /\ pStep.at \notin {"complete", "handover"} => pStep.handed = << >>
  /\ pStep.at = "handover" => pStep.handed # << >>

(* Its one batch is over and gone before anything is handed over and       *)
(* before the next is formed, so nothing that waits is in flight.          *)
OneBatch ==
  /\ Len(pInflight) <= 1
  /\ pStep.at \in {"running", "waiting", "build", "handover"} => pInflight = << >>
  /\ pStep.at = "complete" => \A b \in ToSet(pInflight) : P!BatchOver(b)
  /\ Flying(pInflight) \cap ToSet(pWaiting) = {}
  /\ Of(pStep.todo) \subseteq Flying(pInflight)
  /\ pStep.at # "complete" => pStep.todo = << >>

(* What a step has scheduled has been passed by in running, so a victim    *)
(* taken from the tail is not in the batch that is being formed.           *)
Forming ==
  /\ pStep.at \notin {"running", "waiting", "build"} => pStep.scheduled = << >>
  /\ Of(pStep.scheduled) \cap ToSet(pWaiting) = {}
  /\ pStep.at = "running" =>
       \A r \in Of(pStep.scheduled) :
         \E j \in DOMAIN pRunning : j < pStep.i /\ pRunning[j] = r

Typed == P!TypeOK /\ D!TypeOK /\ Begun

PInv == InLine /\ Handing /\ OneBatch /\ Forming

PairInv == Typed /\ Apart /\ PInv

-----------------------------------------------------------------------------
(* The steps in which a request comes, and goes from one to the other.     *)

LEMMA PCompletePrefill == ASSUME P!TypeOK, P!CompletePrefill PROVE PStays
<1> DEFINE r == Head(pStep.todo).req
<1>1. /\ pStep.todo # << >>
      /\ isInit' = isInit \ {r}
      /\ reached' = [reached EXCEPT ![r] = reached[r] + 1]
      /\ status' = [status EXCEPT ![r] = "finished"]
      /\ pRunning' = P!Without(pRunning, r)
      /\ pStep' = [pStep EXCEPT !.todo = Tail(@), !.handed = Append(@, r)]
      /\ UNCHANGED <<computed, pWaiting, P!batches, pFinished, pShipping, P!npus>>
  BY DEF P!CompletePrefill, P!FirstToken
<1>2. /\ r \in Reqs /\ r \in Of(pStep.todo)
      /\ Tail(pStep.todo) \in Seq(Work) /\ Of(Tail(pStep.todo)) \subseteq Of(pStep.todo)
  BY <1>1, PFields, LessWork
<1> HIDE DEF r
<1>3. /\ Append(pStep.handed, r) \in Seq(Reqs)
      /\ ToSet(Append(pStep.handed, r)) = ToSet(pStep.handed) \cup {r}
  BY <1>2, PFields, AppendSet
<1>4. /\ pStep' \in StepsOf(P!Npus) /\ pStep'.todo = Tail(pStep.todo)
      /\ pStep'.scheduled = pStep.scheduled /\ pStep'.handed = Append(pStep.handed, r)
  BY <1>1, <1>2, <1>3, PTyped DEF StepsOf
<1>5. pRunning' \in Seq(Reqs) /\ ToSet(pRunning') = ToSet(pRunning) \ {r}
  BY <1>1, PTyped, WithoutSet
<1>6. status' \in Statuses /\ status'[r] = "finished" /\ \A q \in Reqs \ {r} : status'[q] = status[q]
  BY <1>1, <1>2, PTyped DEF Statuses
<1>7. /\ reached' \in [Reqs -> Nat] /\ reached'[r] >= reached[r]
      /\ \A q \in Reqs \ {r} : reached'[q] = reached[q]
  BY <1>1, <1>2, PTyped
<1>8. P!TypeOK'
  BY <1>1, <1>4, <1>5, <1>6, <1>7, PTyped, PTypedNext DEF P!batches, P!npus
<1>9. PHas' \subseteq PHas
  BY <1>1, <1>2, <1>3, <1>4, <1>5 DEF PHas, P!batches
<1>10. r \in PHas
  BY <1>2 DEF PHas
<1>11. \A q \in Reqs \ {r} : /\ status'[q] = status[q] /\ computed'[q] = computed[q]
                             /\ reached'[q] = reached[q]
  BY <1>1, <1>6, <1>7
<1>12. QED
  BY <1>6, <1>7, <1>8, <1>9, <1>10, <1>11, PMoves

(* The router brings a request. *)
LEMMA PAddRequest ==
  ASSUME P!TypeOK, NEW r \in Reqs, P!AddRequest(r), InLine
  PROVE  /\ P!TypeOK' /\ PHas' = PHas \cup {r}
         /\ status[r] = "future" /\ status' = [status EXCEPT ![r] = "waiting"]
         /\ pWaiting' = Append(pWaiting, r) /\ ToSet(pWaiting') = ToSet(pWaiting) \cup {r}
         /\ \A q \in Reqs : q < r => status[q] # "future"
         /\ UNCHANGED <<computed, reached, pRunning, pInflight, pStep, pShipping>>
<1>1. /\ status[r] = "future" /\ status' = [status EXCEPT ![r] = "waiting"]
      /\ \A q \in Reqs : q < r => status[q] # "future"
      /\ pWaiting' = P!Insort(pWaiting, r)
      /\ UNCHANGED <<computed, reached, isInit, pRunning, P!batches, pFinished, pShipping,
                     P!npus, pStep>>
  BY DEF P!AddRequest
<1>2. pWaiting' = Append(pWaiting, r)
  BY <1>1, PTyped, AtTheEnd DEF InLine
<1>3. pWaiting' \in Seq(Reqs) /\ ToSet(pWaiting') = ToSet(pWaiting) \cup {r}
  BY <1>2, PTyped, AppendSet
<1>4. P!TypeOK'
  <2>1. status' \in Statuses
    BY <1>1, PTyped DEF Statuses
  <2>2. QED
    BY <1>1, <1>3, <2>1, PTyped, PTypedNext DEF P!batches, P!npus
<1>5. PHas' = PHas \cup {r}
  BY <1>1, <1>3 DEF PHas, P!batches
<1>6. QED
  BY <1>1, <1>2, <1>3, <1>4, <1>5 DEF P!batches

(* transfer_prefill_request takes the next one away. *)
LEMMA PHandOver ==
  ASSUME P!TypeOK, P!HandOver(Head(pStep.handed)), pStep.handed # << >>
  PROVE  /\ UNCHANGED <<pWaiting, pRunning, pInflight, pNextId, pFinished, pShipping, pRan, pBusy>>
         /\ pStep' \in StepsOf(P!Npus) /\ pStep'.todo = pStep.todo
         /\ pStep'.scheduled = pStep.scheduled /\ pStep'.handed = Tail(pStep.handed)
         /\ pStep'.at = (IF Len(pStep.handed) = 1 THEN "schedule" ELSE "handover")
<1>1. /\ pStep' = [pStep EXCEPT !.handed = Tail(@),
                                !.at = IF Len(pStep.handed) = 1 THEN "schedule" ELSE @]
      /\ pStep.at = "handover"
      /\ UNCHANGED <<P!queues, P!batches, pFinished, pShipping, P!npus>>
  BY DEF P!HandOver, P!At
<1>2. Tail(pStep.handed) \in Seq(Reqs)
  BY PFields, TailSet
<1>3. /\ pStep' \in StepsOf(P!Npus) /\ pStep'.todo = pStep.todo
      /\ pStep'.scheduled = pStep.scheduled /\ pStep'.handed = Tail(pStep.handed)
      /\ pStep'.at = (IF Len(pStep.handed) = 1 THEN "schedule" ELSE "handover")
  BY <1>1, <1>2, PTyped DEF StepsOf
<1>4. QED
  BY <1>1, <1>3 DEF P!queues, P!batches, P!npus

(* add_decode takes it over, or raises. *)
LEMMA DAddDecode ==
  ASSUME D!TypeOK, NEW r \in Reqs, D!AddDecode(r)
  PROVE  /\ D!TypeOK' /\ DHas' = DHas \cup {r}
         /\ status' = [status EXCEPT ![r] = "running"] /\ UNCHANGED <<computed, reached>>
         /\ status' \in Statuses /\ dStep' = dStep
<1>1. /\ status' = [status EXCEPT ![r] = "running"]
      /\ dRunning' = Append(dRunning, r)
      /\ UNCHANGED <<computed, reached, isInit, dWaiting, D!batches, dFinished, dShipping,
                     D!npus, dStep>>
  BY DEF D!AddDecode
<1>2. dRunning' \in Seq(Reqs) /\ ToSet(dRunning') = ToSet(dRunning) \cup {r}
  BY <1>1, DTyped, AppendSet
<1>3. status' \in Statuses
  BY <1>1, DTyped DEF Statuses
<1>4. D!TypeOK'
  BY <1>1, <1>2, <1>3, DTyped, DTypedNext DEF D!batches, D!npus
<1>5. DHas' = DHas \cup {r}
  BY <1>1, <1>2 DEF DHas, D!batches
<1>6. QED
  BY <1>1, <1>3, <1>4, <1>5

LEMMA DAddDecodeRaises ==
  ASSUME D!TypeOK, NEW r \in Reqs, D!AddDecodeRaises(r)
  PROVE  D!TypeOK' /\ DHas' = DHas /\ UNCHANGED <<status, computed, reached>>
<1>1. /\ dStep' = [dStep EXCEPT !.at = "raised"]
      /\ UNCHANGED <<D!requests, D!queues, D!batches, dFinished, dShipping, D!npus>>
  BY DEF D!AddDecodeRaises, D!Goto
<1>2. dStep' \in StepsOf(D!Npus) /\ dStep'.todo = dStep.todo /\ dStep'.scheduled = dStep.scheduled
  BY <1>1, DTyped DEF StepsOf
<1>3. D!TypeOK'
  BY <1>1, <1>2, DTyped, DTypedNext DEF D!requests, D!queues, D!batches, D!npus
<1>4. DHas' = DHas
  BY <1>1, <1>2 DEF DHas, D!queues, D!batches
<1>5. QED
  BY <1>1, <1>3, <1>4 DEF D!requests

-----------------------------------------------------------------------------
(* The steps of the prefill instance keep its part of the invariant.       *)

LEMMA StillInLine ==
  ASSUME InLine, UNCHANGED <<status, pRunning, pWaiting>>
  PROVE  InLine'
  BY DEF InLine

LEMMA StillHanding ==
  ASSUME Handing, UNCHANGED <<status, pRunning, pWaiting>>, pStep'.handed = pStep.handed,
         pStep'.at = pStep.at
         \/ (pStep'.at \notin {"complete", "handover"} /\ pStep.at \notin {"complete", "handover"})
  PROVE  Handing'
  BY DEF Handing

LEMMA NothingHanded ==
  ASSUME pStep'.handed = << >>, pStep'.at # "handover"
  PROVE  Handing'
  BY NoElements DEF Handing

LEMMA NothingFormed ==
  ASSUME pStep'.scheduled = << >>
  PROVE  Forming'
  BY NoElements DEF Forming

(* Nothing is in flight but what the instance had in flight. *)
LEMMA StillOneBatch ==
  ASSUME OneBatch, UNCHANGED <<pInflight, pWaiting>>, pStep'.todo = << >>,
         pStep'.at \in {"idle", "schedule"}
         \/ (pStep'.at \in {"running", "waiting", "build"} /\ pInflight = << >>)
  PROVE  OneBatch'
  BY NoElements DEF OneBatch

LEMMA IHandBack ==
  ASSUME P!TypeOK, PInv, NEW n \in P!Npus, P!HandBack(n)
  PROVE  PInv'
<1>1. UNCHANGED <<status, pRunning, pWaiting>> /\ pStep.at = "idle"
  BY DEF P!HandBack, P!requests, P!queues, P!At
<1>2. PICK k \in DOMAIN pInflight :
        /\ pInflight' = [pInflight EXCEPT ![k] = P!Ended(@, n)]
        /\ pStep' = IF P!BatchOver(pInflight'[k])
                    THEN [P!Idle EXCEPT !.at = "complete", !.npu = n, !.todo = pInflight[k].work]
                    ELSE [P!Idle EXCEPT !.at = "schedule", !.npu = n]
  BY DEF P!HandBack
<1> DEFINE b == P!Ended(pInflight[k], n)
<1>3. pInflight \in Seq(BatchesOf(P!Npus)) /\ pInflight[k] \in BatchesOf(P!Npus)
  BY PTyped, ElementType
<1>4. b \in BatchesOf(P!Npus) /\ b.work = pInflight[k].work
  BY <1>3 DEF P!Ended, BatchesOf
<1>5. pInflight' = [pInflight EXCEPT ![k] = b]
  BY <1>2
<1> HIDE DEF b
<1>6. /\ pInflight' \in Seq(BatchesOf(P!Npus)) /\ Len(pInflight') = Len(pInflight)
      /\ Flying(pInflight') = Flying(pInflight) /\ Of(pInflight[k].work) \subseteq Flying(pInflight)
  <2>1. Marked(BatchesOf(P!Npus), pInflight, k, [pInflight EXCEPT ![k] = b])
    BY ONLY k \in DOMAIN pInflight, <1>3, <1>4, MarkedBatch
  <2>2. QED
    BY <1>5, <2>1 DEF Marked
<1>7. /\ pStep'.scheduled = << >> /\ pStep'.handed = << >>
      /\ \/ /\ P!BatchOver(pInflight'[k]) /\ pStep'.at = "complete"
            /\ pStep'.todo = pInflight[k].work
         \/ pStep'.at = "schedule" /\ pStep'.todo = << >>
  BY <1>2 DEF P!Idle
<1>8. pStep'.at = "complete" => \A c \in ToSet(pInflight') : P!BatchOver(c)
  <2>1. DOMAIN pInflight' = 1..Len(pInflight) /\ DOMAIN pInflight = 1..Len(pInflight)
        /\ Len(pInflight) \in Nat /\ Len(pInflight) <= 1
    BY <1>3, <1>6, LenProperties DEF PInv, OneBatch
  <2>2. \A j \in DOMAIN pInflight' : j = k
    BY <2>1
  <2>3. QED
    BY <1>7, <2>2 DEF ToSet
<1>9. OneBatch'
  BY <1>1, <1>6, <1>7, <1>8, NoElements DEF PInv, OneBatch
<1>10. InLine'
  BY <1>1, StillInLine DEF PInv
<1>11. QED
  BY <1>7, <1>9, <1>10, NothingHanded, NothingFormed DEF PInv

LEMMA AtRest ==
  ASSUME PInv, pStep.at \in {"idle", "schedule"}
  PROVE  pStep.todo = << >> /\ pStep.scheduled = << >> /\ pStep.handed = << >>
  BY DEF PInv, Handing, OneBatch, Forming

LEMMA IPoll ==
  ASSUME P!TypeOK, PInv, NEW n \in P!Npus, P!Poll(n)
  PROVE  PInv'
<1>1. UNCHANGED <<status, pRunning, pWaiting, pInflight>>
  BY DEF P!Poll, P!requests, P!queues, P!batches
<1>2. /\ pStep'.at = "schedule" /\ pStep'.todo = << >>
      /\ pStep'.scheduled = << >> /\ pStep'.handed = << >>
  BY DEF P!Poll, P!Idle
<1>3. QED
  BY <1>1, <1>2, StillInLine, NothingHanded, NothingFormed, StillOneBatch DEF PInv

(* add_done, one piece of work. *)
LEMMA Completed ==
  ASSUME P!TypeOK, PInv, pStep.at = "complete", pStep.todo # << >>,
         UNCHANGED <<pInflight, pWaiting>>, pRunning' \in {pRunning, P!Without(pRunning, Head(pStep.todo).req)},
         \A q \in Reqs : status'[q] \in {status[q], "finished"},
         pStep'.at = "complete", pStep'.todo = Tail(pStep.todo), pStep'.scheduled = pStep.scheduled
  PROVE  InLine' /\ OneBatch' /\ Forming' /\ ToSet(pRunning') \subseteq ToSet(pRunning)
<1> DEFINE r == Head(pStep.todo).req
<1>1. /\ ToSet(P!Without(pRunning, r)) = ToSet(pRunning) \ {r}
      /\ Ordered(pRunning) => Ordered(P!Without(pRunning, r))
  <2>1. pRunning \in Seq(Reqs)
    BY PTyped
  <2>2. QED
    BY <2>1, PWithout
<1> HIDE DEF r
<1>2. ToSet(pRunning') \subseteq ToSet(pRunning) /\ (Ordered(pRunning) => Ordered(pRunning'))
  BY <1>1 DEF r
<1>3. InLine'
  BY <1>2 DEF PInv, InLine
<1>4. Of(Tail(pStep.todo)) \subseteq Of(pStep.todo)
  BY PFields, LessWork
<1>5. OneBatch'
  BY <1>4 DEF PInv, OneBatch
<1>6. pStep.scheduled = << >>
  BY DEF PInv, Forming
<1>7. QED
  BY <1>2, <1>3, <1>5, <1>6, NothingFormed

LEMMA ISkipFinished ==
  ASSUME P!TypeOK, PInv, P!SkipFinished
  PROVE  PInv'
<1>1. /\ UNCHANGED <<status, pRunning, pWaiting, pInflight>>
      /\ pStep.todo # << >> /\ pStep.at = "complete"
      /\ pStep' = [pStep EXCEPT !.todo = Tail(@)]
  BY DEF P!SkipFinished, P!requests, P!queues, P!batches, P!At
<1>2. /\ pStep'.at = "complete" /\ pStep'.todo = Tail(pStep.todo)
      /\ pStep'.scheduled = pStep.scheduled /\ pStep'.handed = pStep.handed
  BY <1>1, PTyped DEF StepsOf
<1>3. InLine' /\ OneBatch' /\ Forming'
  BY <1>1, <1>2, Completed
<1>4. QED
  BY <1>1, <1>2, <1>3, StillHanding DEF PInv

LEMMA ICompleteRequest ==
  ASSUME P!TypeOK, PInv, P!CompleteRequest
  PROVE  PInv'
<1> DEFINE r == Head(pStep.todo).req
<1>1. /\ pStep.todo # << >> /\ pStep.at = "complete"
      /\ \/ UNCHANGED <<status, pRunning>>
         \/ /\ status' = [status EXCEPT ![r] = "finished"]
            /\ pRunning' = P!Without(pRunning, r)
      /\ pStep' = [pStep EXCEPT !.todo = Tail(@)]
      /\ UNCHANGED <<pWaiting, pInflight>>
  BY DEF P!CompleteRequest, P!batches, P!At
<1>2. /\ pStep'.at = "complete" /\ pStep'.todo = Tail(pStep.todo)
      /\ pStep'.scheduled = pStep.scheduled /\ pStep'.handed = pStep.handed
  BY <1>1, PTyped DEF StepsOf
<1>3. \A q \in Reqs : status'[q] \in {status[q], "finished"}
  BY <1>1, PTyped DEF Statuses
<1>4. InLine' /\ OneBatch' /\ Forming' /\ ToSet(pRunning') \subseteq ToSet(pRunning)
  <2>1. pRunning' \in {pRunning, P!Without(pRunning, r)}
    BY <1>1
  <2>2. QED
    BY <1>1, <1>2, <1>3, <2>1, Completed
<1>5. Handing'
  <2>1. ToSet(pStep.handed) \subseteq Reqs
    BY PFields, ElementType
  <2>2. QED
    BY <1>1, <1>2, <1>3, <1>4, <2>1 DEF PInv, Handing
<1>6. QED
  BY <1>4, <1>5 DEF PInv

LEMMA ICompletePrefill ==
  ASSUME P!TypeOK, PInv, P!CompletePrefill
  PROVE  PInv'
<1> DEFINE r == Head(pStep.todo).req
<1>1. /\ pStep.todo # << >> /\ pStep.at = "complete" /\ status[r] # "finished"
      /\ status' = [status EXCEPT ![r] = "finished"]
      /\ pRunning' = P!Without(pRunning, r)
      /\ pStep' = [pStep EXCEPT !.todo = Tail(@), !.handed = Append(@, r)]
      /\ UNCHANGED <<pWaiting, pInflight>>
  BY DEF P!CompletePrefill, P!batches, P!At, P!Over
<1>2. r \in Reqs /\ r \in Of(pStep.todo)
  BY <1>1, PFields, LessWork
<1>3. /\ pStep'.at = "complete" /\ pStep'.todo = Tail(pStep.todo)
      /\ pStep'.scheduled = pStep.scheduled /\ pStep'.handed = Append(pStep.handed, r)
  BY <1>1, PTyped DEF StepsOf
<1>4. status'[r] = "finished" /\ \A q \in Reqs : status'[q] \in {status[q], "finished"}
  BY <1>1, <1>2, PTyped DEF Statuses
<1>5. InLine' /\ OneBatch' /\ Forming' /\ ToSet(pRunning') \subseteq ToSet(pRunning)
  <2>1. pRunning' \in {pRunning, P!Without(pRunning, r)}
    BY <1>1
  <2>2. QED
    BY <1>1, <1>3, <1>4, <2>1, Completed
<1>6. ToSet(pRunning') = ToSet(pRunning) \ {r}
  BY <1>1, PTyped, WithoutSet
<1> HIDE DEF r
<1>7. r \notin ToSet(pWaiting)
  BY <1>2 DEF PInv, OneBatch
<1>8. r \notin ToSet(pStep.handed)
  BY <1>1 DEF PInv, Handing
<1>9. /\ ToSet(pStep'.handed) = ToSet(pStep.handed) \cup {r} /\ ToSet(pStep.handed) \subseteq Reqs
      /\ \A i, j \in DOMAIN pStep'.handed : i # j => pStep'.handed[i] # pStep'.handed[j]
  <2>1. pStep.handed \in Seq(Reqs)
    BY PFields
  <2>2. /\ Len(Append(pStep.handed, r)) = Len(pStep.handed) + 1 /\ Len(pStep.handed) \in Nat
        /\ Append(pStep.handed, r) \in Seq(Reqs)
        /\ \A i \in 1..Len(pStep.handed) : Append(pStep.handed, r)[i] = pStep.handed[i]
        /\ Append(pStep.handed, r)[Len(pStep.handed) + 1] = r
    BY <1>2, <2>1, AppendProperties, LenProperties
  <2>3. DOMAIN pStep.handed = 1..Len(pStep.handed)
        /\ DOMAIN pStep'.handed = 1..(Len(pStep.handed) + 1)
    BY <1>3, <2>1, <2>2, LenProperties
  <2>4. \A i \in DOMAIN pStep'.handed :
          \/ i \in DOMAIN pStep.handed /\ pStep'.handed[i] = pStep.handed[i] /\ pStep.handed[i] # r
          \/ i = Len(pStep.handed) + 1 /\ pStep'.handed[i] = r
    <3>1. \A i \in DOMAIN pStep.handed : pStep.handed[i] # r
      BY <1>8 DEF ToSet
    <3>2. QED
      BY <1>3, <2>2, <2>3, <3>1
  <2>5. \A i, j \in DOMAIN pStep'.handed : i # j => pStep'.handed[i] # pStep'.handed[j]
    BY <2>4 DEF PInv, Handing
  <2>6. QED
    BY <1>2, <1>3, <2>1, <2>5, AppendSet, ElementType
<1>10. Handing'
  BY <1>1, <1>3, <1>4, <1>5, <1>6, <1>7, <1>9 DEF PInv, Handing
<1>11. QED
  BY <1>5, <1>10 DEF PInv

LEMMA IDropBatch ==
  ASSUME P!TypeOK, PInv, P!DropBatch
  PROVE  PInv'
<1> DEFINE T == {batch \in P!ToSet(pInflight) : ~P!BatchOver(batch)}
<1>1. /\ UNCHANGED <<status, pRunning, pWaiting>> /\ pStep.at = "complete" /\ pStep.todo = << >>
      /\ pInflight' = P!Kept(pInflight, T)
      /\ pStep' = [pStep EXCEPT !.at = IF pStep.handed = << >> THEN "schedule" ELSE "handover"]
  BY DEF P!DropBatch, P!Goto, P!requests, P!queues, P!At
<1>2. T = {}
  BY <1>1, SameToSet DEF PInv, OneBatch
<1> HIDE DEF T
<1>3. pInflight' = << >>
  <2>1. pInflight' \in Seq(BatchesOf(P!Npus)) /\ ToSet(pInflight') = ToSet(pInflight) \cap T
    BY <1>1, PTyped, KeptSet
  <2>2. QED
    BY <1>2, <2>1, EmptyWhenNoElements
<1>4. /\ pStep'.at = (IF pStep.handed = << >> THEN "schedule" ELSE "handover")
      /\ pStep'.todo = << >> /\ pStep'.scheduled = pStep.scheduled /\ pStep'.handed = pStep.handed
  BY <1>1, PTyped DEF StepsOf
<1>5. OneBatch'
  BY <1>3, <1>4, NoElements DEF OneBatch
<1>6. Handing'
  BY <1>1, <1>4 DEF PInv, Handing
<1>7. pStep.scheduled = << >>
  BY <1>1 DEF PInv, Forming
<1>8. QED
  BY <1>1, <1>4, <1>5, <1>6, <1>7, StillInLine, NothingFormed DEF PInv

LEMMA IJoinBatch ==
  ASSUME P!TypeOK, PInv, P!JoinBatch
  PROVE  PInv'
<1>1. /\ UNCHANGED <<status, pRunning, pWaiting>> /\ pStep' = P!Idle
  BY DEF P!JoinBatch, P!Return, P!requests, P!queues
<1>2. PICK k \in P!Joinable(pStep.npu) :
        pInflight' = [pInflight EXCEPT ![k].fired = @ \cup {pStep.npu}]
  BY DEF P!JoinBatch
<1> DEFINE b == [pInflight[k] EXCEPT !.fired = @ \cup {pStep.npu}]
<1>3. /\ k \in DOMAIN pInflight /\ pInflight \in Seq(BatchesOf(P!Npus))
      /\ pInflight[k] \in BatchesOf(P!Npus) /\ pStep.npu \in P!Npus
  BY PTyped, PFields, ElementType DEF P!Joinable
<1>4. b \in BatchesOf(P!Npus) /\ b.work = pInflight[k].work
  BY <1>3 DEF BatchesOf
<1>5. pInflight' = [pInflight EXCEPT ![k] = b]
  BY <1>2
<1> HIDE DEF b
<1>6. Len(pInflight') = Len(pInflight) /\ Flying(pInflight') = Flying(pInflight)
  <2>1. Marked(BatchesOf(P!Npus), pInflight, k, [pInflight EXCEPT ![k] = b])
    BY ONLY <1>3, <1>4, MarkedBatch
  <2>2. QED
    BY <1>5, <2>1 DEF Marked
<1>7. /\ pStep'.at = "idle" /\ pStep'.todo = << >>
      /\ pStep'.scheduled = << >> /\ pStep'.handed = << >>
  BY <1>1 DEF P!Idle
<1>8. OneBatch'
  BY <1>1, <1>6, <1>7, NoElements DEF PInv, OneBatch
<1>9. QED
  BY <1>1, <1>7, <1>8, StillInLine, NothingHanded, NothingFormed DEF PInv

LEMMA IPasses ==
  ASSUME P!TypeOK, PInv, PrefillStages = 1,
         P!Pass \/ P!NothingToBuild \/ P!StartSchedule \/ P!SkipRunning
                \/ P!EndRunning \/ P!EndWaiting
  PROVE  PInv'
<1>1. UNCHANGED <<status, pRunning, pWaiting, pInflight>>
  BY DEF P!Pass, P!NothingToBuild, P!StartSchedule, P!SkipRunning, P!EndRunning, P!EndWaiting,
         P!requests, P!queues, P!batches
<1>2. InLine'
  BY <1>1, StillInLine DEF PInv
<1>3. CASE P!Pass \/ P!NothingToBuild
  <2>1. pStep' = P!Idle
    BY <1>3 DEF P!Pass, P!NothingToBuild, P!Return
  <2>2. /\ pStep'.at = "idle" /\ pStep'.todo = << >>
        /\ pStep'.scheduled = << >> /\ pStep'.handed = << >>
    BY <2>1 DEF P!Idle
  <2>3. QED
    BY <1>1, <1>2, <2>2, NothingHanded, NothingFormed, StillOneBatch DEF PInv
<1>4. CASE P!StartSchedule
  <2>1. /\ pStep.at = "schedule" /\ ~P!PipelineFull
        /\ pStep' = [pStep EXCEPT !.at = "running", !.budget = MaxBatchedTokens]
    BY <1>4 DEF P!StartSchedule, P!At
  <2>2. /\ pStep'.at = "running" /\ pStep'.todo = pStep.todo
        /\ pStep'.scheduled = pStep.scheduled /\ pStep'.handed = pStep.handed
    BY <2>1, PTyped DEF StepsOf
  <2>3. pInflight = << >>
    <3>1. pInflight \in Seq(BatchesOf(P!Npus)) /\ ~(Len(pInflight) >= 1)
      BY <2>1, PTyped DEF P!PipelineFull
    <3>2. QED
      BY <3>1, EmptySeq
  <2>4. pStep.todo = << >> /\ pStep.scheduled = << >> /\ pStep.handed = << >>
    BY <2>1, AtRest
  <2>5. QED
    BY <1>1, <1>2, <2>2, <2>3, <2>4, NothingHanded, NothingFormed, StillOneBatch DEF PInv
<1>5. CASE P!SkipRunning \/ P!EndRunning \/ P!EndWaiting
  <2>1. /\ pStep.at \in {"running", "waiting"} /\ pStep'.todo = pStep.todo
        /\ pStep'.scheduled = pStep.scheduled /\ pStep'.handed = pStep.handed
        /\ \/ pStep'.at = "running" /\ pStep.at = "running" /\ pStep'.i = pStep.i + 1
           \/ pStep'.at \in {"waiting", "build"}
    <3>1. CASE P!SkipRunning
      <4>1. pStep.at = "running" /\ pStep' = [pStep EXCEPT !.i = @ + 1]
        BY <3>1 DEF P!SkipRunning, P!Serving, P!At
      <4>2. QED
        BY <4>1, PTyped DEF StepsOf
    <3>2. CASE P!EndRunning
      <4>1. /\ pStep.at = "running"
            /\ pStep' = [pStep EXCEPT !.at = IF pStep.preempted = {} THEN "waiting" ELSE "build"]
        BY <3>2 DEF P!EndRunning, P!Goto, P!At
      <4>2. QED
        BY <4>1, PTyped DEF StepsOf
    <3>3. CASE P!EndWaiting
      <4>1. pStep.at = "waiting" /\ pStep' = [pStep EXCEPT !.at = "build"]
        BY <3>3 DEF P!EndWaiting, P!Goto, P!At
      <4>2. QED
        BY <4>1, PTyped DEF StepsOf
    <3>4. QED
      BY <1>5, <3>1, <3>2, <3>3
  <2>2. pInflight = << >> /\ pStep.todo = << >> /\ pStep.handed = << >> /\ pStep.i \in Nat
    BY <2>1, PFields DEF PInv, OneBatch, Handing
  <2>3. OneBatch' /\ Handing'
    BY <1>1, <2>1, <2>2, StillOneBatch, NothingHanded DEF PInv
  <2>4. Forming'
    <3>1. CASE pStep'.at = "running"
      <4>1. \A r \in Of(pStep.scheduled) : \E j \in DOMAIN pRunning : j < pStep.i /\ pRunning[j] = r
        BY <2>1, <3>1 DEF PInv, Forming
      <4>2. DOMAIN pRunning \subseteq Nat
        <5>1. pRunning \in Seq(Reqs)
          BY PTyped
        <5>2. QED
          BY <5>1, LenProperties
      <4>3. \A j \in DOMAIN pRunning : j < pStep.i => j < pStep.i + 1
        BY <2>2, <4>2
      <4>4. QED
        BY <1>1, <2>1, <3>1, <4>1, <4>3 DEF PInv, Forming
    <3>2. CASE pStep'.at # "running"
      BY <1>1, <2>1, <3>2 DEF PInv, Forming
    <3>3. QED
      BY <3>1, <3>2
  <2>5. QED
    BY <1>2, <2>3, <2>4 DEF PInv
<1>6. QED
  BY <1>3, <1>4, <1>5

LEMMA IServeRunning ==
  ASSUME P!TypeOK, PInv, P!ServeRunning
  PROVE  PInv'
<1> DEFINE n == P!NumNewTokens(P!Current)
<1>1. /\ P!Serving /\ pStep.at = "running" /\ n > 0
      /\ P!Schedule(P!Current, n, computed[P!Current])
      /\ UNCHANGED <<status, pRunning, pWaiting, pInflight>>
  BY DEF P!ServeRunning, P!Serving, P!At, P!requests, P!queues, P!batches
<1>2. n \in Nat /\ n <= pStep.budget
  BY <1>1, PNewTokens
<1>3. /\ P!Current \in Reqs /\ P!Current \in ToSet(pRunning) /\ computed[P!Current] \in Nat
      /\ pStep.i \in DOMAIN pRunning /\ P!Current = pRunning[pStep.i]
  BY <1>1, PServing DEF P!Current
<1> HIDE DEF n
<1>4. /\ pStep'.at = "running" /\ pStep'.i = pStep.i + 1
      /\ pStep'.todo = pStep.todo /\ pStep'.handed = pStep.handed
      /\ Of(pStep'.scheduled) = Of(pStep.scheduled) \cup {P!Current}
  BY <1>1, <1>2, <1>3, PSchedule
<1>5. pInflight = << >> /\ pStep.todo = << >> /\ pStep.handed = << >> /\ pStep.i \in Nat
  BY <1>1, PFields DEF PInv, OneBatch, Handing
<1>6. OneBatch' /\ Handing' /\ InLine'
  BY <1>1, <1>4, <1>5, StillOneBatch, NothingHanded, StillInLine DEF PInv
<1>7. P!Current \notin ToSet(pWaiting)
  <2>1. \A r \in ToSet(pRunning), q \in ToSet(pWaiting) : r < q
    BY DEF PInv, InLine
  <2>2. P!Current \in Int
    BY <1>3, ReqsNat
  <2>3. QED
    BY <1>3, <2>1, <2>2
<1>8. ASSUME NEW r \in Of(pStep'.scheduled)
      PROVE  \E j \in DOMAIN pRunning : j < pStep.i + 1 /\ pRunning[j] = r
  <2>1. DOMAIN pRunning \subseteq Nat
    BY SMTT(30), PTyped, LenProperties
  <2>2. CASE r \in Of(pStep.scheduled)
    <3>1. PICK j \in DOMAIN pRunning : j < pStep.i /\ pRunning[j] = r
      BY <1>1, <2>2 DEF PInv, Forming
    <3>2. j < pStep.i + 1
      BY <1>5, <2>1, <3>1
    <3>3. QED
      BY <3>1, <3>2
  <2>3. CASE r = P!Current
    <3>1. pStep.i < pStep.i + 1
      BY <1>5
    <3>2. QED
      BY <1>3, <2>3, <3>1
  <2>4. QED
    BY <1>4, <1>8, <2>2, <2>3
<1>9. Forming'
  BY <1>1, <1>4, <1>7, <1>8 DEF PInv, Forming
<1>10. QED
  BY <1>6, <1>9 DEF PInv

(* A victim comes last in running and is in no batch. *)
LEMMA VictimFacts ==
  ASSUME P!TypeOK, PInv, P!Serving
  PROVE  /\ P!Victim \in ToSet(pRunning) /\ P!Victim \in Reqs
         /\ P!Victim \notin Of(pStep.scheduled)
         /\ P!Without(pRunning, P!Victim) = SubSeq(pRunning, 1, Len(pRunning) - 1)
         /\ pStep.i <= Len(pRunning) /\ Len(pRunning) \in Nat \ {0} /\ pStep.i \in Nat
         /\ P!Victim = pRunning[Len(pRunning)]
         /\ \A x \in ToSet(pRunning) \ {P!Victim} : x < P!Victim
<1>1. /\ pRunning \in Seq(Reqs) /\ pRunning # << >> /\ Ordered(pRunning)
      /\ P!Victim = Last(pRunning) /\ P!Victim \in Reqs /\ P!Victim \in ToSet(pRunning)
      /\ pStep.i <= Len(pRunning) /\ pStep.i \in Nat /\ pStep.at = "running"
  BY PTyped, PServing, PFields DEF PInv, InLine, P!Serving, P!At
<1>2. /\ P!Without(pRunning, P!Victim) = SubSeq(pRunning, 1, Len(pRunning) - 1)
      /\ P!Victim = pRunning[Len(pRunning)]
  BY <1>1, FromTheEnd
<1>3. DOMAIN pRunning = 1..Len(pRunning) /\ Len(pRunning) \in Nat \ {0}
  BY <1>1, LenProperties, EmptySeq
<1>4. \A j \in DOMAIN pRunning : j < Len(pRunning) => pRunning[j] < P!Victim
  BY <1>1, <1>2, <1>3 DEF Ordered
<1>5. P!Victim \in Int
  BY <1>1, ReqsNat
<1>6. P!Victim \notin Of(pStep.scheduled)
  <2>1. ASSUME P!Victim \in Of(pStep.scheduled) PROVE FALSE
    <3>1. PICK j \in DOMAIN pRunning : j < pStep.i /\ pRunning[j] = P!Victim
      BY <1>1, <2>1 DEF PInv, Forming
    <3>2. j < Len(pRunning)
      BY <1>1, <1>3, <3>1
    <3>3. QED
      BY <1>4, <1>5, <3>1, <3>2
  <2>2. QED
    BY <2>1
<1>7. \A x \in ToSet(pRunning) \ {P!Victim} : x < P!Victim
  <2>1. ASSUME NEW j \in DOMAIN pRunning, pRunning[j] # P!Victim PROVE pRunning[j] < P!Victim
    <3>1. j < Len(pRunning)
      BY <1>2, <1>3, <2>1
    <3>2. QED
      BY <1>4, <3>1
  <2>2. QED
    BY <2>1 DEF ToSet
<1>8. QED
  BY <1>1, <1>2, <1>3, <1>6, <1>7

LEMMA IPreemptTail ==
  ASSUME P!TypeOK, PInv, Apart, P!PreemptTail
  PROVE  PInv'
<1> DEFINE v == P!Victim
<1>1. /\ P!Serving /\ pStep.at = "running"
      /\ status' = [status EXCEPT ![v] = "preempted"]
      /\ pRunning' = P!Without(pRunning, v)
      /\ pWaiting' = <<v>> \o pWaiting
      /\ pStep' = [pStep EXCEPT !.preempted = @ \cup {v},
                                !.at = IF v = P!Current THEN "build" ELSE @]
      /\ pInflight' = pInflight
  BY DEF P!PreemptTail, P!Serving, P!At, P!batches
<1>2. /\ v \in ToSet(pRunning) /\ v \in Reqs /\ v \notin Of(pStep.scheduled)
      /\ P!Without(pRunning, v) = SubSeq(pRunning, 1, Len(pRunning) - 1)
      /\ pStep.i <= Len(pRunning) /\ Len(pRunning) \in Nat \ {0} /\ pStep.i \in Nat
      /\ \A x \in ToSet(pRunning) \ {v} : x < v
  BY <1>1, VictimFacts
<1> HIDE DEF v
<1>3. /\ pStep'.at \in {"running", "build"} /\ pStep'.todo = pStep.todo /\ pStep'.i = pStep.i
      /\ pStep'.scheduled = pStep.scheduled /\ pStep'.handed = pStep.handed
  BY <1>1, PTyped DEF StepsOf
<1>4. pInflight = << >> /\ pStep.todo = << >> /\ pStep.handed = << >>
  BY <1>1 DEF PInv, OneBatch, Handing
<1>5. /\ Ordered(pRunning) /\ Ordered(pWaiting) /\ pRunning \in Seq(Reqs) /\ pWaiting \in Seq(Reqs)
      /\ \A r \in ToSet(pRunning), q \in ToSet(pWaiting) : r < q
      /\ \A r \in ToSet(pRunning) \cup ToSet(pWaiting), q \in Reqs : status[q] = "future" => r < q
  BY PTyped DEF PInv, InLine
<1>6. ToSet(pRunning') = ToSet(pRunning) \ {v} /\ Ordered(pRunning')
  BY <1>1, <1>5, PWithout
<1>7. ToSet(pWaiting') = {v} \cup ToSet(pWaiting) /\ Ordered(pWaiting')
  <2>1. \A x \in ToSet(pWaiting) : v < x
    BY <1>2, <1>5
  <2>2. QED
    BY <1>1, <1>2, <1>5, <2>1, AtTheFront, PrependSet
<1>8. InLine'
  <2>1. \A r \in ToSet(pRunning'), q \in ToSet(pWaiting') : r < q
    BY <1>2, <1>5, <1>6, <1>7
  <2>2. \A q \in Reqs : status'[q] = "future" => status[q] = "future"
    BY <1>1, PTyped DEF Statuses
  <2>3. ToSet(pRunning') \cup ToSet(pWaiting') = ToSet(pRunning) \cup ToSet(pWaiting)
    BY <1>2, <1>6, <1>7
  <2>4. QED
    BY <1>5, <1>6, <1>7, <2>1, <2>2, <2>3 DEF InLine
<1>9. OneBatch' /\ Handing'
  BY <1>1, <1>3, <1>4, NoElements, NothingHanded DEF OneBatch
<1>10. ASSUME NEW r \in Of(pStep.scheduled), pStep.at = "running"
       PROVE  \E j \in DOMAIN pRunning' : j < pStep.i /\ pRunning'[j] = r
  <2>1. PICK j \in DOMAIN pRunning : j < pStep.i /\ pRunning[j] = r
    BY <1>10 DEF PInv, Forming
  <2>2. j \in 1..(Len(pRunning) - 1) /\ Len(pRunning) - 1 \in Nat
    BY <1>2, <1>5, <2>1, LenProperties
  <2>3. pRunning' = SubSeq(pRunning, 1, Len(pRunning) - 1)
    BY <1>1, <1>2
  <2>4. j \in DOMAIN pRunning' /\ pRunning'[j] = pRunning[j]
    <3>1. \A m \in Nat : m <= Len(pRunning) =>
            DOMAIN SubSeq(pRunning, 1, m) = 1..m /\ \A l \in 1..m : SubSeq(pRunning, 1, m)[l] = pRunning[l]
      BY <1>5
    <3>2. Len(pRunning) - 1 <= Len(pRunning)
      BY <1>2
    <3>3. QED
      BY <2>2, <2>3, <3>1, <3>2
  <2>5. QED
    BY <2>1, <2>4
<1>11. Forming'
  BY <1>1, <1>2, <1>3, <1>7, <1>10 DEF PInv, Forming
<1>12. QED
  BY <1>8, <1>9, <1>11 DEF PInv

LEMMA IAdmitWaiting ==
  ASSUME P!TypeOK, Begun, PInv, Apart, P!AdmitWaiting
  PROVE  PInv'
<1> DEFINE r == Head(pWaiting)
<1> DEFINE n == P!NextTokens
<1>1. /\ P!Admissible /\ pWaiting # << >> /\ pStep.at = "waiting"
      /\ status' = [status EXCEPT ![r] = "running"]
      /\ pRunning' = Append(pRunning, r)
      /\ P!Schedule(r, n, P!NextBefore)
      /\ pWaiting' = Tail(pWaiting)
      /\ pInflight' = pInflight
  BY DEF P!AdmitWaiting, P!Admissible, P!At, P!batches
<1>2. /\ r \in Reqs /\ r \in ToSet(pWaiting) /\ P!NextBefore \in Nat
      /\ n \in Nat /\ n <= pStep.budget
  BY <1>1, PNext
<1>3. /\ Ordered(pRunning) /\ Ordered(pWaiting) /\ pRunning \in Seq(Reqs) /\ pWaiting \in Seq(Reqs)
      /\ \A x \in ToSet(pRunning), q \in ToSet(pWaiting) : x < q
      /\ \A x \in ToSet(pRunning) \cup ToSet(pWaiting), q \in Reqs : status[q] = "future" => x < q
  BY PTyped DEF PInv, InLine
<1>4. /\ ToSet(pWaiting') = ToSet(pWaiting) \ {r} /\ Ordered(pWaiting')
      /\ \A x \in ToSet(pWaiting') : r < x
  BY <1>1, <1>3, FromTheFront
<1> HIDE DEF r, n
<1>5. ToSet(pRunning') = ToSet(pRunning) \cup {r} /\ Ordered(pRunning')
  <2>1. \A x \in ToSet(pRunning) : x < r
    BY <1>2, <1>3
  <2>2. QED
    BY <1>1, <1>2, <1>3, <2>1, AppendSet, AtTheEnd
<1>6. /\ pStep'.at = "waiting" /\ pStep'.todo = pStep.todo /\ pStep'.handed = pStep.handed
      /\ Of(pStep'.scheduled) = Of(pStep.scheduled) \cup {r}
  BY <1>1, <1>2, PSchedule
<1>7. pInflight = << >> /\ pStep.todo = << >> /\ pStep.handed = << >>
  BY <1>1 DEF PInv, OneBatch, Handing
<1>8. OneBatch' /\ Handing'
  BY <1>1, <1>6, <1>7, NoElements, NothingHanded DEF OneBatch
<1>9. InLine'
  <2>1. \A x \in ToSet(pRunning'), q \in ToSet(pWaiting') : x < q
    BY <1>3, <1>4, <1>5
  <2>2. \A q \in Reqs : status'[q] = "future" => status[q] = "future"
    BY <1>1, PTyped DEF Statuses
  <2>3. ToSet(pRunning') \cup ToSet(pWaiting') = ToSet(pRunning) \cup ToSet(pWaiting)
    BY <1>2, <1>4, <1>5
  <2>4. QED
    BY <1>3, <1>4, <1>5, <2>1, <2>2, <2>3 DEF InLine
<1>10. Forming'
  BY <1>4, <1>6 DEF PInv, Forming
<1>11. QED
  BY <1>8, <1>9, <1>10 DEF PInv

LEMMA IBuildBatch ==
  ASSUME P!TypeOK, PInv, P!BuildBatch
  PROVE  PInv'
<1> DEFINE b == [id |-> pNextId, work |-> pStep.scheduled, fired |-> {P!StartNpu}, ended |-> {}]
<1>1. /\ pInflight' = Append(pInflight, b) /\ pStep' = P!Idle /\ pStep.at = "build"
      /\ UNCHANGED <<status, pRunning, pWaiting>>
  BY DEF P!BuildBatch, P!Return, P!At, P!queues
<1>2. b \in BatchesOf(P!Npus) /\ b.work = pStep.scheduled
  BY PTyped, PFields, PIdle DEF BatchesOf
<1> HIDE DEF b
<1>3. pInflight = << >> /\ pInflight \in Seq(BatchesOf(P!Npus))
  BY <1>1, PTyped DEF PInv, OneBatch
<1>4. Flying(pInflight') = Of(pStep.scheduled) /\ Len(pInflight') = 1
  <2>1. Flying(Append(pInflight, b)) = Flying(pInflight) \cup Of(b.work)
    BY ONLY <1>2, <1>3, MoreBatches
  <2>2. Flying(pInflight) = {}
    BY <1>3, NoElements
  <2>3. Len(Append(pInflight, b)) = Len(pInflight) + 1 /\ Len(pInflight) = 0
    BY ONLY <1>2, <1>3, AppendProperties
  <2>4. QED
    BY <1>1, <1>2, <2>1, <2>2, <2>3
<1>5. /\ pStep'.at = "idle" /\ pStep'.todo = << >>
      /\ pStep'.scheduled = << >> /\ pStep'.handed = << >>
  BY <1>1 DEF P!Idle
<1>6. OneBatch'
  BY <1>1, <1>4, <1>5, NoElements DEF PInv, Forming, OneBatch
<1>7. QED
  BY <1>1, <1>5, <1>6, NothingHanded, NothingFormed, StillInLine DEF PInv


-----------------------------------------------------------------------------
(* Every step of the pair keeps the invariant.                             *)

LEMMA SharedNext ==
  ASSUME P!TypeOK' \/ D!TypeOK'
  PROVE  /\ status' \in Statuses /\ computed' \in [Reqs -> Nat] /\ reached' \in [Reqs -> Nat]
         /\ isInit' \subseteq Reqs
  BY DEF P!TypeOK, D!TypeOK, Statuses

LEMMA PKeepsType ==
  ASSUME P!TypeOK, UNCHANGED prefill, D!TypeOK'
  PROVE  P!TypeOK'
  BY PTyped, PTypedNext, SharedNext DEF prefill

LEMMA DKeepsType ==
  ASSUME D!TypeOK, UNCHANGED decode, P!TypeOK'
  PROVE  D!TypeOK'
  BY DTyped, DTypedNext, SharedNext DEF decode

LEMMA WorkReqs == \A work \in Seq(Work) : Of(work) \subseteq Reqs
<1>1. ASSUME NEW work \in Seq(Work) PROVE Of(work) \subseteq Reqs
  <2>1. ToSet(work) \subseteq Work
    BY ElementType
  <2>2. \A w \in Work : w.req \in Reqs
    BY DEF Work
  <2>3. QED
    BY <2>1, <2>2 DEF Of
<1>2. QED
  BY <1>1

LEMMA PHasReqs == ASSUME P!TypeOK PROVE PHas \subseteq Reqs
<1>1. /\ ToSet(pRunning) \subseteq Reqs /\ ToSet(pWaiting) \subseteq Reqs
      /\ ToSet(pStep.handed) \subseteq Reqs
  BY PTyped, PFields, ElementType
<1>2. \A work \in Seq(Work) : Of(work) \subseteq Reqs
  BY WorkReqs
<1>3. Flying(pInflight) \subseteq Reqs
  <2>1. \A b \in ToSet(pInflight) : b \in BatchesOf(P!Npus)
    BY PTyped, ElementType
  <2>2. QED
    BY <1>2, <2>1 DEF Flying, BatchesOf
<1>4. QED
  BY <1>1, <1>2, <1>3, PFields DEF PHas

LEMMA DHasReqs == ASSUME D!TypeOK PROVE DHas \subseteq Reqs
<1>1. /\ ToSet(dRunning) \subseteq Reqs /\ ToSet(dWaiting) \subseteq Reqs
      /\ ToSet(dFinished) \subseteq Reqs
  BY DTyped, ElementType
<1>2. \A work \in Seq(Work) : Of(work) \subseteq Reqs
  BY WorkReqs
<1>3. Flying(dInflight) \subseteq Reqs
  <2>1. \A b \in ToSet(dInflight) : b \in BatchesOf(D!Npus)
    BY DTyped, ElementType
  <2>2. QED
    BY <1>2, <2>1 DEF Flying, BatchesOf
<1>4. QED
  BY <1>1, <1>2, <1>3, DFields DEF DHas

LEMMA PairBegins == ASSUME PairInit PROVE PairInv
<1>1. /\ status = [r \in Reqs |-> "future"] /\ computed = [r \in Reqs |-> 0]
      /\ reached = Prompt /\ isInit = Reqs
      /\ pWaiting = << >> /\ pRunning = << >> /\ pInflight = << >> /\ pNextId = 0
      /\ pFinished = << >> /\ pStep = P!Idle
      /\ pShipping = [hit |-> [r \in Reqs |-> 0], sent |-> [r \in Reqs |-> 0]]
      /\ pRan = [n \in P!Npus |-> 0] /\ pBusy = {}
  BY DEF PairInit, P!Init
<1>2. /\ dWaiting = << >> /\ dRunning = << >> /\ dInflight = << >> /\ dNextId = 0
      /\ dFinished = << >> /\ dStep = D!Idle
      /\ dShipping = [hit |-> [r \in Reqs |-> 0], sent |-> [r \in Reqs |-> 0]]
      /\ dRan = [n \in D!Npus |-> 0] /\ dBusy = {}
  BY DEF PairInit, D!Init
<1>3. Prompt \in [Reqs -> Nat \ {0}]
  BY PairAssumption DEF P!SchedulerAssumption
<1>4. /\ << >> \in Seq(Reqs) /\ << >> \in Seq(BatchesOf(P!Npus))
      /\ << >> \in Seq(BatchesOf(D!Npus))
  OBVIOUS
<1>5. P!TypeOK
  <2>1. /\ status \in Statuses /\ computed \in [Reqs -> Nat] /\ reached \in [Reqs -> Nat]
        /\ isInit \subseteq Reqs /\ pRan \in [P!Npus -> Nat] /\ pBusy \subseteq P!Npus
        /\ pNextId \in Nat /\ pShipping \in [hit : [Reqs -> Nat], sent : [Reqs -> Nat]]
    BY <1>1, <1>3 DEF Statuses
  <2>2. QED
    BY <1>1, <1>4, <2>1, PIdle DEF P!TypeOK, P!Work, Work, Statuses, BatchesOf, StepsOf
<1>6. D!TypeOK
  <2>1. /\ status \in Statuses /\ computed \in [Reqs -> Nat] /\ reached \in [Reqs -> Nat]
        /\ isInit \subseteq Reqs /\ dRan \in [D!Npus -> Nat] /\ dBusy \subseteq D!Npus
        /\ dNextId \in Nat /\ dShipping \in [hit : [Reqs -> Nat], sent : [Reqs -> Nat]]
    BY <1>1, <1>2, <1>3 DEF Statuses
  <2>2. QED
    BY <1>2, <1>4, <2>1, DIdle DEF D!TypeOK, D!Work, Work, Statuses, BatchesOf, StepsOf
<1>7. Begun
  BY <1>1, <1>3 DEF Begun
<1>8. pStep.todo = << >> /\ pStep.scheduled = << >> /\ pStep.handed = << >> /\ pStep.at = "idle"
      /\ dStep.todo = << >> /\ dStep.scheduled = << >>
  BY <1>1, <1>2 DEF P!Idle, D!Idle
<1>9. PHas = {} /\ DHas = {}
  BY <1>1, <1>2, <1>8, NoElements DEF PHas, DHas
<1>10. InLine
  <2>1. DOMAIN << >> = {}
    OBVIOUS
  <2>2. QED
    BY <1>1, <2>1, NoElements DEF InLine, Ordered
<1>11. Handing
  <2>1. DOMAIN << >> = {}
    OBVIOUS
  <2>2. QED
    BY <1>8, <2>1, NoElements DEF Handing
<1>12. OneBatch /\ Forming
  <2>1. Len(<< >>) = 0
    OBVIOUS
  <2>2. QED
    BY <1>1, <1>8, <2>1, NoElements DEF OneBatch, Forming
<1>13. QED
  BY <1>5, <1>6, <1>7, <1>9, <1>10, <1>11, <1>12 DEF PairInv, Typed, Apart, PInv

(* A step of the prefill instance. *)
LEMMA PStep ==
  ASSUME PairInv, PStays, PInv', UNCHANGED decode
  PROVE  PairInv'
<1>1. P!TypeOK /\ D!TypeOK /\ Begun /\ Apart
  BY DEF PairInv, Typed
<1>2. P!TypeOK' /\ PHas' \subseteq PHas /\ Touches(PHas)
  BY DEF PStays
<1>3. D!TypeOK'
  BY <1>1, <1>2, DKeepsType
<1>4. DHas' = DHas
  BY DEF DHas, decode
<1>5. Begun'
  <2>1. /\ Prompt \in [Reqs -> Nat \ {0}] /\ reached \in [Reqs -> Nat]
        /\ reached' \in [Reqs -> Nat]
    BY <1>1, <1>2, PTyped, SharedNext, PairAssumption DEF P!SchedulerAssumption
  <2>2. \A r \in Reqs : reached[r] >= Prompt[r] /\ reached'[r] >= reached[r]
    BY <1>1, <1>2 DEF Begun, Touches
  <2>3. QED
    BY <2>1, <2>2 DEF Begun
<1>6. Apart'
  <2>1. PHas \subseteq Reqs /\ DHas \subseteq Reqs
    BY <1>1, PHasReqs, DHasReqs
  <2>2. QED
    BY <1>1, <1>2, <1>4, <2>1 DEF Apart, Touches
<1>7. QED
  BY <1>2, <1>3, <1>5, <1>6 DEF PairInv, Typed

(* A step of the decode instance: what the prefill instance has is not     *)
(* touched by it.                                                          *)
LEMMA DStep ==
  ASSUME PairInv, DStays, UNCHANGED prefill
  PROVE  PairInv'
<1>1. P!TypeOK /\ D!TypeOK /\ Begun /\ Apart /\ PInv
  BY DEF PairInv, Typed
<1>2. D!TypeOK' /\ DHas' \subseteq DHas /\ Touches(DHas)
  BY DEF DStays
<1>3. P!TypeOK'
  BY <1>1, <1>2, PKeepsType
<1>4. PHas' = PHas
  BY DEF PHas, prefill
<1>5. Begun'
  <2>1. /\ Prompt \in [Reqs -> Nat \ {0}] /\ reached \in [Reqs -> Nat]
        /\ reached' \in [Reqs -> Nat]
    BY <1>1, <1>2, PTyped, SharedNext, PairAssumption DEF P!SchedulerAssumption
  <2>2. \A r \in Reqs : reached[r] >= Prompt[r] /\ reached'[r] >= reached[r]
    BY <1>1, <1>2 DEF Begun, Touches
  <2>3. QED
    BY <2>1, <2>2 DEF Begun
<1>6. PHas \subseteq Reqs /\ DHas \subseteq Reqs
  BY <1>1, PHasReqs, DHasReqs
<1>7. Apart'
  BY <1>1, <1>2, <1>4, <1>6 DEF Apart, Touches
<1>8. pRunning' = pRunning /\ pWaiting' = pWaiting /\ pInflight' = pInflight /\ pStep' = pStep
  BY DEF prefill
<1>9. InLine'
  BY <1>1, <1>2, <1>8 DEF PInv, InLine, Touches
<1>10. Handing'
  <2>1. \A r \in ToSet(pStep.handed) : r \in Reqs \ DHas
    BY <1>1, <1>6 DEF Apart, PHas
  <2>2. \A r \in ToSet(pStep.handed) : status'[r] = status[r]
    BY <1>2, <2>1 DEF Touches
  <2>3. QED
    BY <1>1, <1>8, <2>2 DEF PInv, Handing
<1>11. OneBatch' /\ Forming'
  BY <1>1, <1>8 DEF PInv, OneBatch, Forming, P!BatchOver, P!StartNpu, P!LastNpu
<1>12. QED
  BY <1>2, <1>3, <1>5, <1>7, <1>9, <1>10, <1>11 DEF PairInv, Typed, PInv

LEMMA PairArrives ==
  ASSUME PairInv, NEW r \in Reqs, P!AddRequest(r), UNCHANGED decode
  PROVE  PairInv'
<1>1. P!TypeOK /\ D!TypeOK /\ Begun /\ Apart /\ InLine /\ Handing /\ OneBatch /\ Forming
  BY DEF PairInv, Typed, PInv
<1>2. /\ P!TypeOK' /\ PHas' = PHas \cup {r}
      /\ status[r] = "future" /\ status' = [status EXCEPT ![r] = "waiting"]
      /\ pWaiting' = Append(pWaiting, r) /\ ToSet(pWaiting') = ToSet(pWaiting) \cup {r}
      /\ \A q \in Reqs : q < r => status[q] # "future"
      /\ UNCHANGED <<computed, reached, pRunning, pInflight, pStep, pShipping>>
  BY <1>1, PAddRequest
<1>3. pStep.at = "idle"
  BY DEF P!AddRequest, P!At
<1>4. D!TypeOK' /\ Begun' /\ DHas' = DHas
  BY <1>1, <1>2, DKeepsType DEF Begun, DHas, decode
<1>5. r \notin PHas /\ r \notin DHas
  BY <1>1, <1>2 DEF Apart
<1>6. \A q \in Reqs : status'[q] = IF q = r THEN "waiting" ELSE status[q]
  BY <1>1, <1>2, PTyped DEF Statuses
<1>7. Apart'
  <2>1. PHas \subseteq Reqs /\ DHas \subseteq Reqs
    BY <1>1, PHasReqs, DHasReqs
  <2>2. QED
    BY <1>1, <1>2, <1>4, <1>5, <1>6, <2>1 DEF Apart
<1>8. InLine'
  <2>1. /\ \A x \in ToSet(pRunning) \cup ToSet(pWaiting) : x < r
        /\ pWaiting \in Seq(Reqs) /\ Ordered(pWaiting)
    BY <1>1, <1>2, PTyped DEF InLine
  <2>2. Ordered(pWaiting')
    BY <1>2, <2>1, AtTheEnd
  <2>3. \A q \in Reqs : status'[q] = "future" => status[q] = "future" /\ q # r
    BY <1>6
  <2>4. \A q \in Reqs : status'[q] = "future" => r < q
    BY <1>2, <2>3, ReqsNat
  <2>5. QED
    BY <1>1, <1>2, <2>1, <2>2, <2>3, <2>4 DEF InLine
<1>9. pStep.handed = << >> /\ pStep.todo = << >> /\ pStep.scheduled = << >>
  BY <1>1, <1>3 DEF Handing, OneBatch, Forming
<1>10. Handing' /\ Forming'
  BY <1>2, <1>3, <1>9, NothingHanded, NothingFormed
<1>11. OneBatch'
  <2>1. r \notin Flying(pInflight)
    BY <1>5 DEF PHas
  <2>2. QED
    BY <1>1, <1>2, <1>3, <1>9, <2>1, NoElements DEF OneBatch
<1>12. QED
  BY <1>2, <1>4, <1>7, <1>8, <1>10, <1>11 DEF PairInv, Typed, PInv

(* What is handed over first is not with the prefill instance any more. *)
LEMMA LetGo ==
  ASSUME P!TypeOK, OneBatch, Handing, Forming, pStep.at = "handover"
  PROVE  /\ pStep.handed # << >> /\ Head(pStep.handed) \in Reqs
         /\ Head(pStep.handed) \in ToSet(pStep.handed)
         /\ PHas = ToSet(pRunning) \cup ToSet(pWaiting) \cup ToSet(pStep.handed)
         /\ Head(pStep.handed) \notin ToSet(pRunning) \cup ToSet(pWaiting)
                                      \cup ToSet(Tail(pStep.handed))
         /\ ToSet(Tail(pStep.handed)) \subseteq ToSet(pStep.handed)
         /\ pInflight = << >> /\ pStep.todo = << >> /\ pStep.scheduled = << >>
<1> DEFINE h == pStep.handed
<1>1. h # << >> /\ h \in Seq(Reqs)
  BY PFields DEF Handing
<1>2. /\ Head(h) \in Reqs /\ Head(h) \in ToSet(h) /\ Tail(h) \in Seq(Reqs)
      /\ ToSet(Tail(h)) \subseteq ToSet(h)
      /\ \A k \in DOMAIN Tail(h) : k + 1 \in DOMAIN h /\ Tail(h)[k] = h[k + 1]
  BY <1>1, TailSet
<1>3. pInflight = << >> /\ pStep.todo = << >> /\ pStep.scheduled = << >>
  BY DEF OneBatch, Forming
<1>4. Head(h) \notin ToSet(pRunning) /\ Head(h) \notin ToSet(pWaiting)
  BY <1>2 DEF Handing
<1>5. Head(h) \notin ToSet(Tail(h))
  <2>1. DOMAIN h = 1..Len(h) /\ Len(h) \in Nat \ {0} /\ DOMAIN Tail(h) \subseteq Nat \ {0}
    BY <1>1, <1>2, LenProperties, EmptySeq
  <2>2. Head(h) = h[1] /\ 1 \in DOMAIN h
    BY <1>1, <2>1, HeadTailProperties
  <2>3. ASSUME NEW k \in DOMAIN Tail(h) PROVE Tail(h)[k] # Head(h)
    <3>1. k + 1 # 1 /\ k + 1 \in DOMAIN h /\ Tail(h)[k] = h[k + 1]
      BY <1>2, <2>1
    <3>2. QED
      BY <2>2, <3>1 DEF Handing
  <2>4. QED
    BY <2>3 DEF ToSet
<1>6. PHas = ToSet(pRunning) \cup ToSet(pWaiting) \cup ToSet(h)
  BY <1>3, NoElements DEF PHas
<1>7. QED
  BY <1>1, <1>2, <1>3, <1>4, <1>5, <1>6

LEMMA PairTransfers ==
  ASSUME PairInv, NEW r \in Reqs, P!HandOver(r), D!AddDecode(r) \/ D!AddDecodeRaises(r)
  PROVE  PairInv'
<1>1. P!TypeOK /\ D!TypeOK /\ Begun /\ Apart /\ InLine /\ Handing /\ OneBatch /\ Forming
  BY DEF PairInv, Typed, PInv
<1>2. pStep.at = "handover" /\ r = Head(pStep.handed)
  BY DEF P!HandOver, P!At
<1> DEFINE rest == Tail(pStep.handed)
<1>3. /\ pStep.handed # << >> /\ r \in ToSet(pStep.handed)
      /\ PHas = ToSet(pRunning) \cup ToSet(pWaiting) \cup ToSet(pStep.handed)
      /\ r \notin ToSet(pRunning) \cup ToSet(pWaiting) \cup ToSet(rest)
      /\ ToSet(rest) \subseteq ToSet(pStep.handed)
      /\ pInflight = << >> /\ pStep.todo = << >> /\ pStep.scheduled = << >>
  BY <1>1, <1>2, LetGo
<1>4. /\ UNCHANGED <<pWaiting, pRunning, pInflight, pNextId, pFinished, pShipping, pRan, pBusy>>
      /\ pStep' \in StepsOf(P!Npus) /\ pStep'.todo = pStep.todo
      /\ pStep'.scheduled = pStep.scheduled /\ pStep'.handed = rest
      /\ pStep'.at = (IF Len(pStep.handed) = 1 THEN "schedule" ELSE "handover")
  BY <1>1, <1>2, <1>3, PHandOver
<1>5. /\ D!TypeOK' /\ DHas' \subseteq DHas \cup {r} /\ UNCHANGED <<computed, reached>>
      /\ \A q \in Reqs : status'[q] = status[q] \/ (q = r /\ status'[q] = "running")
  <2>1. CASE D!AddDecode(r)
    <3>1. /\ D!TypeOK' /\ DHas' = DHas \cup {r} /\ UNCHANGED <<computed, reached>>
          /\ status' = [status EXCEPT ![r] = "running"]
      BY <1>1, <2>1, DAddDecode
    <3>2. status \in Statuses
      BY <1>1, PTyped
    <3>3. QED
      BY <3>1, <3>2 DEF Statuses
  <2>2. CASE D!AddDecodeRaises(r)
    BY <1>1, <2>2, DAddDecodeRaises
  <2>3. QED
    BY <2>1, <2>2
<1>6. P!TypeOK'
  <2>1. /\ status' \in Statuses /\ computed' \in [Reqs -> Nat] /\ reached' \in [Reqs -> Nat]
        /\ isInit' \subseteq Reqs
    BY <1>5, SharedNext
  <2>2. QED
    BY <1>1, <1>4, <2>1, PTyped, PTypedNext
<1>7. Begun'
  BY <1>1, <1>5 DEF Begun
<1>8. PHas' = ToSet(pRunning) \cup ToSet(pWaiting) \cup ToSet(rest)
  BY <1>3, <1>4, NoElements DEF PHas
<1> HIDE DEF rest
<1>9. /\ PHas' \subseteq PHas \ {r} /\ PHas \subseteq Reqs /\ DHas \subseteq Reqs
  BY <1>1, <1>3, <1>8, PHasReqs, DHasReqs
<1>10. \A q \in Reqs : status'[q] = "future" => status[q] = "future" /\ q \notin PHas \cup DHas
  BY <1>1, <1>5, <1>9 DEF Apart
<1>11. Apart'
  <2>1. r \in PHas
    BY <1>3
  <2>2. QED
    BY <1>1, <1>5, <1>9, <1>10, <2>1 DEF Apart
<1>12. InLine'
  BY <1>1, <1>4, <1>10 DEF InLine
<1>13. Handing'
  <2>1. pStep.handed \in Seq(Reqs) /\ rest \in Seq(Reqs)
    BY <1>1, <1>3, PFields, TailSet DEF rest
  <2>2. \A k \in DOMAIN rest : k + 1 \in DOMAIN pStep.handed /\ rest[k] = pStep.handed[k + 1]
    BY <1>3, <2>1, TailSet DEF rest
  <2>3. DOMAIN rest \subseteq Nat /\ Len(rest) = Len(pStep.handed) - 1
        /\ Len(pStep.handed) \in Nat /\ Len(rest) \in Nat
    BY <1>3, <2>1, LenProperties, HeadTailProperties DEF rest
  <2>4. \A i, j \in DOMAIN rest : i # j => rest[i] # rest[j]
    <3>1. ASSUME NEW i \in DOMAIN rest, NEW j \in DOMAIN rest, i # j PROVE rest[i] # rest[j]
      <4>1. i + 1 # j + 1 /\ i + 1 \in DOMAIN pStep.handed /\ j + 1 \in DOMAIN pStep.handed
        BY <2>2, <2>3, <3>1
      <4>2. QED
        BY <1>1, <2>2, <4>1 DEF Handing
    <3>2. QED
      BY <3>1
  <2>5. \A q \in ToSet(rest) : /\ status'[q] = "finished"
                               /\ q \notin ToSet(pRunning) /\ q \notin ToSet(pWaiting)
    <3>1. \A q \in ToSet(rest) : q \in Reqs \ {r} /\ q \in ToSet(pStep.handed)
      BY <1>3, <1>9
    <3>2. QED
      BY <1>1, <1>5, <3>1 DEF Handing
  <2>6. pStep'.at = "handover" => rest # << >>
    <3>1. ASSUME pStep'.at = "handover", rest = << >> PROVE FALSE
      <4>1. Len(rest) = 0
        BY <3>1
      <4>2. Len(pStep.handed) = 1
        BY <2>3, <4>1
      <4>3. QED
        BY <1>4, <3>1, <4>2
    <3>2. QED
      BY <3>1
  <2>7. pStep'.at \notin {"complete", "handover"} => rest = << >>
    <3>1. ASSUME pStep'.at # "handover" PROVE rest = << >>
      <4>1. Len(rest) = 0
        BY <1>4, <2>3, <3>1
      <4>2. QED
        BY <2>1, <4>1, EmptySeq
    <3>2. QED
      BY <3>1
  <2>8. QED
    BY <1>4, <2>4, <2>5, <2>6, <2>7 DEF Handing
<1>14. Forming'
  BY <1>3, <1>4, NothingFormed
<1>15. OneBatch'
  <2>1. Len(<< >>) = 0
    OBVIOUS
  <2>2. QED
    BY <1>3, <1>4, <2>1, NoElements DEF OneBatch
<1>16. QED
  BY <1>5, <1>6, <1>7, <1>11, <1>12, <1>13, <1>14, <1>15 DEF PairInv, Typed, PInv

(* At most one batch of the prefill instance is in flight, and what is     *)
(* handed over has left it: the inductive invariant of a pair whose        *)
(* prefill instance has one stage (Scheduler.schedule and add_done of both,*)
(* Router.transfer_prefill_request between them).                          *)
THEOREM PairInductive == ASSUME PrefillStages = 1 PROVE PairSpec => []PairInv
<1>1. PairInit => PairInv
  BY PairBegins
<1>2. ASSUME PairInv, [PairNext]_pair PROVE PairInv'
  <2>1. P!TypeOK /\ D!TypeOK /\ Begun /\ Apart /\ PInv
    BY <1>2 DEF PairInv, Typed
  <2>2. CASE Arrive
    BY <1>2, <2>2, PairArrives DEF Arrive
  <2>3. ASSUME NEW n \in P!Npus, PrefillHandshake(n) PROVE PairInv'
    <3>1. (P!HandBack(n) \/ P!Poll(n)) /\ UNCHANGED decode
      BY <2>3 DEF PrefillHandshake, P!Handshake
    <3>2. PStays
      BY <2>1, <3>1, PHandBack, PPoll
    <3>3. PInv'
      BY <2>1, <3>1, IHandBack, IPoll
    <3>4. QED
      BY <1>2, <3>1, <3>2, <3>3, PStep
  <2>4. ASSUME NEW n \in D!Npus, DecodeHandshake(n) PROVE PairInv'
    <3>1. (D!HandBack(n) \/ D!Poll(n)) /\ UNCHANGED prefill
      BY <2>4 DEF DecodeHandshake, D!Handshake
    <3>2. DStays
      BY <2>1, <3>1, DHandBack, DPoll
    <3>3. QED
      BY <1>2, <3>1, <3>2, DStep
  <2>5. CASE PrefillInStep
    <3>1. (P!InStep \/ P!CompletePrefill) /\ UNCHANGED decode
      BY <2>5 DEF PrefillInStep
    <3>2. PStays
      BY <2>1, <3>1, PInStep, PCompletePrefill
    <3>3. PInv'
      <4>1. CASE P!CompletePrefill
        BY <2>1, <4>1, ICompletePrefill
      <4>2. CASE P!InStep
        BY <2>1, <4>2, ISkipFinished, ICompleteRequest, IDropBatch, IJoinBatch, IPasses,
           IServeRunning, IPreemptTail, IAdmitWaiting, IBuildBatch DEF P!InStep
      <4>3. QED
        BY <3>1, <4>1, <4>2
    <3>4. QED
      BY <1>2, <3>1, <3>2, <3>3, PStep
  <2>6. CASE DecodeInStep
    <3>1. D!InStep /\ UNCHANGED prefill
      BY <2>6 DEF DecodeInStep
    <3>2. DStays
      BY <2>1, <3>1, DInStep
    <3>3. QED
      BY <1>2, <3>1, <3>2, DStep
  <2>7. CASE Transfer
    <3>1. PICK r \in Reqs : P!HandOver(r) /\ (D!AddDecode(r) \/ D!AddDecodeRaises(r))
      BY <2>7 DEF Transfer
    <3>2. QED
      BY <1>2, <3>1, PairTransfers
  <2>8. CASE UNCHANGED pair
    <3>1. UNCHANGED requests /\ UNCHANGED prefill /\ UNCHANGED decode
      BY <2>8 DEF pair
    <3>2. DStays
      <4>1. UNCHANGED <<status, computed, reached, isInit>>
        BY <3>1 DEF requests
      <4>2. D!TypeOK'
        BY <2>1, <3>1, <4>1, DTyped, DTypedNext DEF decode
      <4>3. DHas' = DHas
        BY <3>1 DEF decode, DHas
      <4>4. Touches(DHas)
        BY <2>1, <4>1, DTyped DEF Touches
      <4>5. QED
        BY <4>2, <4>3, <4>4 DEF DStays
    <3>3. QED
      BY <1>2, <3>1, <3>2, DStep
  <2>9. QED
    BY <1>2, <2>2, <2>3, <2>4, <2>5, <2>6, <2>7, <2>8 DEF PairNext
<1>3. QED
  BY <1>1, <1>2, PTL DEF PairSpec

(* With one stage, no batch of the prefill instance is in flight with a    *)
(* request the decode instance runs or has finished, so none is completed  *)
(* on both sides (CompletePrefill after Scheduler.add_decode).             *)
THEOREM LetsGo == ASSUME PrefillStages = 1 PROVE PairSpec => []PrefillLetsGo
<1>1. ASSUME PairInv PROVE PrefillLetsGo
  <2>1. ASSUME NEW r \in Reqs, P!InFlight(r) PROVE r \in PHas
    <3>1. PICK k \in DOMAIN pInflight : \E w \in P!ToSet(pInflight[k].work) : w.req = r
      BY <2>1 DEF P!InFlight
    <3>2. r \in Of(pInflight[k].work)
      BY <3>1, SameToSet DEF Of
    <3>3. pInflight[k] \in ToSet(pInflight)
      BY DEF ToSet
    <3>4. r \in Flying(pInflight)
      BY <3>2, <3>3 DEF Flying
    <3>5. QED
      BY <3>4 DEF PHas
  <2>2. PHas \cap DHas = {}
    BY <1>1 DEF PairInv, Apart
  <2>3. ToSet(dRunning) \cup ToSet(dFinished) \subseteq DHas
    BY DEF DHas
  <2>4. QED
    BY <2>1, <2>2, <2>3 DEF PrefillLetsGo
<1>2. QED
  BY <1>1, PairInductive, PTL

-----------------------------------------------------------------------------
(* Nothing is found in a cache that is turned off. *)
LEMMA PNoHit ==
  ASSUME PrefillCaching = FALSE, NEW kv, NEW r \in Reqs, NEW len \in Nat \ {0}
  PROVE  P!GetComputedBlocks(kv, r, len) = P!NoHit
<1>1. /\ BlockSize \in Nat \ {0} /\ Len(Chain[r]) \in Nat
      /\ \A t \in DOMAIN Tiers : Tiers[t].factor \in Nat \ {0}
  <2>1. /\ BlockSize \in Nat \ {0} /\ Chain \in [Reqs -> Seq(Hashes)]
        /\ Tiers \in Seq([blocks : Nat \ {0}, factor : Nat \ {0}])
    BY PairAssumption DEF P!KVAssumption
  <2>2. Chain[r] \in Seq(Hashes) /\ \A t \in DOMAIN Tiers : Tiers[t] \in [blocks : Nat \ {0}, factor : Nat \ {0}]
    BY <2>1, ElementType
  <2>3. QED
    BY <2>1, <2>2, LenProperties
<1>2. \A p, h : P!CachedBlock(p, h) = P!NoBlock
  BY DEF P!CachedBlock
<1>3. P!NpuHits(kv, r, len) = 0
  <2> DEFINE max == P!Lesser(P!MaxHitBlocks(len), Len(Chain[r]))
  <2>1. max \in Nat
    <3>1. (len - 1) \div BlockSize \in Nat
      BY <1>1
    <3>2. QED
      BY <1>1, <3>1 DEF P!Lesser, P!MaxHitBlocks
  <2>2. P!NpuHits(kv, r, len) =
          CHOOSE k \in 0..max : (\A i \in 1..k : FALSE) /\ (k < max => TRUE)
    BY <1>2 DEF P!NpuHits
  <2> HIDE DEF max
  <2>3. 0 \in 0..max /\ (\A i \in 1..0 : FALSE)
    BY <2>1
  <2>4. \A k \in 0..max : (\A i \in 1..k : FALSE) => k = 0
    BY <2>1
  <2>5. QED
    BY <2>2, <2>3, <2>4
<1>4. ASSUME NEW t \in DOMAIN Tiers
      PROVE  P!Gained(kv, r, len, t, 0) = 0 /\ BlockSize * Tiers[t].factor > 0
  <2> DEFINE coarse == BlockSize * Tiers[t].factor
  <2> DEFINE end    == P!Larger(0, P!MaxCoarse(len, coarse))
  <2>1. coarse \in Nat \ {0}
    BY <1>1
  <2> HIDE DEF coarse
  <2>2. P!MaxCoarse(len, coarse) \in Nat /\ 0 \div coarse = 0
    BY <2>1 DEF P!MaxCoarse
  <2>3. end \in Nat
    BY <2>2 DEF P!Larger
  <2>4. \A i : ~P!CoarseHit(kv, r, t, i)
    BY <1>2 DEF P!CoarseHit
  <2>5. P!Gained(kv, r, len, t, 0) =
          coarse * (CHOOSE k \in 0..end : (\A i \in 0..(k - 1) : FALSE)
                                          /\ (k < P!MaxCoarse(len, coarse) => TRUE)) - 0
    BY <2>2, <2>4 DEF P!Gained, coarse
  <2> HIDE DEF end
  <2>6. 0 \in 0..end /\ (\A i \in 0..(0 - 1) : FALSE)
    BY <2>3
  <2>7. \A k \in 0..end : (\A i \in 0..(k - 1) : FALSE) => k = 0
    BY <2>3
  <2>8. P!Gained(kv, r, len, t, 0) = coarse * 0 - 0
    BY <2>5, <2>6, <2>7, SMTT(30)
  <2>9. QED
    BY <2>1, <2>8 DEF coarse
<1>5. P!LowerHit(kv, r, len, 0) = 0
  <2>1. {t \in DOMAIN Tiers : P!Gained(kv, r, len, t, 0) >= BlockSize * Tiers[t].factor} = {}
    <3>1. \A t \in DOMAIN Tiers : BlockSize * Tiers[t].factor \in Nat
      BY <1>1
    <3>2. QED
      BY <1>4, <3>1
  <2>2. QED
    BY <2>1 DEF P!LowerHit
<1>6. 0 * BlockSize = 0
  BY <1>1
<1>7. [i \in 1..0 |-> P!CachedBlock(kv.npu, Chain[r][i])] = << >>
  OBVIOUS
<1>8. QED
  BY <1>3, <1>5, <1>6, <1>7 DEF P!GetComputedBlocks, P!NoHit

-----------------------------------------------------------------------------
(* What the prefill instance sends.                                        *)

LEMMA NextNotHit ==
  ASSUME P!TypeOK, Begun, PrefillCaching = FALSE, pWaiting # << >>
  PROVE  P!NextBefore = computed[Head(pWaiting)]
<1> DEFINE r == Head(pWaiting)
<1>1. r \in Reqs /\ computed[r] \in Nat /\ P!NextBefore = computed[r] + P!HitTokens(P!NextHit)
  BY PNext, PTyped
<1>2. reached[r] \in Nat \ {0}
  <2>1. /\ Prompt[r] \in Nat \ {0} /\ reached[r] \in Nat /\ reached[r] >= Prompt[r]
    BY <1>1, PTyped, PairAssumption DEF P!SchedulerAssumption, Begun
  <2>2. QED
    BY <2>1
<1>3. P!HitTokens(P!NextHit) = 0
  <2>1. P!GetComputedBlocks(pKv, r, reached[r]) = P!NoHit
    BY <1>1, <1>2, PNoHit
  <2>2. P!HitTokens(P!NoHit) = 0
    BY DEF P!HitTokens, P!NoHit
  <2>3. QED
    BY <2>1, <2>2 DEF P!NextHit
<1>4. QED
  BY <1>1, <1>3

(* What is computed of a request that has not gone over has been sent, and *)
(* what is scheduled begins where it is computed to.                       *)
Sending ==
  /\ \A r \in Reqs : r \in PHas \/ status[r] = "future" => computed[r] <= pShipping.sent[r]
  /\ \A w \in ToSet(pStep.scheduled) : w.before = computed[w.req]
  /\ \A r \in ToSet(pStep.handed) : pShipping.sent[r] >= Prompt[r]

(* Steps that neither compute nor send. *)
LEMMA SendsNothing ==
  ASSUME Sending, PHas \subseteq Reqs, PHas' \subseteq PHas, pShipping'.sent = pShipping.sent,
         \A r \in Reqs : status'[r] = "future" => status[r] = "future",
         \A r \in Reqs : r \in PHas \/ status[r] = "future" => computed'[r] = computed[r],
         Of(pStep.scheduled) \subseteq PHas,
         ToSet(pStep'.scheduled) \subseteq ToSet(pStep.scheduled),
         \A r \in ToSet(pStep'.handed) : r \in ToSet(pStep.handed) \/ pShipping.sent[r] >= Prompt[r]
  PROVE  Sending'
<1>1. \A r \in Reqs : r \in PHas' \/ status'[r] = "future" => computed'[r] <= pShipping'.sent[r]
  BY DEF Sending
<1>2. \A w \in ToSet(pStep'.scheduled) : w.before = computed'[w.req]
  <2>1. \A w \in ToSet(pStep.scheduled) : w.req \in PHas
    BY DEF Of
  <2>2. QED
    BY <2>1 DEF Sending
<1>3. QED
  BY <1>1, <1>2 DEF Sending

LEMMA SStays ==
  ASSUME P!TypeOK, Sending, PStays, UNCHANGED <<computed, pShipping>>,
         ToSet(pStep'.scheduled) \subseteq ToSet(pStep.scheduled),
         ToSet(pStep'.handed) \subseteq ToSet(pStep.handed)
  PROVE  Sending'
<1>1. PHas \subseteq Reqs /\ Of(pStep.scheduled) \subseteq PHas
  BY PHasReqs DEF PHas
<1>2. PHas' \subseteq PHas /\ \A r \in Reqs : status'[r] = "future" => status[r] = "future"
  BY DEF PStays, Touches
<1>3. QED
  BY <1>1, <1>2, SendsNothing

(* The steps that neither schedule nor hand over. *)
LEMMA PassesBy ==
  ASSUME P!TypeOK,
         \/ \E n \in P!Npus : P!HandBack(n) \/ P!Poll(n)
         \/ P!SkipFinished \/ P!CompleteRequest \/ P!DropBatch \/ P!JoinBatch
         \/ P!Pass \/ P!NothingToBuild \/ P!StartSchedule \/ P!SkipRunning
         \/ P!EndRunning \/ P!EndWaiting
  PROVE  /\ UNCHANGED <<computed, pShipping>>
         /\ ToSet(pStep'.scheduled) \subseteq ToSet(pStep.scheduled)
         /\ ToSet(pStep'.handed) \subseteq ToSet(pStep.handed)
<1>1. UNCHANGED <<computed, pShipping>>
  BY DEF P!HandBack, P!Poll, P!SkipFinished, P!CompleteRequest, P!DropBatch, P!JoinBatch, P!Pass,
     P!NothingToBuild, P!StartSchedule, P!SkipRunning, P!EndRunning, P!EndWaiting, P!requests
<1>2. pStep \in StepsOf(P!Npus)
  BY PTyped
<1>3. \/ pStep'.scheduled = << >> /\ pStep'.handed = << >>
      \/ pStep'.scheduled = pStep.scheduled /\ pStep'.handed = pStep.handed
  <2>1. CASE \E n \in P!Npus : P!HandBack(n) \/ P!Poll(n)
    BY <2>1 DEF P!HandBack, P!Poll, P!Idle
  <2>2. CASE P!SkipFinished \/ P!CompleteRequest \/ P!StartSchedule \/ P!SkipRunning
    BY <1>2, <2>2 DEF P!SkipFinished, P!CompleteRequest, P!StartSchedule, P!SkipRunning, StepsOf
  <2>3. CASE P!DropBatch \/ P!EndRunning \/ P!EndWaiting
    BY <1>2, <2>3 DEF P!DropBatch, P!EndRunning, P!EndWaiting, P!Goto, StepsOf
  <2>4. CASE P!JoinBatch \/ P!Pass \/ P!NothingToBuild
    BY <2>4 DEF P!JoinBatch, P!Pass, P!NothingToBuild, P!Return, P!Idle
  <2>5. QED
    BY <2>1, <2>2, <2>3, <2>4
<1>4. QED
  BY SMTT(30), <1>1, <1>3, NoElements

LEMMA SPasses ==
  ASSUME P!TypeOK, Sending, PStays,
         \/ \E n \in P!Npus : P!HandBack(n) \/ P!Poll(n)
         \/ P!SkipFinished \/ P!CompleteRequest \/ P!DropBatch \/ P!JoinBatch
         \/ P!Pass \/ P!NothingToBuild \/ P!StartSchedule \/ P!SkipRunning
         \/ P!EndRunning \/ P!EndWaiting
  PROVE  Sending'
  BY PassesBy, SStays

LEMMA SCompletePrefill ==
  ASSUME P!TypeOK, Sending, PStays, P!CompletePrefill
  PROVE  Sending'
<1> DEFINE r == Head(pStep.todo).req
<1>1. /\ pStep.todo # << >> /\ computed[r] >= Prompt[r]
      /\ pStep' = [pStep EXCEPT !.todo = Tail(@), !.handed = Append(@, r)]
      /\ UNCHANGED <<computed, pShipping>>
  BY DEF P!CompletePrefill, P!HandedOver, P!PrefillDone
<1>2. r \in Reqs /\ r \in Of(pStep.todo)
  BY <1>1, PFields, LessWork
<1> HIDE DEF r
<1>3. /\ pStep'.scheduled = pStep.scheduled /\ pStep'.handed = Append(pStep.handed, r)
  BY <1>1, PTyped DEF StepsOf
<1>4. ToSet(Append(pStep.handed, r)) = ToSet(pStep.handed) \cup {r}
  BY <1>2, PFields, AppendSet
<1>5. pShipping.sent[r] >= Prompt[r]
  <2>1. r \in PHas
    BY <1>2 DEF PHas
  <2>2. /\ computed[r] \in Nat /\ pShipping.sent[r] \in Nat /\ Prompt[r] \in Nat
    BY <1>2, PTyped, PairAssumption DEF P!SchedulerAssumption
  <2>3. QED
    BY <1>1, <1>2, <2>1, <2>2 DEF Sending
<1>6. PHas \subseteq Reqs /\ Of(pStep.scheduled) \subseteq PHas
  BY PHasReqs DEF PHas
<1>7. PHas' \subseteq PHas /\ \A q \in Reqs : status'[q] = "future" => status[q] = "future"
  BY DEF PStays, Touches
<1>8. QED
  BY <1>1, <1>3, <1>4, <1>5, <1>6, <1>7, SendsNothing

LEMMA SServeRunning ==
  ASSUME P!TypeOK, Sending, PStays, PInv, P!ServeRunning
  PROVE  Sending'
<1> DEFINE n == P!NumNewTokens(P!Current)
<1>1. /\ P!Serving /\ pStep.at = "running" /\ n > 0
      /\ P!Schedule(P!Current, n, computed[P!Current])
      /\ UNCHANGED <<status, computed, pShipping>>
  BY DEF P!ServeRunning, P!Serving, P!At, P!requests
<1>2. n \in Nat /\ n <= pStep.budget
  BY <1>1, PNewTokens
<1>3. P!Current \in Reqs /\ computed[P!Current] \in Nat
  BY <1>1, PServing
<1> HIDE DEF n
<1>4. /\ pStep'.handed = pStep.handed
      /\ ToSet(pStep'.scheduled) = ToSet(pStep.scheduled)
           \cup {[req |-> P!Current, n |-> n, before |-> computed[P!Current]]}
  BY <1>1, <1>2, <1>3, PSchedule
<1>5. PHas' \subseteq PHas
  BY DEF PStays
<1>6. \A w \in ToSet(pStep'.scheduled) : w.before = computed'[w.req]
  BY <1>1, <1>4 DEF Sending
<1>7. \A r \in Reqs : r \in PHas' \/ status'[r] = "future" => computed'[r] <= pShipping'.sent[r]
  BY <1>1, <1>5 DEF Sending
<1>8. QED
  BY <1>1, <1>4, <1>6, <1>7 DEF Sending

LEMMA SPreemptTail ==
  ASSUME P!TypeOK, Sending, PStays, PInv, P!PreemptTail
  PROVE  Sending'
<1> DEFINE v == P!Victim
<1>1. /\ P!Serving /\ pStep.at = "running"
      /\ computed' = [computed EXCEPT ![v] = 0] /\ pShipping' = pShipping
      /\ pStep' = [pStep EXCEPT !.preempted = @ \cup {v},
                                !.at = IF v = P!Current THEN "build" ELSE @]
  BY DEF P!PreemptTail, P!Serving, P!At
<1>2. v \in Reqs /\ v \notin Of(pStep.scheduled)
  BY <1>1, VictimFacts
<1> HIDE DEF v
<1>3. pStep'.scheduled = pStep.scheduled /\ pStep'.handed = pStep.handed
  BY <1>1, PTyped DEF StepsOf
<1>4. PHas' \subseteq PHas /\ \A q \in Reqs : status'[q] = "future" => status[q] = "future"
  BY DEF PStays, Touches
<1>5. \A r \in Reqs : computed'[r] = IF r = v THEN 0 ELSE computed[r]
  BY <1>1, PTyped
<1>6. \A r \in Reqs : r \in PHas' \/ status'[r] = "future" => computed'[r] <= pShipping'.sent[r]
  <2>1. \A r \in Reqs : pShipping.sent[r] \in Nat
    BY PTyped
  <2>2. QED
    BY <1>1, <1>4, <1>5, <2>1 DEF Sending
<1>7. \A w \in ToSet(pStep.scheduled) : w.before = computed'[w.req]
  <2>1. \A w \in ToSet(pStep.scheduled) : w.req \in Reqs /\ w.req # v
    <3>1. \A w \in ToSet(pStep.scheduled) : w \in Work
      BY PFields, ElementType
    <3>2. QED
      BY <1>2, <3>1 DEF Of, Work
  <2>2. QED
    BY <1>5, <2>1 DEF Sending
<1>8. QED
  BY <1>1, <1>3, <1>6, <1>7 DEF Sending

LEMMA SAdmitWaiting ==
  ASSUME P!TypeOK, Begun, Sending, PStays, PInv, PrefillCaching = FALSE, P!AdmitWaiting
  PROVE  Sending'
<1> DEFINE r == Head(pWaiting)
<1> DEFINE n == P!NextTokens
<1>1. /\ P!Admissible /\ pWaiting # << >>
      /\ computed' = [computed EXCEPT ![r] = P!NextBefore]
      /\ P!Schedule(r, n, P!NextBefore)
      /\ pShipping' = [pShipping EXCEPT !.hit[r] = P!HitTokens(P!NextHit)]
  BY DEF P!AdmitWaiting, P!Admissible
<1>2. r \in Reqs /\ n \in Nat /\ n <= pStep.budget /\ P!NextBefore = computed[r]
  BY <1>1, PNext, NextNotHit
<1> HIDE DEF r, n
<1>3. computed' = computed /\ pShipping'.sent = pShipping.sent /\ computed[r] \in Nat
  BY <1>1, <1>2, PTyped
<1>4. /\ pStep'.handed = pStep.handed
      /\ ToSet(pStep'.scheduled) = ToSet(pStep.scheduled)
           \cup {[req |-> r, n |-> n, before |-> computed[r]]}
  BY <1>1, <1>2, <1>3, PSchedule
<1>5. PHas' \subseteq PHas /\ \A q \in Reqs : status'[q] = "future" => status[q] = "future"
  BY DEF PStays, Touches
<1>6. \A w \in ToSet(pStep'.scheduled) : w.before = computed'[w.req]
  BY <1>3, <1>4 DEF Sending
<1>7. \A q \in Reqs : q \in PHas' \/ status'[q] = "future" => computed'[q] <= pShipping'.sent[q]
  BY <1>3, <1>5 DEF Sending
<1>8. QED
  BY <1>3, <1>4, <1>6, <1>7 DEF Sending

LEMMA SBuildBatch ==
  ASSUME P!TypeOK, Sending, PStays, PInv, P!BuildBatch
  PROVE  Sending'
<1>1. /\ pStep' = P!Idle /\ status' = status
      /\ computed' = [r \in Reqs |-> IF P!InBatch(r)
                                     THEN P!Advanced(P!WorkOf(r).before, P!WorkOf(r).n)
                                     ELSE computed[r]]
      /\ pShipping' = [pShipping EXCEPT !.sent = P!Sent]
  BY DEF P!BuildBatch, P!Return
<1>2. pStep'.scheduled = << >> /\ pStep'.handed = << >>
  BY <1>1 DEF P!Idle
<1>3. \A r \in Reqs : /\ computed[r] \in Nat
                      /\ pShipping.sent[r] \in Nat /\ pShipping.hit[r] \in Nat
  BY PTyped
<1>4. ASSUME NEW r \in Reqs, r \in PHas' \/ status'[r] = "future"
      PROVE  computed'[r] <= pShipping'.sent[r]
  <2>1. computed[r] <= pShipping.sent[r]
    BY <1>1, <1>4 DEF Sending, PStays
  <2>2. pShipping'.sent[r] = pShipping.sent[r] + IF P!InBatch(r) THEN P!Shipped(P!WorkOf(r)) ELSE 0
    BY <1>1, PTyped DEF P!Sent
  <2>3. CASE ~P!InBatch(r)
    BY <1>1, <1>3, <2>1, <2>2, <2>3
  <2>4. CASE P!InBatch(r)
    <3> DEFINE w == P!WorkOf(r)
    <3>1. w \in ToSet(pStep.scheduled) /\ w.req = r /\ w.n \in Nat /\ w.before \in Nat
      <4>1. w \in ToSet(pStep.scheduled) /\ w.req = r
        BY <2>4, SameToSet DEF P!InBatch, P!WorkOf
      <4>2. w \in Work
        BY <4>1, PFields, ElementType
      <4>3. QED
        BY <4>1, <4>2 DEF Work
    <3>2. computed'[r] = w.before + w.n /\ w.before = computed[r]
      BY <1>1, <2>4, <3>1 DEF P!Advanced, Sending
    <3>3. pShipping'.sent[r] = pShipping.sent[r] + (w.n + IF w.before = 0 THEN pShipping.hit[r] ELSE 0)
      BY <2>2, <2>4, <3>1 DEF P!Shipped
    <3> HIDE DEF w
    <3>4. QED
      BY <1>3, <2>1, <3>1, <3>2, <3>3
  <2>5. QED
    BY <2>3, <2>4
<1>5. QED
  BY <1>2, <1>4, NoElements DEF Sending

(* The prefill instance has told its batches to send the whole prompt when *)
(* a request goes over, also after a preemption, unless part of it was     *)
(* found in its prefix cache (pd_kv_send_tokens in _build_batch).          *)
THEOREM ShipsAll ==
  ASSUME PrefillStages = 1, PrefillCaching = FALSE
  PROVE  PairSpec => []ShipsWholePrompt
<1>1. PairInit => Sending
  <2>1. ASSUME PairInit PROVE Sending
    <3>1. /\ computed = [r \in Reqs |-> 0] /\ pStep = P!Idle
          /\ pShipping = [hit |-> [r \in Reqs |-> 0], sent |-> [r \in Reqs |-> 0]]
      BY <2>1 DEF PairInit, P!Init
    <3>2. pStep.scheduled = << >> /\ pStep.handed = << >>
      BY <3>1 DEF P!Idle
    <3>3. QED
      BY <3>1, <3>2, NoElements DEF Sending
  <2>2. QED
    BY <2>1
<1>2. ASSUME PairInv, PairInv', Sending, [PairNext]_pair PROVE Sending'
  <2>1. P!TypeOK /\ D!TypeOK /\ Begun /\ Apart /\ PInv /\ PHas \subseteq Reqs
        /\ Of(pStep.scheduled) \subseteq PHas
    BY <1>2, PHasReqs DEF PairInv, Typed, PHas
  <2>2. CASE Arrive
    <3>1. PICK r \in Reqs : P!AddRequest(r)
      BY <2>2 DEF Arrive
    <3>2. /\ PHas' = PHas \cup {r} /\ status[r] = "future"
          /\ status' = [status EXCEPT ![r] = "waiting"]
          /\ UNCHANGED <<computed, pStep, pShipping>>
      BY <2>1, <3>1, PAddRequest DEF PInv
    <3>3. \A q \in Reqs : status'[q] = "future" => status[q] = "future"
      BY <2>1, <3>2, PTyped DEF Statuses
    <3>4. QED
      BY <1>2, <3>2, <3>3 DEF Sending
  <2>3. ASSUME NEW n \in P!Npus, PrefillHandshake(n) PROVE Sending'
    <3>1. P!HandBack(n) \/ P!Poll(n)
      BY <2>3 DEF PrefillHandshake, P!Handshake
    <3>2. PStays
      BY <2>1, <3>1, PHandBack, PPoll
    <3>3. QED
      BY <1>2, <2>1, <3>1, <3>2, SPasses
  <2>4. CASE PrefillInStep
    <3>1. P!InStep \/ P!CompletePrefill
      BY <2>4 DEF PrefillInStep
    <3>2. PStays
      BY <2>1, <3>1, PInStep, PCompletePrefill
    <3>3. QED
      BY <1>2, <2>1, <3>1, <3>2, SPasses, SCompletePrefill, SServeRunning, SPreemptTail,
         SAdmitWaiting, SBuildBatch DEF P!InStep
  <2>5. CASE (\E n \in D!Npus : DecodeHandshake(n)) \/ DecodeInStep \/ UNCHANGED pair
    <3>1. UNCHANGED prefill
      BY <2>5 DEF DecodeHandshake, DecodeInStep, pair
    <3>2. DStays \/ UNCHANGED <<status, computed>>
      <4>1. CASE \E n \in D!Npus : DecodeHandshake(n)
        BY <2>1, <4>1, DHandBack, DPoll DEF DecodeHandshake, D!Handshake
      <4>2. CASE DecodeInStep
        BY <2>1, <4>2, DInStep DEF DecodeInStep
      <4>3. CASE UNCHANGED pair
        BY <4>3 DEF pair, requests
      <4>4. QED
        BY <2>5, <4>1, <4>2, <4>3
    <3>3. /\ \A r \in Reqs : status'[r] = "future" => status[r] = "future"
          /\ \A r \in Reqs : r \in PHas \/ status[r] = "future" => computed'[r] = computed[r]
      BY <2>1, <3>2 DEF DStays, Touches, Apart
    <3>4. PHas' = PHas /\ pStep' = pStep /\ pShipping' = pShipping
      BY <3>1 DEF prefill, PHas
    <3>5. QED
      BY <1>2, <2>1, <3>3, <3>4, SendsNothing
  <2>6. CASE Transfer
    <3>1. PICK r \in Reqs : P!HandOver(r) /\ (D!AddDecode(r) \/ D!AddDecodeRaises(r))
      BY <2>6 DEF Transfer
    <3>2. pStep.at = "handover" /\ r = Head(pStep.handed)
      BY <3>1 DEF P!HandOver, P!At
    <3>3. /\ pStep.handed # << >> /\ pStep.scheduled = << >>
          /\ ToSet(Tail(pStep.handed)) \subseteq ToSet(pStep.handed)
      BY <2>1, <3>2, LetGo DEF PInv
    <3>4. /\ UNCHANGED <<pWaiting, pRunning, pInflight, pShipping>>
          /\ pStep'.todo = pStep.todo /\ pStep'.scheduled = pStep.scheduled
          /\ pStep'.handed = Tail(pStep.handed)
      BY <2>1, <3>1, <3>2, <3>3, PHandOver
    <3>5. PHas' \subseteq PHas
      BY <3>3, <3>4 DEF PHas
    <3>6. computed' = computed /\ \A q \in Reqs : status'[q] = "future" => status[q] = "future"
      <4>1. CASE D!AddDecode(r)
        BY <2>1, <4>1, DAddDecode, PTyped DEF Statuses
      <4>2. CASE D!AddDecodeRaises(r)
        BY <2>1, <4>2, DAddDecodeRaises
      <4>3. QED
        BY <3>1, <4>1, <4>2
    <3>7. QED
      BY <1>2, <2>1, <3>3, <3>4, <3>5, <3>6, SendsNothing
  <2>7. QED
    BY <1>2, <2>2, <2>3, <2>4, <2>5, <2>6 DEF PairNext
<1>3. Sending => ShipsWholePrompt
  BY SameToSet DEF Sending, ShipsWholePrompt
<1>4. QED
  BY <1>1, <1>2, <1>3, PairInductive, PTL DEF PairSpec

-----------------------------------------------------------------------------
(* On which side a request holds blocks.                                   *)
HeldBy(kv, S) == DOMAIN kv.table = Reqs /\ \A r \in Reqs \ S : kv.table[r] = << >>
PHolds == HeldBy(pKv, ToSet(pRunning))
DHolds == HeldBy(dKv, ToSet(dRunning))

(* Of what the manager does with a request, no other notices anything. *)
Alters(kv, new, r) ==
  /\ DOMAIN new.table = DOMAIN kv.table
  /\ \A q \in DOMAIN kv.table \ {r} : new.table[q] = kv.table[q]

LEMMA PCaches == \A kv, r, tokens : P!CacheBlocks(kv, r, tokens).table = kv.table
BY DEF P!CacheBlocks

LEMMA PAllocates ==
  ASSUME NEW kv, NEW r, NEW done, NEW len, NEW n, NEW hit
  PROVE  Alters(kv, P!AllocateSlots(kv, r, done, len, n, hit), r)
<1> DEFINE claimed == P!ClaimHits(kv, r, hit)
<1> DEFINE grown == P!AllocateNewBlocks(claimed, r, done + P!HitTokens(hit) + n)
<1>1. Alters(kv, claimed, r)
  BY DEF Alters, P!ClaimHits
<1>2. Alters(claimed, grown, r)
  <2> HIDE DEF claimed
  <2>1. QED
    BY DEF Alters, P!AllocateNewBlocks
<1>3. P!AllocateSlots(kv, r, done, len, n, hit).table = grown.table
  BY PCaches DEF P!AllocateSlots
<1> HIDE DEF claimed, grown
<1>4. QED
  BY <1>1, <1>2, <1>3 DEF Alters

LEMMA PFrees ==
  ASSUME NEW kv, NEW r
  PROVE  /\ Alters(kv, P!Free(kv, r), r)
         /\ r \in DOMAIN kv.table => P!Free(kv, r).table[r] = << >>
BY DEF Alters, P!Free

LEMMA DCaches == \A kv, r, tokens : D!CacheBlocks(kv, r, tokens).table = kv.table
BY DEF D!CacheBlocks

LEMMA DAllocates ==
  ASSUME NEW kv, NEW r, NEW done, NEW len, NEW n, NEW hit
  PROVE  Alters(kv, D!AllocateSlots(kv, r, done, len, n, hit), r)
<1> DEFINE claimed == D!ClaimHits(kv, r, hit)
<1> DEFINE grown == D!AllocateNewBlocks(claimed, r, done + D!HitTokens(hit) + n)
<1>1. Alters(kv, claimed, r)
  BY DEF Alters, D!ClaimHits
<1>2. Alters(claimed, grown, r)
  <2> HIDE DEF claimed
  <2>1. QED
    BY DEF Alters, D!AllocateNewBlocks
<1>3. D!AllocateSlots(kv, r, done, len, n, hit).table = grown.table
  BY DCaches DEF D!AllocateSlots
<1> HIDE DEF claimed, grown
<1>4. QED
  BY <1>1, <1>2, <1>3 DEF Alters

LEMMA DFrees ==
  ASSUME NEW kv, NEW r
  PROVE  /\ Alters(kv, D!Free(kv, r), r)
         /\ r \in DOMAIN kv.table => D!Free(kv, r).table[r] = << >>
BY DEF Alters, D!Free

(* The prefill instance in a step: what it has given to its requests only.    *)
LEMMA PHoldsComplete ==
  ASSUME P!TypeOK, PHolds, P!CompleteRequest
  PROVE  PHolds'
<1> DEFINE r == Head(pStep.todo).req
<1>1. pRunning \in Seq(Reqs) /\ r \in Reqs
  BY PTyped, PFields, LessWork DEF P!CompleteRequest
<1>2. PICK cached \in {pKv, P!CacheBlocks(pKv, r, computed[r])} :
        \/ pKv' = cached /\ pRunning' = pRunning
        \/ pKv' = P!Free(cached, r) /\ pRunning' = P!Without(pRunning, r)
  BY DEF P!CompleteRequest
<1>3. cached.table = pKv.table
  BY <1>2, PCaches
<1> HIDE DEF r
<1>4. CASE pKv' = cached /\ pRunning' = pRunning
  BY <1>3, <1>4 DEF PHolds, HeldBy
<1>5. CASE pKv' = P!Free(cached, r) /\ pRunning' = P!Without(pRunning, r)
  <2>1. ToSet(pRunning') = ToSet(pRunning) \ {r}
    BY <1>1, <1>5, WithoutSet
  <2>2. Alters(cached, pKv', r) /\ (r \in DOMAIN cached.table => pKv'.table[r] = << >>)
    BY <1>5, PFrees
  <2>3. QED
    BY <1>3, <2>1, <2>2 DEF PHolds, HeldBy, Alters
<1>6. QED
  BY <1>2, <1>4, <1>5

LEMMA PHoldsServe ==
  ASSUME P!TypeOK, PHolds, P!ServeRunning
  PROVE  PHolds'
<1>1. P!Current \in ToSet(pRunning) /\ pRunning' = pRunning
  BY PServing DEF P!ServeRunning, P!queues
<1>2. Alters(pKv, pKv', P!Current)
  BY PAllocates DEF P!ServeRunning
<1>3. QED
  BY <1>1, <1>2 DEF PHolds, HeldBy, Alters

LEMMA PHoldsPreempt ==
  ASSUME P!TypeOK, PHolds, P!PreemptTail
  PROVE  PHolds'
<1>1. ToSet(pRunning') = ToSet(pRunning) \ {P!Victim}
  BY PTyped, WithoutSet DEF P!PreemptTail
<1>2. /\ Alters(pKv, pKv', P!Victim)
      /\ P!Victim \in DOMAIN pKv.table => pKv'.table[P!Victim] = << >>
  BY PFrees DEF P!PreemptTail
<1>3. QED
  BY <1>1, <1>2 DEF PHolds, HeldBy, Alters

LEMMA PHoldsAdmit ==
  ASSUME P!TypeOK, Begun, PHolds, P!AdmitWaiting
  PROVE  PHolds'
<1> DEFINE r == Head(pWaiting)
<1>1. r \in Reqs /\ pRunning' = Append(pRunning, r)
  BY PNext DEF P!AdmitWaiting, P!Admissible
<1>2. Alters(pKv, pKv', r)
  BY PAllocates DEF P!AdmitWaiting
<1> HIDE DEF r
<1>3. ToSet(pRunning') = ToSet(pRunning) \cup {r}
  BY <1>1, PTyped, AppendSet
<1>4. QED
  BY <1>2, <1>3 DEF PHolds, HeldBy, Alters

LEMMA PHoldsStep ==
  ASSUME P!TypeOK, Begun, PHolds, P!InStep
  PROVE  PHolds'
<1>1. CASE \/ P!SkipFinished \/ P!DropBatch \/ P!JoinBatch \/ P!Pass \/ P!StartSchedule
           \/ P!SkipRunning \/ P!EndRunning \/ P!EndWaiting \/ P!BuildBatch \/ P!NothingToBuild
  <2>1. UNCHANGED <<pKv, pRunning>>
    BY <1>1 DEF P!SkipFinished, P!DropBatch, P!JoinBatch, P!Pass, P!StartSchedule, P!SkipRunning,
       P!EndRunning, P!EndWaiting, P!BuildBatch, P!NothingToBuild, P!queues
  <2>2. QED
    BY <2>1 DEF PHolds
<1>2. QED
  BY <1>1, PHoldsComplete, PHoldsServe, PHoldsPreempt, PHoldsAdmit DEF P!InStep

(* The decode instance in a step: what it has given to its requests only.    *)
LEMMA DHoldsComplete ==
  ASSUME D!TypeOK, DHolds, D!CompleteRequest
  PROVE  DHolds'
<1> DEFINE r == Head(dStep.todo).req
<1>1. dRunning \in Seq(Reqs) /\ r \in Reqs
  BY DTyped, DFields, LessWork DEF D!CompleteRequest
<1>2. PICK cached \in {dKv, D!CacheBlocks(dKv, r, computed[r])} :
        \/ dKv' = cached /\ dRunning' = dRunning
        \/ dKv' = D!Free(cached, r) /\ dRunning' = D!Without(dRunning, r)
  BY DEF D!CompleteRequest
<1>3. cached.table = dKv.table
  BY <1>2, DCaches
<1> HIDE DEF r
<1>4. CASE dKv' = cached /\ dRunning' = dRunning
  BY <1>3, <1>4 DEF DHolds, HeldBy
<1>5. CASE dKv' = D!Free(cached, r) /\ dRunning' = D!Without(dRunning, r)
  <2>1. ToSet(dRunning') = ToSet(dRunning) \ {r}
    BY <1>1, <1>5, WithoutSet
  <2>2. Alters(cached, dKv', r) /\ (r \in DOMAIN cached.table => dKv'.table[r] = << >>)
    BY <1>5, DFrees
  <2>3. QED
    BY <1>3, <2>1, <2>2 DEF DHolds, HeldBy, Alters
<1>6. QED
  BY <1>2, <1>4, <1>5

LEMMA DHoldsServe ==
  ASSUME D!TypeOK, DHolds, D!ServeRunning
  PROVE  DHolds'
<1>1. D!Current \in ToSet(dRunning) /\ dRunning' = dRunning
  BY DServing DEF D!ServeRunning, D!queues
<1>2. Alters(dKv, dKv', D!Current)
  BY DAllocates DEF D!ServeRunning
<1>3. QED
  BY <1>1, <1>2 DEF DHolds, HeldBy, Alters

LEMMA DHoldsPreempt ==
  ASSUME D!TypeOK, DHolds, D!PreemptTail
  PROVE  DHolds'
<1>1. ToSet(dRunning') = ToSet(dRunning) \ {D!Victim}
  BY DTyped, WithoutSet DEF D!PreemptTail
<1>2. /\ Alters(dKv, dKv', D!Victim)
      /\ D!Victim \in DOMAIN dKv.table => dKv'.table[D!Victim] = << >>
  BY DFrees DEF D!PreemptTail
<1>3. QED
  BY <1>1, <1>2 DEF DHolds, HeldBy, Alters

LEMMA DHoldsAdmit ==
  ASSUME D!TypeOK, Begun, DHolds, D!AdmitWaiting
  PROVE  DHolds'
<1> DEFINE r == Head(dWaiting)
<1>1. r \in Reqs /\ dRunning' = Append(dRunning, r)
  BY DNext DEF D!AdmitWaiting, D!Admissible
<1>2. Alters(dKv, dKv', r)
  BY DAllocates DEF D!AdmitWaiting
<1> HIDE DEF r
<1>3. ToSet(dRunning') = ToSet(dRunning) \cup {r}
  BY <1>1, DTyped, AppendSet
<1>4. QED
  BY <1>2, <1>3 DEF DHolds, HeldBy, Alters

LEMMA DHoldsStep ==
  ASSUME D!TypeOK, Begun, DHolds, D!InStep
  PROVE  DHolds'
<1>1. CASE \/ D!SkipFinished \/ D!DropBatch \/ D!JoinBatch \/ D!Pass \/ D!StartSchedule
           \/ D!SkipRunning \/ D!EndRunning \/ D!EndWaiting \/ D!BuildBatch \/ D!NothingToBuild
  <2>1. UNCHANGED <<dKv, dRunning>>
    BY <1>1 DEF D!SkipFinished, D!DropBatch, D!JoinBatch, D!Pass, D!StartSchedule, D!SkipRunning,
       D!EndRunning, D!EndWaiting, D!BuildBatch, D!NothingToBuild, D!queues
  <2>2. QED
    BY <2>1 DEF DHolds
<1>2. QED
  BY <1>1, DHoldsComplete, DHoldsServe, DHoldsPreempt, DHoldsAdmit DEF D!InStep

LEMMA PHoldsPrefill ==
  ASSUME P!TypeOK, PHolds, P!CompletePrefill
  PROVE  PHolds'
<1> DEFINE r == Head(pStep.todo).req
<1> DEFINE cached == P!CacheBlocks(pKv, r, computed[r])
<1>1. pKv' = P!Free(cached, r) /\ ToSet(pRunning') = ToSet(pRunning) \ {r}
  BY PTyped, WithoutSet DEF P!CompletePrefill
<1>2. cached.table = pKv.table
  BY PCaches
<1> HIDE DEF r, cached
<1>3. Alters(cached, pKv', r) /\ (r \in DOMAIN cached.table => pKv'.table[r] = << >>)
  BY <1>1, PFrees
<1>4. QED
  BY <1>1, <1>2, <1>3 DEF PHolds, HeldBy, Alters

LEMMA DHoldsHandoff ==
  ASSUME D!TypeOK, DHolds, NEW r \in Reqs, D!AddDecode(r)
  PROVE  DHolds'
<1>1. ToSet(dRunning') = ToSet(dRunning) \cup {r}
  BY DTyped, AppendSet DEF D!AddDecode
<1>2. Alters(dKv, dKv', r)
  BY DAllocates DEF D!AddDecode
<1>3. QED
  BY <1>1, <1>2 DEF DHolds, HeldBy, Alters

(* A request holds blocks on one side at a time, whatever the decode       *)
(* instance finds of it in its prefix cache, and whoever is preempted: the *)
(* first half of BlocksOnOneSide, for a prefill instance of one stage.     *)
(* Blocks belong to running requests only, and no request is with both.    *)
THEOREM HeldOnOneSide == ASSUME PrefillStages = 1 PROVE PairSpec => []OneSide
<1>1. PairInit => PHolds /\ DHolds
  BY NoElements DEF PairInit, P!Init, D!Init, P!NewKV, D!NewKV, PHolds, DHolds, HeldBy
<1>2. ASSUME PairInv, PHolds, DHolds, [PairNext]_pair PROVE PHolds' /\ DHolds'
  <2>1. P!TypeOK /\ D!TypeOK /\ Begun
    BY <1>2 DEF PairInv, Typed
  <2>2. UNCHANGED <<pKv, pRunning>> => PHolds'
    BY <1>2 DEF PHolds
  <2>3. UNCHANGED <<dKv, dRunning>> => DHolds'
    BY <1>2 DEF DHolds
  <2>4. CASE Arrive
    <3>1. UNCHANGED <<pKv, pRunning, dKv, dRunning>>
      BY <2>4 DEF Arrive, P!AddRequest, decode
    <3>2. QED
      BY <2>2, <2>3, <3>1
  <2>5. ASSUME NEW n \in P!Npus, PrefillHandshake(n) PROVE PHolds' /\ DHolds'
    <3>1. UNCHANGED <<pKv, pRunning, dKv, dRunning>>
      BY <2>5 DEF PrefillHandshake, P!Handshake, P!HandBack, P!Poll, P!queues, decode
    <3>2. QED
      BY <2>2, <2>3, <3>1
  <2>6. ASSUME NEW n \in D!Npus, DecodeHandshake(n) PROVE PHolds' /\ DHolds'
    <3>1. UNCHANGED <<pKv, pRunning, dKv, dRunning>>
      BY <2>6 DEF DecodeHandshake, D!Handshake, D!HandBack, D!Poll, D!queues, prefill
    <3>2. QED
      BY <2>2, <2>3, <3>1
  <2>7. CASE PrefillInStep
    <3>1. PHolds'
      BY <1>2, <2>1, <2>7, PHoldsStep, PHoldsPrefill DEF PrefillInStep
    <3>2. UNCHANGED <<dKv, dRunning>>
      BY <2>7 DEF PrefillInStep, decode
    <3>3. QED
      BY <2>3, <3>1, <3>2
  <2>8. CASE DecodeInStep
    <3>1. DHolds'
      BY <1>2, <2>1, <2>8, DHoldsStep DEF DecodeInStep
    <3>2. UNCHANGED <<pKv, pRunning>>
      BY <2>8 DEF DecodeInStep, prefill
    <3>3. QED
      BY <2>2, <3>1, <3>2
  <2>9. CASE Transfer
    <3>1. PICK r \in Reqs : P!HandOver(r) /\ (D!AddDecode(r) \/ D!AddDecodeRaises(r))
      BY <2>9 DEF Transfer
    <3>2. UNCHANGED <<pKv, pRunning>>
      BY <3>1 DEF P!HandOver, P!queues
    <3>3. D!AddDecodeRaises(r) => UNCHANGED <<dKv, dRunning>>
      BY DEF D!AddDecodeRaises, D!queues
    <3>4. DHolds'
      BY <1>2, <2>1, <2>3, <3>1, <3>3, DHoldsHandoff
    <3>5. QED
      BY <2>2, <3>2, <3>4
  <2>10. CASE UNCHANGED pair
    <3>1. UNCHANGED <<pKv, pRunning, dKv, dRunning>>
      BY <2>10 DEF pair, prefill, decode
    <3>2. QED
      BY <2>2, <2>3, <3>1
  <2>11. QED
    BY <1>2, <2>4, <2>5, <2>6, <2>7, <2>8, <2>9, <2>10 DEF PairNext
<1>3. PairInv /\ PHolds /\ DHolds => OneSide
  BY DEF PairInv, Apart, PHas, DHas, PHolds, DHolds, HeldBy, OneSide
<1>4. QED
  BY <1>1, <1>2, <1>3, PairInductive, PTL DEF PairSpec
=============================================================================
