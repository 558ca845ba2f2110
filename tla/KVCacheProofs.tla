---------------------------- MODULE KVCacheProofs ----------------------------
(***************************************************************************)
(* What the operators of BlockPool preserve: each maps a pool that is OK   *)
(* to one that is OK, and says what becomes of the reference counts.  What *)
(* the operators of KVCache preserve: KVOK, the part of the manager's      *)
(* state that relates the NPU pool to the block tables, and Booked, what   *)
(* the manager and its caller know together.                               *)
(***************************************************************************)
EXTENDS KVCache, QueueLemmas

-----------------------------------------------------------------------------
(* The operations of a pool of n blocks. *)

(* A pool that is OK and holds nothing: every block is free. *)
Unpinned(n, p) == PoolOK(n, p) /\ \A b \in 1..n : p.ref[b] = 0

(* A pool that is OK: its type, spelled out, and its free list. *)
LEMMA PoolOKFacts ==
  ASSUME NEW n \in Nat, NEW p, PoolOK(n, p)
  PROVE  /\ p = [ref |-> p.ref, hash |-> p.hash, index |-> p.index, free |-> p.free]
         /\ p.ref \in [1..n -> Nat] /\ p.hash \in [1..n -> Hashes \cup {NoHash}]
         /\ p.index \in [Hashes -> 0..n] /\ p.free \in Seq(1..n)
         /\ DOMAIN p.ref = 1..n
         /\ Distinct(p.free)
         /\ \A b \in 1..n : b \in ToSet(p.free) <=> p.ref[b] = 0
         /\ IsFiniteSet(ToSet(p.free)) /\ Cardinality(ToSet(p.free)) = Len(p.free)
         /\ Len(p.free) \in Nat
<1>1. /\ p = [ref |-> p.ref, hash |-> p.hash, index |-> p.index, free |-> p.free]
      /\ p.ref \in [1..n -> Nat] /\ p.hash \in [1..n -> Hashes \cup {NoHash}]
      /\ p.index \in [Hashes -> 0..n] /\ p.free \in Seq(1..n)
  BY DEF PoolOK, Pool
<1>2. DOMAIN p.ref = 1..n
  BY <1>1
<1>3. /\ Distinct(p.free)
      /\ \A b \in 1..n : b \in ToSet(p.free) <=> p.ref[b] = 0
  BY <1>2 DEF PoolOK, FreeListExact, Distinct
<1>4. IsFiniteSet(ToSet(p.free)) /\ Cardinality(ToSet(p.free)) = Len(p.free)
  BY <1>1, <1>3, DistinctLength
<1>5. QED
  BY <1>1, <1>2, <1>3, <1>4, LenProperties

(* A new pool is OK: every block is free, none is indexed. *)
LEMMA NewPoolOK ==
  ASSUME NEW n \in Nat
  PROVE  PoolOK(n, NewPool(n))
<1> DEFINE p == NewPool(n)
<1>1. p \in Pool(n)
  BY DEF NewPool, Pool, NoBlock
<1>2. ToSet(p.free) = 1..n /\ DOMAIN p.ref = 1..n
  BY DEF NewPool, ToSet
<1>3. FreeListExact(p)
  BY <1>2 DEF FreeListExact, NewPool
<1>4. IndexSound(p)
  BY DEF IndexSound, NewPool
<1>5. QED
  BY <1>1, <1>3, <1>4 DEF PoolOK

(* touch adds a holder to each block of T and takes T off the free list. *)
LEMMA TouchOK ==
  ASSUME NEW n \in Nat, NEW p, PoolOK(n, p), NEW T, \A b \in T : b \in 1..n,
         NEW q, q = Touch(p, T)
  PROVE  /\ PoolOK(n, q)
         /\ \A b \in 1..n : q.ref[b] = IF b \in T THEN p.ref[b] + 1 ELSE p.ref[b]
         /\ ToSet(q.free) = ToSet(p.free) \ T
         /\ q.hash = p.hash /\ q.index = p.index
<1> DEFINE K == {b \in ToSet(p.free) : ~(b \in T /\ p.ref[b] = 0)}
<1>1. /\ p = [ref |-> p.ref, hash |-> p.hash, index |-> p.index, free |-> p.free]
      /\ p.ref \in [1..n -> Nat] /\ p.free \in Seq(1..n) /\ Distinct(p.free)
      /\ DOMAIN p.ref = 1..n
      /\ \A b \in 1..n : b \in ToSet(p.free) <=> p.ref[b] = 0
      /\ p.hash \in [1..n -> Hashes \cup {NoHash}] /\ p.index \in [Hashes -> 0..n]
  BY PoolOKFacts
<1>2. q = [ref   |-> [b \in 1..n |-> IF b \in T THEN p.ref[b] + 1 ELSE p.ref[b]],
           hash  |-> p.hash, index |-> p.index, free |-> Kept(p.free, K)]
  BY <1>1 DEF Touch
<1>3. /\ Kept(p.free, K) \in Seq(1..n) /\ Distinct(Kept(p.free, K))
      /\ ToSet(Kept(p.free, K)) = ToSet(p.free) \cap K
  BY <1>1, KeptProperties
<1>4. ToSet(p.free) \subseteq 1..n
  BY <1>1 DEF ToSet
<1>5. ToSet(p.free) \cap K = ToSet(p.free) \ T
  BY <1>1, <1>4
<1>6. q \in Pool(n)
  BY <1>1, <1>2, <1>3 DEF Pool
<1>7. FreeListExact(q)
  <2>1. \A b \in 1..n : b \in ToSet(q.free) <=> q.ref[b] = 0
    BY <1>1, <1>2, <1>3, <1>5
  <2>2. QED
    BY <1>2, <1>3, <2>1 DEF FreeListExact, Distinct
<1>8. IndexSound(q)
  BY <1>2 DEF PoolOK, IndexSound
<1>9. QED
  BY <1>2, <1>3, <1>5, <1>6, <1>7, <1>8 DEF PoolOK

(* q is p after get_new_blocks has popped the k blocks got: the pool is   *)
(* sound, each popped block gained one reference and lost its hash, and   *)
(* no other block changed.                                                *)
Popped(n, p, k, q, got) ==
  /\ PoolOK(n, q)
  /\ got \in Seq(1..n) /\ Len(got) = k /\ Distinct(got)
  /\ ToSet(got) \subseteq ToSet(p.free)
  /\ \A b \in 1..n : q.ref[b] = IF b \in ToSet(got) THEN p.ref[b] + 1 ELSE p.ref[b]
  /\ \A b \in 1..n : b \notin ToSet(got) => q.hash[b] = p.hash[b]
  /\ EnableCaching => \A b \in ToSet(got) : q.hash[b] = NoHash
  /\ ~EnableCaching => \A b \in 1..n : q.hash[b] = p.hash[b]

(* get_new_blocks pins blocks nobody held and leaves no entry to them. *)
LEMMA GetNewBlocksOK ==
  ASSUME NEW n \in Nat, NEW p, PoolOK(n, p), NEW k \in 0..Len(p.free),
         NEW q, q = GetNewBlocks(p, k), NEW got, got = PopLeft(p, k)
  PROVE  Popped(n, p, k, q, got)
<1> DEFINE T == ToSet(got)
<1>1. /\ p = [ref |-> p.ref, hash |-> p.hash, index |-> p.index, free |-> p.free]
      /\ p.ref \in [1..n -> Nat] /\ p.free \in Seq(1..n) /\ Distinct(p.free)
      /\ DOMAIN p.ref = 1..n
      /\ \A b \in 1..n : b \in ToSet(p.free) <=> p.ref[b] = 0
      /\ p.hash \in [1..n -> Hashes \cup {NoHash}] /\ p.index \in [Hashes -> 0..n]
  BY PoolOKFacts
<1> DEFINE rest == SubSeq(p.free, k + 1, Len(p.free))
<1>2. /\ got \in Seq(1..n) /\ Len(got) = k /\ Distinct(got)
      /\ rest \in Seq(1..n) /\ Distinct(rest)
      /\ T \cup ToSet(rest) = ToSet(p.free) /\ T \cap ToSet(rest) = {}
  <2>1. LET first == PopLeft(p, k)
        IN  /\ first \in Seq(1..n) /\ Len(first) = k /\ Distinct(first)
            /\ rest \in Seq(1..n) /\ Distinct(rest)
            /\ ToSet(first) \cup ToSet(rest) = ToSet(p.free)
            /\ ToSet(first) \cap ToSet(rest) = {}
    BY <1>1, SplitElements, ZenonT(40) DEF PopLeft
  <2> HIDE DEF rest
  <2>2. QED
    BY <2>1
<1>3. ToSet(p.free) \subseteq 1..n
  BY <1>1 DEF ToSet
<1>4. /\ q.ref = [b \in 1..n |-> IF b \in T THEN p.ref[b] + 1 ELSE p.ref[b]]
      /\ q.hash = [b \in 1..n |-> IF b \in T /\ EnableCaching THEN NoHash ELSE p.hash[b]]
      /\ q.index = IF EnableCaching THEN Evicted(p, T) ELSE p.index
      /\ q.free = rest
      /\ q = [ref |-> q.ref, hash |-> q.hash, index |-> q.index, free |-> q.free]
  BY <1>1 DEF GetNewBlocks
<1> HIDE DEF T, rest
<1>5. q \in Pool(n)
  <2>1. Evicted(p, T) \in [Hashes -> 0..n]
    BY <1>1 DEF Evicted, NoBlock
  <2>2. q.index \in [Hashes -> 0..n]
    BY <1>1, <1>4, <2>1
  <2>3. q.ref \in [1..n -> Nat] /\ q.hash \in [1..n -> Hashes \cup {NoHash}]
    BY <1>1, <1>4
  <2>4. QED
    BY <1>2, <1>4, <2>2, <2>3 DEF Pool
<1>6. FreeListExact(q)
  <2>1. ASSUME NEW b \in 1..n PROVE b \in ToSet(q.free) <=> q.ref[b] = 0
    <3>1. CASE b \in T
      BY <1>1, <1>2, <1>4, <3>1
    <3>2. CASE b \notin T
      BY <1>1, <1>2, <1>4, <3>2
    <3>3. QED
      BY <3>1, <3>2
  <2>2. QED
    BY <1>2, <1>4, <2>1 DEF FreeListExact, Distinct
<1>7. IndexSound(q)
  <2>1. ASSUME NEW h \in Hashes, q.index[h] # NoBlock
        PROVE  q.hash[q.index[h]] = h
    <3>1. p.index[h] \in 0..n /\ (p.index[h] # NoBlock => p.hash[p.index[h]] = h)
      BY <1>1 DEF PoolOK, IndexSound
    <3>2. CASE EnableCaching
      <4>1. q.index[h] = IF p.index[h] \in T /\ p.hash[p.index[h]] = h
                         THEN NoBlock ELSE p.index[h]
        BY <1>4, <3>2 DEF Evicted
      <4>2. q.index[h] = p.index[h] /\ p.index[h] \notin T
        BY <2>1, <3>1, <4>1
      <4>3. QED
        BY <1>4, <2>1, <3>1, <4>2 DEF NoBlock
    <3>3. CASE ~EnableCaching
      BY <1>4, <2>1, <3>1, <3>3 DEF NoBlock
    <3>4. QED
      BY <3>2, <3>3
  <2>2. QED
    BY <2>1 DEF IndexSound
<1>8. \A b \in ToSet(got) : b \in 1..n
  BY <1>2, <1>3 DEF T
<1>9. QED
  BY <1>2, <1>4, <1>5, <1>6, <1>7, <1>8 DEF PoolOK, T, Popped

(* free_blocks takes a holder from each block of a list of held blocks, *)
(* and puts those left with none at the end of the free list.           *)
LEMMA FreeBlocksOK ==
  ASSUME NEW n \in Nat, NEW p, PoolOK(n, p),
         NEW blocks \in Seq(1..n), Distinct(blocks),
         \A b \in ToSet(blocks) : p.ref[b] > 0
  PROVE  /\ PoolOK(n, FreeBlocks(p, blocks))
         /\ \A b \in 1..n : FreeBlocks(p, blocks).ref[b] =
               IF b \in ToSet(blocks) THEN p.ref[b] - 1 ELSE p.ref[b]
         /\ FreeBlocks(p, blocks).hash = p.hash
<1> DEFINE B == ToSet(blocks)
<1> DEFINE left == [b \in 1..n |-> IF b \in B THEN p.ref[b] - 1 ELSE p.ref[b]]
<1> DEFINE Z == {b \in B : left[b] = 0}
<1> DEFINE q == FreeBlocks(p, blocks)
<1>1. /\ p.ref \in [1..n -> Nat] /\ p.free \in Seq(1..n) /\ Distinct(p.free)
      /\ DOMAIN p.ref = 1..n
      /\ \A b \in 1..n : b \in ToSet(p.free) <=> p.ref[b] = 0
      /\ p.hash \in [1..n -> Hashes \cup {NoHash}] /\ p.index \in [Hashes -> 0..n]
  BY PoolOKFacts
<1>2. B \subseteq 1..n
  BY DEF ToSet
<1>3. q = [ref |-> left, hash |-> p.hash, index |-> p.index,
           free |-> p.free \o Kept(blocks, Z)]
  BY <1>1 DEF FreeBlocks
<1>4. left \in [1..n -> Nat]
  BY <1>1
<1> HIDE DEF B, left, Z, q
<1>5. /\ Kept(blocks, Z) \in Seq(1..n) /\ Distinct(Kept(blocks, Z))
      /\ ToSet(Kept(blocks, Z)) = Z
  BY KeptProperties DEF B, Z
<1>6. ToSet(p.free) \cap Z = {}
  <2>1. \A b \in Z : b \in 1..n /\ p.ref[b] # 0
    BY <1>1, <1>2 DEF Z, B
  <2>2. QED
    BY <1>1, <2>1
<1>7. /\ p.free \o Kept(blocks, Z) \in Seq(1..n)
      /\ Distinct(p.free \o Kept(blocks, Z))
      /\ ToSet(p.free \o Kept(blocks, Z)) = ToSet(p.free) \cup Z
  BY <1>1, <1>5, <1>6, ConcatElements
<1>8. q \in Pool(n)
  BY <1>1, <1>3, <1>4, <1>7 DEF Pool
<1>9. FreeListExact(q)
  <2>1. ASSUME NEW b \in 1..n PROVE b \in ToSet(q.free) <=> q.ref[b] = 0
    <3>1. b \in ToSet(q.free) <=> p.ref[b] = 0 \/ b \in Z
      BY <1>1, <1>3, <1>7
    <3>2. CASE b \in B
      <4>1. p.ref[b] # 0 /\ (b \in Z <=> left[b] = 0)
        BY <1>1, <3>2 DEF B, Z
      <4>2. QED
        BY <1>3, <3>1, <4>1
    <3>3. CASE b \notin B
      <4>1. b \notin Z /\ left[b] = p.ref[b]
        BY <3>3 DEF Z, left
      <4>2. QED
        BY <1>3, <3>1, <4>1
    <3>4. QED
      BY <3>2, <3>3
  <2>2. QED
    BY <1>3, <1>4, <1>7, <2>1 DEF FreeListExact, Distinct
<1>10. IndexSound(q)
  BY <1>3 DEF PoolOK, IndexSound
<1>11. QED
  BY <1>3, <1>8, <1>9, <1>10 DEF PoolOK, left, B, q

(* b is one of blocks[from+1 .. to]. *)
Placed(blocks, from, to, b) == \E i \in (from + 1)..to : blocks[i] = b

(* From p to q only blocks[from+1 .. to] are hashed, each under the hash   *)
(* of its position.                                                        *)
Filled(n, p, q, hashes, blocks, from, to) ==
  /\ \A b \in 1..n : q.hash[b] = p.hash[b] \/ Placed(blocks, from, to, b)
  /\ EnableCaching => \A i \in (from + 1)..to :
       p.hash[blocks[i]] = NoHash => q.hash[blocks[i]] = hashes[i]

(* cache_full_blocks changes hashes and index only, leaves the hashes that *)
(* are there, and every entry of the index stays true.                     *)
LEMMA CacheFullBlocksOK ==
  ASSUME NEW n \in Nat, NEW p, PoolOK(n, p),
         NEW hashes \in Seq(Hashes), Distinct(hashes),
         NEW blocks \in Seq(1..n), Distinct(blocks),
         NEW from \in Nat, NEW to \in Nat, to <= Len(blocks), to <= Len(hashes),
         NEW q, q = CacheFullBlocks(p, hashes, blocks, from, to)
  PROVE  /\ PoolOK(n, q) /\ q.ref = p.ref /\ q.free = p.free
         /\ \A b \in 1..n : p.hash[b] # NoHash => q.hash[b] = p.hash[b]
         /\ Filled(n, p, q, hashes, blocks, from, to)
<1> DEFINE new == Unhashed(p, blocks, from, to)
<1>1. /\ p.ref \in [1..n -> Nat] /\ p.free \in Seq(1..n)
      /\ DOMAIN p.ref = 1..n
      /\ p.hash \in [1..n -> Hashes \cup {NoHash}] /\ p.index \in [Hashes -> 0..n]
  BY PoolOKFacts
<1>2. CASE ~EnableCaching
  BY <1>2 DEF CacheFullBlocks, Filled
<1>3. CASE EnableCaching
  <2>1. /\ q.ref = p.ref /\ q.free = p.free
        /\ q.hash = [b \in 1..n |-> IF \E i \in new : blocks[i] = b
                      THEN hashes[CHOOSE i \in new : blocks[i] = b] ELSE p.hash[b]]
        /\ q.index = [h \in Hashes |-> IF \E i \in new : hashes[i] = h
                      THEN blocks[CHOOSE i \in new : hashes[i] = h] ELSE p.index[h]]
        /\ q = [ref |-> q.ref, hash |-> q.hash, index |-> q.index, free |-> q.free]
    BY <1>1, <1>3 DEF CacheFullBlocks
  <2>2. ASSUME NEW i \in new
        PROVE  /\ i \in DOMAIN blocks /\ i \in DOMAIN hashes
               /\ blocks[i] \in 1..n /\ hashes[i] \in Hashes
               /\ p.hash[blocks[i]] = NoHash
    <3>1. i \in 1..Len(blocks) /\ i \in 1..Len(hashes) /\ p.hash[blocks[i]] = NoHash
      BY LenProperties DEF Unhashed
    <3>2. QED
      BY <3>1, LenProperties, ElementOfSeq
  <2> HIDE DEF new
  <2>3. ASSUME NEW i \in new
        PROVE  q.hash[blocks[i]] = hashes[i] /\ q.index[hashes[i]] = blocks[i]
    <3>1. \A j \in new : blocks[j] = blocks[i] => j = i
      BY <2>2 DEF Distinct
    <3>2. \A j \in new : hashes[j] = hashes[i] => j = i
      BY <2>2 DEF Distinct
    <3>3. (CHOOSE j \in new : blocks[j] = blocks[i]) = i
      BY <3>1
    <3>4. (CHOOSE j \in new : hashes[j] = hashes[i]) = i
      BY <3>2
    <3>5. q.hash[blocks[i]] = hashes[CHOOSE j \in new : blocks[j] = blocks[i]]
      BY <2>1, <2>2
    <3>6. q.index[hashes[i]] = blocks[CHOOSE j \in new : hashes[j] = hashes[i]]
      BY <2>1, <2>2
    <3>7. QED
      BY <3>3, <3>4, <3>5, <3>6
  <2>4. ASSUME NEW b \in 1..n, \A i \in new : blocks[i] # b
        PROVE  q.hash[b] = p.hash[b]
    BY <2>1, <2>4
  <2>5. ASSUME NEW h \in Hashes, \A i \in new : hashes[i] # h
        PROVE  q.index[h] = p.index[h]
    BY <2>1, <2>5
  <2>6. q.hash \in [1..n -> Hashes \cup {NoHash}]
    <3>1. ASSUME NEW b \in 1..n PROVE q.hash[b] \in Hashes \cup {NoHash}
      <4>1. CASE \E i \in new : blocks[i] = b
        BY <2>2, <2>3, <4>1
      <4>2. CASE \A i \in new : blocks[i] # b
        BY <1>1, <2>4, <4>2
      <4>3. QED
        BY <4>1, <4>2
    <3>2. QED
      BY <2>1, <3>1
  <2>7. q.index \in [Hashes -> 0..n]
    <3>1. ASSUME NEW h \in Hashes PROVE q.index[h] \in 0..n
      <4>1. CASE \E i \in new : hashes[i] = h
        <5>1. PICK i \in new : hashes[i] = h
          BY <4>1
        <5>2. q.index[h] = blocks[i] /\ blocks[i] \in 1..n
          BY <2>2, <2>3, <5>1
        <5>3. QED
          BY <5>2
      <4>2. CASE \A i \in new : hashes[i] # h
        BY <1>1, <2>5, <4>2
      <4>3. QED
        BY <4>1, <4>2
    <3>2. QED
      BY <2>1, <3>1
  <2>8. q \in Pool(n)
    BY <1>1, <2>1, <2>6, <2>7 DEF Pool
  <2>9. FreeListExact(q)
    BY <2>1 DEF PoolOK, FreeListExact
  <2>10. IndexSound(q)
    <3>1. ASSUME NEW h \in Hashes, q.index[h] # NoBlock
          PROVE  q.hash[q.index[h]] = h
      <4>1. CASE \E i \in new : hashes[i] = h
        BY <2>2, <2>3, <4>1
      <4>2. CASE \A i \in new : hashes[i] # h
        <5>1. q.index[h] = p.index[h] /\ p.index[h] \in 1..n
          <6>1. q.index[h] = p.index[h]
            BY <2>5, <4>2
          <6>2. QED
            BY <1>1, <3>1, <6>1 DEF NoBlock
        <5>2. p.hash[p.index[h]] = h
          BY <3>1, <5>1 DEF PoolOK, IndexSound
        <5>3. \A i \in new : blocks[i] # p.index[h]
          BY <2>2, <5>2, HashAssumption
        <5>4. QED
          BY <2>4, <5>1, <5>2, <5>3
      <4>3. QED
        BY <4>1, <4>2
    <3>2. QED
      BY <3>1 DEF IndexSound
  <2>11. ASSUME NEW b \in 1..n, p.hash[b] # NoHash PROVE q.hash[b] = p.hash[b]
    BY <2>2, <2>4, <2>11
  <2>12. ASSUME NEW b \in 1..n, ~Placed(blocks, from, to, b)
         PROVE  q.hash[b] = p.hash[b]
    <3>1. \A i \in new : blocks[i] # b
      BY <2>12 DEF new, Unhashed, Placed
    <3>2. QED
      BY <2>4, <3>1
  <2>13. ASSUME NEW i \in (from + 1)..to, p.hash[blocks[i]] = NoHash
         PROVE  q.hash[blocks[i]] = hashes[i]
    <3>1. i \in new
      BY <2>13 DEF new, Unhashed
    <3>2. QED
      BY <2>3, <3>1
  <2>14. QED
    BY <2>1, <2>8, <2>9, <2>10, <2>11, <2>12, <2>13 DEF PoolOK, Filled
<1>4. QED
  BY <1>2, <1>3

(* cache_copy leaves the block it takes free, and the hash indexed. *)
LEMMA CacheCopyOK ==
  ASSUME NEW n \in Nat \ {0}, NEW p, Unpinned(n, p), NEW h \in Hashes
  PROVE  /\ Unpinned(n, CacheCopy(p, h))
         /\ EnableCaching => CacheCopy(p, h).index[h] # NoBlock
<1> DEFINE b == Head(p.free)
<1> DEFINE q == GetNewBlocks(p, 1)
<1> DEFINE w == [ref |-> q.ref, hash |-> [q.hash EXCEPT ![b] = h],
                 index |-> [q.index EXCEPT ![h] = b], free |-> q.free]
<1>1. /\ PoolOK(n, p) /\ p.free \in Seq(1..n) /\ Len(p.free) \in Nat
      /\ \A c \in 1..n : c \in ToSet(p.free) /\ p.ref[c] = 0
  BY PoolOKFacts DEF Unpinned
<1>2. CASE ~EnableCaching \/ p.index[h] # NoBlock
  BY <1>2 DEF CacheCopy
<1>3. CASE EnableCaching /\ p.index[h] = NoBlock
  <2>1. Len(p.free) >= 1
    <3>1. 1 \in ToSet(p.free)
      BY <1>1
    <3>2. p.free # << >>
      BY <3>1, EmptyElements
    <3>3. QED
      BY <1>1, <3>2
  <2>2. /\ PopLeft(p, 1) = <<b>> /\ b \in 1..n
        /\ <<b>> \in Seq(1..n) /\ Distinct(<<b>>) /\ ToSet(<<b>>) = {b}
    <3>1. b = p.free[1] /\ b \in 1..n
      BY <1>1, <2>1
    <3>2. PopLeft(p, 1) = <<b>>
      <4>1. /\ SubSeq(p.free, 1, 1) \in Seq(1..n) /\ Len(SubSeq(p.free, 1, 1)) = 1
            /\ SubSeq(p.free, 1, 1)[1] = b
        <5>1. 1 \in Int /\ \A i \in 1..1 : p.free[i] \in 1..n
          BY <3>1
        <5>2. QED
          BY <3>1, <5>1, SubSeqProperties
      <4>2. <<b>> \in Seq(1..n) /\ Len(<<b>>) = 1 /\ <<b>>[1] = b
        BY <3>1
      <4>3. SubSeq(p.free, 1, 1) = <<b>>
        <5>1. ASSUME NEW s \in Seq(1..n), NEW t \in Seq(1..n), Len(s) = 1, Len(t) = 1, s[1] = t[1]
              PROVE  s = t
          BY <5>1, SeqEqual
        <5>2. QED
          BY <4>1, <4>2, <5>1, Zenon
      <4>4. QED
        BY <4>3 DEF PopLeft
    <3>3. QED
      BY <3>1, <3>2 DEF Distinct, ToSet
  <2>3. /\ PoolOK(n, q)
        /\ \A c \in 1..n : q.ref[c] = IF c = b THEN 1 ELSE 0
        /\ q.hash[b] = NoHash
    <3>1. 1 \in 0..Len(p.free)
      BY <1>1, <2>1
    <3>2. /\ PoolOK(n, q)
          /\ \A c \in 1..n : q.ref[c] = IF c \in ToSet(PopLeft(p, 1)) THEN p.ref[c] + 1 ELSE p.ref[c]
          /\ EnableCaching => \A c \in ToSet(PopLeft(p, 1)) : q.hash[c] = NoHash
      <4>1. ASSUME NEW u, u = GetNewBlocks(p, 1), NEW got, got = PopLeft(p, 1)
            PROVE  /\ PoolOK(n, u)
                   /\ \A c \in 1..n : u.ref[c] = IF c \in ToSet(got) THEN p.ref[c] + 1 ELSE p.ref[c]
                   /\ EnableCaching => \A c \in ToSet(got) : u.hash[c] = NoHash
        <5>1. n \in Nat /\ PoolOK(n, p) /\ 1 \in 0..Len(p.free)
          BY <1>1, <3>1
        <5>2. Popped(n, p, 1, u, got)
          BY <4>1, <5>1, GetNewBlocksOK
        <5>3. QED
          BY <5>2 DEF Popped
      <4>2. QED
        BY <4>1
    <3>3. QED
      BY SMTT(30), <1>1, <1>3, <2>2, <3>2
  <2> HIDE DEF q, b
  <2>4. /\ q = [ref |-> q.ref, hash |-> q.hash, index |-> q.index, free |-> q.free]
        /\ q.ref \in [1..n -> Nat] /\ q.hash \in [1..n -> Hashes \cup {NoHash}]
        /\ q.index \in [Hashes -> 0..n] /\ q.free \in Seq(1..n) /\ DOMAIN q.ref = 1..n
    BY <2>3, PoolOKFacts
  <2>5. /\ w = [ref |-> w.ref, hash |-> w.hash, index |-> w.index, free |-> w.free]
        /\ w.ref = q.ref /\ w.free = q.free
        /\ w.hash = [q.hash EXCEPT ![b] = h] /\ w.index = [q.index EXCEPT ![h] = b]
    OBVIOUS
  <2> HIDE DEF w
  <2>6. /\ w.hash \in [1..n -> Hashes \cup {NoHash}] /\ w.index \in [Hashes -> 0..n]
        /\ w.hash[b] = h /\ w.index[h] = b
        /\ \A c \in 1..n : c # b => w.hash[c] = q.hash[c]
        /\ \A g \in Hashes : g # h => w.index[g] = q.index[g]
    BY <2>2, <2>4, <2>5
  <2>7. PoolOK(n, w)
    <3>1. w \in Pool(n)
      BY <2>4, <2>5, <2>6 DEF Pool
    <3>2. FreeListExact(w)
      BY <2>3, <2>5 DEF PoolOK, FreeListExact
    <3>3. ASSUME NEW g \in Hashes, w.index[g] # NoBlock PROVE w.hash[w.index[g]] = g
      <4>1. CASE g = h
        BY <2>6, <4>1
      <4>2. CASE g # h
        <5>1. w.index[g] = q.index[g] /\ q.index[g] \in 1..n /\ q.hash[q.index[g]] = g
          BY <2>3, <2>4, <2>6, <3>3, <4>2 DEF PoolOK, IndexSound, NoBlock
        <5>2. q.index[g] # b
          BY <2>3, <5>1, HashAssumption
        <5>3. QED
          BY <2>6, <5>1, <5>2
      <4>3. QED
        BY <4>1, <4>2
    <3>4. QED
      BY <3>1, <3>2, <3>3 DEF PoolOK, IndexSound
  <2>8. /\ PoolOK(n, FreeBlocks(w, <<b>>))
        /\ \A c \in 1..n : FreeBlocks(w, <<b>>).ref[c] = 0
    <3>1. \A c \in 1..n : w.ref[c] = IF c = b THEN 1 ELSE 0
      BY <2>3, <2>5
    <3>2. \A c \in ToSet(<<b>>) : w.ref[c] > 0
      BY <2>2, <3>1
    <3>3. /\ PoolOK(n, FreeBlocks(w, <<b>>))
          /\ \A c \in 1..n : FreeBlocks(w, <<b>>).ref[c] =
               IF c \in ToSet(<<b>>) THEN w.ref[c] - 1 ELSE w.ref[c]
      <4>1. ASSUME NEW v, v = w
            PROVE  /\ PoolOK(n, FreeBlocks(v, <<b>>))
                   /\ \A c \in 1..n : FreeBlocks(v, <<b>>).ref[c] =
                        IF c \in ToSet(<<b>>) THEN v.ref[c] - 1 ELSE v.ref[c]
        <5>1. /\ n \in Nat /\ PoolOK(n, v) /\ <<b>> \in Seq(1..n) /\ Distinct(<<b>>)
              /\ \A c \in ToSet(<<b>>) : v.ref[c] > 0
          BY <2>2, <2>7, <3>2, <4>1
        <5>2. QED
          BY <5>1, FreeBlocksOK, ZenonT(40)
      <4>2. QED
        BY <4>1
    <3>4. QED
      BY <2>2, <3>1, <3>3
  <2>9. CacheCopy(p, h) = FreeBlocks(w, <<b>>)
    BY <1>3 DEF CacheCopy, w, q, b
  <2>10. FreeBlocks(w, <<b>>).index = w.index
    BY DEF FreeBlocks
  <2>11. b # NoBlock
    BY <2>2 DEF NoBlock
  <2>12. QED
    BY <2>6, <2>8, <2>9, <2>10, <2>11 DEF Unpinned
<1>4. QED
  BY <1>2, <1>3

-----------------------------------------------------------------------------
(* The manager. *)

Sharers(kv, b) == {r \in Reqs : b \in ToSet(kv.table[r])}

KVOK(kv) ==
  /\ PoolOK(NumBlocks, kv.npu)
  /\ kv.table \in [Reqs -> Seq(1..NumBlocks)]
  /\ kv.cached \in [Reqs -> Nat \cup {Untracked}]
  /\ \A r \in Reqs : Distinct(kv.table[r])
  /\ \A b \in 1..NumBlocks : kv.npu.ref[b] = Cardinality(Sharers(kv, b))

(* num_cached_block has no entry for a request without blocks. *)
Tracked(kv) == \A r \in Reqs : kv.table[r] = << >> => kv.cached[r] = Untracked

(* From kv to kw, a block that is held keeps the content it has. *)
HeldKeepsHash(kv, kw) ==
  \A b \in 1..NumBlocks :
    kv.npu.ref[b] > 0 /\ kv.npu.hash[b] # NoHash => kw.npu.hash[b] = kv.npu.hash[b]

(* The i-th block of r's table holds the i-th block of r's own tokens once *)
(* it is hashed, and the first NumCached of them are.                      *)
HoldsPrefix(kv, r) ==
  /\ NumCached(kv, r) <= Len(kv.table[r])
  /\ \A i \in DOMAIN kv.table[r] :
       /\ kv.npu.hash[kv.table[r][i]] # NoHash
            => i <= Len(Chain[r]) /\ kv.npu.hash[kv.table[r][i]] = Chain[r][i]
       /\ i <= NumCached(kv, r) => kv.npu.hash[kv.table[r][i]] # NoHash

(* Without caching no block is ever hashed. *)
Bare(kv) == EnableCaching \/ \A b \in 1..NumBlocks : kv.npu.hash[b] = NoHash

(* What keeps it so: a block gets two holders only when it is full, so     *)
(* whoever fills a block has it alone.                                     *)
Content(kv) ==
  /\ Bare(kv)
  /\ \A r \in Reqs : HoldsPrefix(kv, r)
  /\ \A r, q \in Reqs : r # q =>
       \A b \in ToSet(kv.table[r]) \cap ToSet(kv.table[q]) : kv.npu.hash[b] # NoHash

(* A coarse block of r that becomes complete from kv to kw is on tier t. *)
WritesDown(kv, kw, r) ==
  EnableCaching => \A t \in DOMAIN Tiers :
    LET f == Tiers[t].factor
    IN  (NumCached(kw, r) \div f) > (NumCached(kv, r) \div f) =>
          kw.lower[t].index[Chain[r][f * (NumCached(kw, r) \div f)]] # NoBlock

(* From kv to kw the table of r grows at its end, by blocks that nobody    *)
(* held and that hold nothing.                                             *)
Grows(kv, kw, r) ==
  /\ Len(kv.table[r]) <= Len(kw.table[r])
  /\ \A i \in 1..Len(kv.table[r]) : kw.table[r][i] = kv.table[r][i]
  /\ \A i \in (Len(kv.table[r]) + 1)..Len(kw.table[r]) :
       kv.npu.ref[kw.table[r][i]] = 0 /\ kw.npu.hash[kw.table[r][i]] = NoHash
  /\ \A b \in 1..NumBlocks : kv.npu.ref[b] > 0 => kw.npu.hash[b] = kv.npu.hash[b]

(* The blocks of a hit hold the first blocks of r's own tokens. *)
HitsPrefix(kv, r, blocks) ==
  /\ Len(blocks) <= Len(Chain[r])
  /\ \A i \in 1..Len(blocks) : kv.npu.hash[blocks[i]] = Chain[r][i]

-----------------------------------------------------------------------------
(* Arithmetic of blocks. *)

(* cdiv(a, k) blocks of k tokens hold a tokens, and no fewer blocks do. *)
LEMMA CDivBounds ==
  ASSUME NEW a \in Nat, NEW k \in Nat \ {0}
  PROVE  CDiv(a, k) \in Nat /\ a <= k * CDiv(a, k) /\ k * CDiv(a, k) < a + k
<1>1. a + k - 1 \in Nat
  OBVIOUS
<1>2. /\ CDiv(a, k) \in Nat /\ k * CDiv(a, k) <= a + k - 1
      /\ a + k - 1 < k * CDiv(a, k) + k
  BY <1>1, DivBounds DEF CDiv
<1>3. k * CDiv(a, k) \in Int
  BY <1>2
<1>4. QED
  BY <1>2, <1>3

(* No tokens need no block. *)
LEMMA CDivOfZero ==
  ASSUME NEW k \in Nat \ {0}
  PROVE  CDiv(0, k) = 0
<1>1. CDiv(0, k) \in Nat /\ k * CDiv(0, k) < 0 + k
  BY CDivBounds
<1>2. k * CDiv(0, k) < k * 0 + k
  BY <1>1
<1>3. CDiv(0, k) <= 0
  BY <1>1, <1>2, ProductOrder
<1>4. QED
  BY <1>1, <1>3

(* More tokens never need fewer blocks. *)
LEMMA CDivMonotonic ==
  ASSUME NEW a \in Nat, NEW b \in Nat, NEW k \in Nat \ {0}, a <= b
  PROVE  CDiv(a, k) <= CDiv(b, k)
<1>1. CDiv(a, k) \in Nat /\ CDiv(b, k) \in Nat
  BY CDivBounds
<1>2. k * CDiv(a, k) < a + k /\ b <= k * CDiv(b, k)
  BY CDivBounds
<1>3. k * CDiv(a, k) \in Int /\ k * CDiv(b, k) \in Int
  BY <1>1
<1>4. k * CDiv(a, k) < k * CDiv(b, k) + k
  BY <1>2, <1>3
<1>5. QED
  BY <1>1, <1>4, ProductOrder

(* c whole blocks need at least c blocks. *)
LEMMA CDivOfBlocks ==
  ASSUME NEW c \in Nat, NEW a \in Nat, NEW k \in Nat \ {0}, c * k <= a
  PROVE  c <= CDiv(a, k)
<1>1. CDiv(a, k) \in Nat /\ a <= k * CDiv(a, k)
  BY CDivBounds
<1>2. k * c = c * k /\ k * c \in Int /\ k * CDiv(a, k) \in Int
  BY <1>1
<1>3. k * c < k * CDiv(a, k) + k
  BY <1>1, <1>2
<1>4. QED
  BY <1>1, <1>3, ProductOrder

(* The blocks that a tokens fill are among the blocks that b tokens need. *)
LEMMA FullBlocksBound ==
  ASSUME NEW r \in Reqs, NEW a \in Nat, NEW b \in Nat, a <= b
  PROVE  /\ FullBlocks(r, a) \in Nat
         /\ FullBlocks(r, a) <= CDiv(b, BlockSize)
         /\ FullBlocks(r, a) <= Len(Chain[r])
<1>1. BlockSize \in Nat \ {0} /\ Chain[r] \in Seq(Hashes)
  BY KVAssumption
<1>2. a \div BlockSize \in Nat /\ BlockSize * (a \div BlockSize) <= a
  BY <1>1, DivBounds
<1>3. (a \div BlockSize) * BlockSize <= b
  BY <1>1, <1>2
<1>4. a \div BlockSize <= CDiv(b, BlockSize)
  BY <1>1, <1>2, <1>3, CDivOfBlocks
<1>5. Len(Chain[r]) \in Nat /\ CDiv(b, BlockSize) \in Nat
  BY <1>1, LenProperties, CDivBounds
<1>6. QED
  BY <1>2, <1>4, <1>5 DEF FullBlocks, Lesser

-----------------------------------------------------------------------------
(* Holders *)

(* The number of requests that hold a block, when one more or one fewer does. *)
LEMMA SharersFinite ==
  ASSUME NEW kv, NEW b
  PROVE  IsFiniteSet(Sharers(kv, b)) /\ Cardinality(Sharers(kv, b)) \in Nat
<1>1. Sharers(kv, b) \in SUBSET Reqs /\ IsFiniteSet(Reqs)
  BY KVAssumption DEF Sharers
<1>2. QED
  BY <1>1, FS_Subset, FS_CardinalityType

(* A request that takes a block is one more holder of it. *)
LEMMA OneSharerMore ==
  ASSUME NEW kv, NEW kw, NEW b, NEW r, r \notin Sharers(kv, b),
         Sharers(kw, b) = Sharers(kv, b) \cup {r}
  PROVE  Cardinality(Sharers(kw, b)) = Cardinality(Sharers(kv, b)) + 1
BY SharersFinite, FS_AddElement

(* A request that gives a block back is one holder less. *)
LEMMA OneSharerLess ==
  ASSUME NEW kv, NEW kw, NEW b, NEW r, r \in Sharers(kv, b),
         Sharers(kw, b) = Sharers(kv, b) \ {r}
  PROVE  Cardinality(Sharers(kw, b)) = Cardinality(Sharers(kv, b)) - 1
BY SharersFinite, FS_RemoveElement

(* A block of a table is held. *)
LEMMA TableIsHeld ==
  ASSUME NEW kv, KVOK(kv), NEW r \in Reqs, NEW b \in ToSet(kv.table[r])
  PROVE  b \in 1..NumBlocks /\ kv.npu.ref[b] > 0 /\ r \in Sharers(kv, b)
<1>1. b \in 1..NumBlocks
  <2>1. kv.table[r] \in Seq(1..NumBlocks)
    BY DEF KVOK
  <2>2. QED
    BY <2>1, ToSetType
<1>2. r \in Sharers(kv, b)
  BY DEF Sharers
<1>3. Cardinality(Sharers(kv, b)) \in Nat /\ Cardinality(Sharers(kv, b)) # 0
  BY <1>2, SharersFinite, FS_EmptySet
<1>4. QED
  BY <1>1, <1>2, <1>3 DEF KVOK

-----------------------------------------------------------------------------
(* The operations of the manager. *)

(* The new manager: no block is held, no request has one. *)
LEMMA NewKVOK == KVOK(NewKV) /\ Tracked(NewKV) /\ NewKV.table = [r \in Reqs |-> << >>]
<1> DEFINE kv == NewKV
<1>1. NumBlocks \in Nat
  BY KVAssumption
<1>2. /\ kv.npu = NewPool(NumBlocks) /\ kv.table = [r \in Reqs |-> << >>]
      /\ kv.cached = [r \in Reqs |-> Untracked]
  BY DEF NewKV
<1>3. PoolOK(NumBlocks, kv.npu)
  BY <1>1, <1>2, NewPoolOK
<1>4. /\ kv.table \in [Reqs -> Seq(1..NumBlocks)]
      /\ kv.cached \in [Reqs -> Nat \cup {Untracked}]
      /\ \A r \in Reqs : Distinct(kv.table[r])
  BY <1>2, EmptyElements
<1>5. ASSUME NEW b \in 1..NumBlocks PROVE kv.npu.ref[b] = Cardinality(Sharers(kv, b))
  <2>1. Sharers(kv, b) = {}
    BY <1>2, EmptyElements DEF Sharers
  <2>2. QED
    BY <1>2, <2>1, FS_EmptySet DEF NewPool
<1>6. Tracked(kv)
  BY <1>2 DEF Tracked
<1>7. QED
  BY <1>2, <1>3, <1>4, <1>5, <1>6 DEF KVOK

(* free: the request gives back its table, in whatever state it is. *)
LEMMA FreeOK ==
  ASSUME NEW kv, KVOK(kv), NEW r \in Reqs
  PROVE  /\ KVOK(Free(kv, r))
         /\ Free(kv, r).table = [kv.table EXCEPT ![r] = << >>]
         /\ Tracked(kv) => Tracked(Free(kv, r))
         /\ Free(kv, r).npu.hash = kv.npu.hash
<1> DEFINE kw == Free(kv, r)
<1> DEFINE blocks == ReleaseOrder(kv.table[r])
<1>1. /\ kv.table \in [Reqs -> Seq(1..NumBlocks)] /\ Distinct(kv.table[r])
      /\ kv.cached \in [Reqs -> Nat \cup {Untracked}]
      /\ PoolOK(NumBlocks, kv.npu) /\ NumBlocks \in Nat
      /\ kv.table[r] \in Seq(1..NumBlocks)
  BY KVAssumption DEF KVOK
<1>2. /\ blocks \in Seq(1..NumBlocks) /\ Distinct(blocks)
      /\ ToSet(blocks) = ToSet(kv.table[r])
  BY <1>1, ReverseElements DEF ReleaseOrder
<1>3. /\ kw.npu = FreeBlocks(kv.npu, blocks)
      /\ kw.table = [kv.table EXCEPT ![r] = << >>]
      /\ kw.cached = [kv.cached EXCEPT ![r] = Untracked]
  BY DEF Free
<1> HIDE DEF blocks, kw
<1>4. \A b \in ToSet(blocks) : kv.npu.ref[b] > 0
  BY <1>2, TableIsHeld
<1>5. /\ PoolOK(NumBlocks, kw.npu)
      /\ \A b \in 1..NumBlocks : kw.npu.ref[b] =
           IF b \in ToSet(blocks) THEN kv.npu.ref[b] - 1 ELSE kv.npu.ref[b]
  <2>1. ASSUME NEW p, p = kv.npu
        PROVE  /\ PoolOK(NumBlocks, FreeBlocks(p, blocks))
               /\ \A b \in 1..NumBlocks : FreeBlocks(p, blocks).ref[b] =
                    IF b \in ToSet(blocks) THEN p.ref[b] - 1 ELSE p.ref[b]
    <3>1. /\ PoolOK(NumBlocks, p) /\ NumBlocks \in Nat
          /\ blocks \in Seq(1..NumBlocks) /\ Distinct(blocks)
          /\ \A b \in ToSet(blocks) : p.ref[b] > 0
      BY <1>1, <1>2, <1>4, <2>1
    <3>2. QED
      BY <3>1, FreeBlocksOK, ZenonT(40)
  <2>2. QED
    BY <1>3, <2>1
<1>6. /\ kw.table \in [Reqs -> Seq(1..NumBlocks)]
      /\ kw.cached \in [Reqs -> Nat \cup {Untracked}]
  BY <1>1, <1>3
<1>7. \A q \in Reqs : kw.table[q] = IF q = r THEN << >> ELSE kv.table[q]
  BY <1>1, <1>3
<1>8. \A q \in Reqs : Distinct(kw.table[q])
  BY <1>7, EmptyElements DEF KVOK
<1>9. ASSUME NEW b \in 1..NumBlocks PROVE kw.npu.ref[b] = Cardinality(Sharers(kw, b))
  <2>1. Sharers(kw, b) = Sharers(kv, b) \ {r}
    BY <1>7, EmptyElements DEF Sharers
  <2>2. kv.npu.ref[b] = Cardinality(Sharers(kv, b))
    BY DEF KVOK
  <2>3. r \in Sharers(kv, b) <=> b \in ToSet(blocks)
    BY <1>2 DEF Sharers
  <2>4. CASE b \in ToSet(blocks)
    BY <1>5, <2>1, <2>2, <2>3, <2>4, OneSharerLess
  <2>5. CASE b \notin ToSet(blocks)
    <3>1. Sharers(kw, b) = Sharers(kv, b)
      BY <2>1, <2>3, <2>5
    <3>2. QED
      BY <1>5, <2>2, <2>5, <3>1
  <2>6. QED
    BY <2>4, <2>5
<1>10. Tracked(kv) => Tracked(kw)
  BY <1>1, <1>3, <1>7 DEF Tracked
<1>11. kw.npu.hash = kv.npu.hash
  BY <1>3 DEF FreeBlocks
<1>12. QED
  BY <1>3, <1>5, <1>6, <1>8, <1>9, <1>10, <1>11 DEF KVOK, kw

(* cache_blocks moves no block. *)
LEMMA CacheBlocksOK ==
  ASSUME NEW kv, KVOK(kv), NEW r \in Reqs, NEW tokens,
         FullBlocks(r, tokens) \in Nat, FullBlocks(r, tokens) <= Len(Chain[r]),
         FullBlocks(r, tokens) <= Len(kv.table[r])
  PROVE  /\ KVOK(CacheBlocks(kv, r, tokens))
         /\ CacheBlocks(kv, r, tokens).table = kv.table
         /\ Tracked(kv) => Tracked(CacheBlocks(kv, r, tokens))
         /\ \A b \in 1..NumBlocks : kv.npu.hash[b] # NoHash
              => CacheBlocks(kv, r, tokens).npu.hash[b] = kv.npu.hash[b]
<1> DEFINE kw == CacheBlocks(kv, r, tokens)
<1> DEFINE from == NumCached(kv, r)
<1> DEFINE to == FullBlocks(r, tokens)
<1>1. /\ kv.table \in [Reqs -> Seq(1..NumBlocks)] /\ Distinct(kv.table[r])
      /\ kv.cached \in [Reqs -> Nat \cup {Untracked}]
      /\ PoolOK(NumBlocks, kv.npu) /\ NumBlocks \in Nat
      /\ kv.table[r] \in Seq(1..NumBlocks)
      /\ Chain[r] \in Seq(Hashes)
  BY KVAssumption DEF KVOK
<1>2. from \in Nat
  BY <1>1 DEF NumCached, Larger, Untracked
<1>3. CASE ~EnableCaching \/ from >= to
  BY <1>3 DEF CacheBlocks
<1>4. CASE EnableCaching /\ ~(from >= to)
  <2>1. /\ kw.npu = CacheFullBlocks(kv.npu, Chain[r], kv.table[r], from, to)
        /\ kw.table = kv.table /\ kw.cached = [kv.cached EXCEPT ![r] = to]
    BY <1>4 DEF CacheBlocks
  <2>2. Distinct(Chain[r])
    BY KVAssumption DEF Distinct
  <2> HIDE DEF kw, from, to
  <2>3. /\ PoolOK(NumBlocks, kw.npu) /\ kw.npu.ref = kv.npu.ref
        /\ \A b \in 1..NumBlocks :
             kv.npu.hash[b] # NoHash => kw.npu.hash[b] = kv.npu.hash[b]
    BY <1>1, <1>2, <2>1, <2>2, CacheFullBlocksOK DEF to
  <2>4. kw.cached \in [Reqs -> Nat \cup {Untracked}]
    BY <1>1, <2>1 DEF to
  <2>5. \A b : Sharers(kw, b) = Sharers(kv, b)
    BY <2>1 DEF Sharers
  <2>6. KVOK(kw)
    BY <2>1, <2>3, <2>4, <2>5 DEF KVOK
  <2>7. kv.table[r] # << >>
    <3>1. to > 0 /\ to <= Len(kv.table[r])
      BY <1>2, <1>4 DEF to
    <3>2. Len(kv.table[r]) > 0
      BY <1>1, <3>1 DEF to
    <3>3. QED
      BY <3>2
  <2>8. Tracked(kv) => Tracked(kw)
    BY <1>1, <2>1, <2>7 DEF Tracked
  <2>9. QED
    BY <2>1, <2>3, <2>6, <2>8 DEF kw
<1>5. QED
  BY <1>3, <1>4

(* A pool whose n blocks are the elements of the free list and of a set    *)
(* apart from it.                                                          *)
LEMMA FreeListLength ==
  ASSUME NEW n \in Nat, NEW p, PoolOK(n, p), NEW q, PoolOK(n, q), NEW T,
         ToSet(q.free) = ToSet(p.free) \ T
  PROVE  Len(q.free) = Len(p.free) - Cardinality(ToSet(p.free) \cap T)
<1> DEFINE F == ToSet(p.free)
<1>1. /\ IsFiniteSet(F) /\ Cardinality(F) = Len(p.free)
      /\ Cardinality(ToSet(q.free)) = Len(q.free)
      /\ Len(p.free) \in Nat /\ Len(q.free) \in Nat
  BY PoolOKFacts
<1>2. F \ T = F \ (F \cap T) /\ F \cap T \subseteq F /\ F \cap (F \cap T) = F \cap T
  OBVIOUS
<1>3. IsFiniteSet(F \cap T) /\ Cardinality(F \cap T) \in Nat
  BY <1>1, <1>2, FS_Subset, FS_CardinalityType
<1>4. Cardinality(F \ T) = Cardinality(F) - Cardinality(F \cap T)
  BY <1>1, <1>2, FS_Difference
<1>5. QED
  BY <1>1, <1>4

(* The hits are taken: their blocks become the table of r, and as many     *)
(* leave the free list as nobody held.                                     *)
LEMMA ClaimHitsOK ==
  ASSUME NEW kv, KVOK(kv), NEW r \in Reqs, kv.table[r] = << >>, NEW hit,
         hit.blocks \in Seq(1..NumBlocks), Distinct(hit.blocks),
         NEW kw, kw = ClaimHits(kv, r, hit)
  PROVE  /\ KVOK(kw)
         /\ kw.table = [kv.table EXCEPT ![r] = hit.blocks]
         /\ \A q \in Reqs \ {r} : kw.cached[q] = kv.cached[q]
         /\ Len(kw.npu.free) = Len(kv.npu.free) - Evictable(kv, hit.blocks)
         /\ kw.npu.hash = kv.npu.hash
         /\ \A b \in 1..NumBlocks : kw.npu.ref[b] >= kv.npu.ref[b]
         /\ kw.lower = kv.lower
         /\ kw.cached[r] \in {kv.cached[r], Len(hit.blocks)}
<1> DEFINE T == ToSet(hit.blocks)
<1>1. /\ kv.table \in [Reqs -> Seq(1..NumBlocks)]
      /\ kv.cached \in [Reqs -> Nat \cup {Untracked}]
      /\ PoolOK(NumBlocks, kv.npu) /\ NumBlocks \in Nat
  BY KVAssumption DEF KVOK
<1>2. /\ kv.npu.ref \in [1..NumBlocks -> Nat] /\ kv.npu.free \in Seq(1..NumBlocks)
      /\ \A b \in 1..NumBlocks : b \in ToSet(kv.npu.free) <=> kv.npu.ref[b] = 0
      /\ Len(kv.npu.free) \in Nat
  BY <1>1, PoolOKFacts
<1>3. T \subseteq 1..NumBlocks /\ ToSet(kv.npu.free) \subseteq 1..NumBlocks
  BY <1>2, ToSetType
<1>4. Evictable(kv, hit.blocks) = Cardinality(ToSet(kv.npu.free) \cap T)
  <2>1. {b \in T : kv.npu.ref[b] = 0} = ToSet(kv.npu.free) \cap T
    BY <1>2, <1>3
  <2>2. QED
    BY <2>1 DEF Evictable
<1>5. CASE hit.blocks = << >> /\ hit.lower = 0
  <2>1. kw = kv
    BY <1>5 DEF ClaimHits
  <2>2. kv.table = [kv.table EXCEPT ![r] = hit.blocks]
    BY <1>1, <1>5
  <2>3. ToSet(kv.npu.free) \cap T = {}
    BY <1>5, EmptyElements
  <2>4. Evictable(kv, hit.blocks) = 0
    BY <1>4, <2>3, FS_EmptySet
  <2>5. ASSUME NEW b \in 1..NumBlocks PROVE kv.npu.ref[b] >= kv.npu.ref[b]
    <3>1. kv.npu.ref[b] \in Nat
      BY <1>2
    <3>2. QED
      BY <3>1
  <2>6. Len(kv.npu.free) = Len(kv.npu.free) - Evictable(kv, hit.blocks)
    BY <1>2, <2>4
  <2>7. QED
    BY <2>1, <2>2, <2>5, <2>6
<1>6. CASE ~(hit.blocks = << >> /\ hit.lower = 0)
  <2>1. /\ kw.npu = Touch(kv.npu, T)
        /\ kw.table = [kv.table EXCEPT ![r] = @ \o hit.blocks]
        /\ kw.cached = [kv.cached EXCEPT ![r] = Len(kv.table[r] \o hit.blocks)]
    BY <1>6 DEF ClaimHits
  <2>2. kv.table[r] \o hit.blocks = hit.blocks /\ Len(hit.blocks) \in Nat
    OBVIOUS
  <2>3. /\ kw.table = [kv.table EXCEPT ![r] = hit.blocks]
        /\ kw.cached = [kv.cached EXCEPT ![r] = Len(hit.blocks)]
    BY <1>1, <2>1, <2>2
  <2> HIDE DEF T
  <2>4. /\ PoolOK(NumBlocks, kw.npu)
        /\ \A b \in 1..NumBlocks :
             kw.npu.ref[b] = IF b \in T THEN kv.npu.ref[b] + 1 ELSE kv.npu.ref[b]
        /\ ToSet(kw.npu.free) = ToSet(kv.npu.free) \ T
        /\ kw.npu.hash = kv.npu.hash
    <3>1. NumBlocks \in Nat /\ PoolOK(NumBlocks, kv.npu) /\ \A b \in T : b \in 1..NumBlocks
      BY <1>1, <1>3
    <3>2. QED
      BY <2>1, <3>1, TouchOK, SMTT(30)
  <2>5. /\ kw.table \in [Reqs -> Seq(1..NumBlocks)]
        /\ kw.cached \in [Reqs -> Nat \cup {Untracked}]
        /\ \A q \in Reqs : kw.table[q] = IF q = r THEN hit.blocks ELSE kv.table[q]
    BY <1>1, <2>2, <2>3
  <2>6. \A q \in Reqs : Distinct(kw.table[q])
    BY <2>5 DEF KVOK
  <2>7. ASSUME NEW b \in 1..NumBlocks PROVE kw.npu.ref[b] = Cardinality(Sharers(kw, b))
    <3>1. kv.npu.ref[b] = Cardinality(Sharers(kv, b)) /\ r \notin Sharers(kv, b)
      BY EmptyElements DEF KVOK, Sharers
    <3>2. CASE b \in T
      <4>1. Sharers(kw, b) = Sharers(kv, b) \cup {r}
        BY <2>5, <3>2 DEF Sharers, T
      <4>2. Cardinality(Sharers(kw, b)) = Cardinality(Sharers(kv, b)) + 1
        BY <3>1, <4>1, OneSharerMore, Zenon
      <4>3. QED
        BY <2>4, <3>1, <3>2, <4>2
    <3>3. CASE b \notin T
      <4>1. Sharers(kw, b) = Sharers(kv, b)
        BY <2>5, <3>1, <3>3, EmptyElements DEF Sharers, T
      <4>2. QED
        BY <2>4, <3>1, <3>3, <4>1
    <3>4. QED
      BY <3>2, <3>3
  <2>8. KVOK(kw)
    BY <2>4, <2>5, <2>6, <2>7 DEF KVOK
  <2>9. Len(kw.npu.free) = Len(kv.npu.free) - Evictable(kv, hit.blocks)
    <3>1. NumBlocks \in Nat /\ PoolOK(NumBlocks, kv.npu) /\ PoolOK(NumBlocks, kw.npu)
          /\ ToSet(kw.npu.free) = ToSet(kv.npu.free) \ T
      BY <1>1, <2>4
    <3>2. Len(kw.npu.free) = Len(kv.npu.free) - Cardinality(ToSet(kv.npu.free) \cap T)
      <4>1. ASSUME NEW p, p = kv.npu, NEW q, q = kw.npu
            PROVE  Len(q.free) = Len(p.free) - Cardinality(ToSet(p.free) \cap T)
        <5>1. /\ NumBlocks \in Nat /\ PoolOK(NumBlocks, p) /\ PoolOK(NumBlocks, q)
              /\ ToSet(q.free) = ToSet(p.free) \ T
          BY <3>1, <4>1
        <5>2. QED
          BY <5>1, FreeListLength, ZenonT(40)
      <4>2. QED
        BY <4>1
    <3>3. QED
      BY <1>4, <3>2
  <2>10. ASSUME NEW b \in 1..NumBlocks PROVE kw.npu.ref[b] >= kv.npu.ref[b]
    <3>1. kv.npu.ref[b] \in Nat
      BY <1>2
    <3>2. kw.npu.ref[b] = IF b \in T THEN kv.npu.ref[b] + 1 ELSE kv.npu.ref[b]
      BY <2>4
    <3>3. QED
      BY <3>1, <3>2
  <2>11. /\ \A q \in Reqs \ {r} : kw.cached[q] = kv.cached[q]
         /\ kw.cached[r] = Len(hit.blocks)
    BY <1>1, <2>3
  <2>12. kw.lower = kv.lower
    BY <1>6 DEF ClaimHits
  <2>13. QED
    BY <2>3, <2>4, <2>8, <2>9, <2>10, <2>11, <2>12
<1>7. QED
  BY <1>5, <1>6

(* New blocks: taken from the free list until r has the blocks its tokens  *)
(* need.                                                                   *)
LEMMA AllocateNewBlocksOK ==
  ASSUME NEW kv, KVOK(kv), NEW r \in Reqs, NEW tokens \in Nat,
         Len(kv.table[r]) <= CDiv(tokens, BlockSize),
         CDiv(tokens, BlockSize) - Len(kv.table[r]) <= Len(kv.npu.free)
  PROVE  LET kw == AllocateNewBlocks(kv, r, tokens)
         IN  /\ KVOK(kw)
             /\ Len(kw.table[r]) = CDiv(tokens, BlockSize)
             /\ \A q \in Reqs \ {r} : kw.table[q] = kv.table[q]
             /\ kw.cached = kv.cached
             /\ HeldKeepsHash(kv, kw)
             /\ \A b \in 1..NumBlocks : kw.npu.ref[b] >= kv.npu.ref[b]
             /\ kw.lower = kv.lower
             /\ Bare(kv) => Bare(kw) /\ Grows(kv, kw, r)
<1> DEFINE kw == AllocateNewBlocks(kv, r, tokens)
<1> DEFINE k == CDiv(tokens, BlockSize) - Len(kv.table[r])
<1> DEFINE got == PopLeft(kv.npu, k)
<1>1. /\ kv.table \in [Reqs -> Seq(1..NumBlocks)]
      /\ kv.cached \in [Reqs -> Nat \cup {Untracked}]
      /\ PoolOK(NumBlocks, kv.npu) /\ NumBlocks \in Nat
      /\ kv.table[r] \in Seq(1..NumBlocks) /\ Distinct(kv.table[r])
      /\ BlockSize \in Nat \ {0}
  BY KVAssumption DEF KVOK
<1>2. /\ CDiv(tokens, BlockSize) \in Nat /\ Len(kv.table[r]) \in Nat
      /\ Len(kv.npu.free) \in Nat
      /\ kv.npu.ref \in [1..NumBlocks -> Nat]
      /\ \A b \in 1..NumBlocks : b \in ToSet(kv.npu.free) <=> kv.npu.ref[b] = 0
  BY <1>1, CDivBounds, PoolOKFacts, LenProperties
<1>3. k \in 0..Len(kv.npu.free)
  BY <1>2
<1>4. \A b \in 1..NumBlocks : kv.npu.ref[b] \in Nat
  BY <1>2
<1>5. CASE k <= 0
  <2>1. kw = kv
    BY <1>5 DEF AllocateNewBlocks
  <2>2. Len(kv.table[r]) = CDiv(tokens, BlockSize)
    BY <1>2, <1>5
  <2>3. \A b \in 1..NumBlocks : kv.npu.ref[b] >= kv.npu.ref[b]
    BY <1>4
  <2>4. Grows(kv, kv, r)
    BY <1>2 DEF Grows
  <2> HIDE DEF kw
  <2>5. QED
    BY <2>1, <2>2, <2>3, <2>4 DEF kw, HeldKeepsHash
<1>6. CASE ~(k <= 0)
  <2>1. /\ kw.npu = GetNewBlocks(kv.npu, k)
        /\ kw.table = [kv.table EXCEPT ![r] = @ \o got]
        /\ kw.cached = kv.cached /\ kw.lower = kv.lower
    BY <1>6 DEF AllocateNewBlocks
  <2> HIDE DEF kw, got, k
  <2>2. /\ PoolOK(NumBlocks, kw.npu)
        /\ got \in Seq(1..NumBlocks) /\ Len(got) = k /\ Distinct(got)
        /\ ToSet(got) \subseteq ToSet(kv.npu.free)
        /\ \A b \in 1..NumBlocks : kw.npu.ref[b] =
             IF b \in ToSet(got) THEN kv.npu.ref[b] + 1 ELSE kv.npu.ref[b]
        /\ \A b \in 1..NumBlocks : b \notin ToSet(got) => kw.npu.hash[b] = kv.npu.hash[b]
        /\ EnableCaching => \A b \in ToSet(got) : kw.npu.hash[b] = NoHash
        /\ ~EnableCaching => \A b \in 1..NumBlocks : kw.npu.hash[b] = kv.npu.hash[b]
    <3>1. got = PopLeft(kv.npu, k)
      BY DEF got
    <3>2. NumBlocks \in Nat /\ PoolOK(NumBlocks, kv.npu) /\ k \in 0..Len(kv.npu.free)
      BY <1>1, <1>3 DEF KVOK
    <3>3. kw.npu = GetNewBlocks(kv.npu, k)
      BY <2>1
    <3>4. Popped(NumBlocks, kv.npu, k, kw.npu, got)
      BY ONLY <3>1, <3>2, <3>3, GetNewBlocksOK
    <3>5. QED
      BY <3>4 DEF Popped
  <2>3. \A b \in 1..NumBlocks : b \in ToSet(got) => kv.npu.ref[b] = 0
    BY <1>2, <2>2
  <2>4. ASSUME NEW b \in ToSet(got) PROVE b \in 1..NumBlocks /\ Sharers(kv, b) = {}
    <3>1. b \in 1..NumBlocks
      BY <2>2, ToSetType
    <3>2. Cardinality(Sharers(kv, b)) = 0
      BY <2>3, <3>1 DEF KVOK
    <3>3. QED
      BY <3>1, <3>2, SharersFinite, FS_EmptySet
  <2>5. ToSet(kv.table[r]) \cap ToSet(got) = {}
    BY <2>4 DEF Sharers
  <2>6. /\ kv.table[r] \o got \in Seq(1..NumBlocks)
        /\ Len(kv.table[r] \o got) = Len(kv.table[r]) + k
        /\ ToSet(kv.table[r] \o got) = ToSet(kv.table[r]) \cup ToSet(got)
        /\ Distinct(kv.table[r] \o got)
    <3>1. kv.table[r] \in Seq(1..NumBlocks) /\ got \in Seq(1..NumBlocks)
      BY <1>1, <2>2
    <3>2. /\ kv.table[r] \o got \in Seq(1..NumBlocks)
          /\ Len(kv.table[r] \o got) = Len(kv.table[r]) + Len(got)
          /\ ToSet(kv.table[r] \o got) = ToSet(kv.table[r]) \cup ToSet(got)
      BY <3>1, ConcatElements, ZenonT(40)
    <3>3. Distinct(kv.table[r] \o got)
      BY <1>1, <2>2, <2>5, <3>1, ConcatElements, ZenonT(40)
    <3>4. QED
      BY <2>2, <3>2, <3>3
  <2>7. /\ kw.table \in [Reqs -> Seq(1..NumBlocks)]
        /\ \A q \in Reqs \ {r} : kw.table[q] = kv.table[q]
        /\ kw.table[r] = kv.table[r] \o got
    BY <1>1, <2>1, <2>6
  <2>8. \A q \in Reqs : Distinct(kw.table[q])
    BY <2>6, <2>7 DEF KVOK
  <2>9. ASSUME NEW b \in 1..NumBlocks PROVE kw.npu.ref[b] = Cardinality(Sharers(kw, b))
    <3>1. kv.npu.ref[b] = Cardinality(Sharers(kv, b))
      BY DEF KVOK
    <3>2. CASE b \in ToSet(got)
      <4>1. r \notin Sharers(kv, b) /\ Sharers(kw, b) = Sharers(kv, b) \cup {r}
        BY <2>4, <2>6, <2>7, <3>2 DEF Sharers
      <4>2. Cardinality(Sharers(kw, b)) = Cardinality(Sharers(kv, b)) + 1
        BY <4>1, OneSharerMore, Zenon
      <4>3. QED
        BY <2>2, <3>1, <3>2, <4>2
    <3>3. CASE b \notin ToSet(got)
      <4>1. Sharers(kw, b) = Sharers(kv, b)
        BY <2>6, <2>7, <3>3 DEF Sharers
      <4>2. QED
        BY <2>2, <3>1, <3>3, <4>1
    <3>4. QED
      BY <3>2, <3>3
  <2>10. KVOK(kw)
    BY <1>1, <2>1, <2>2, <2>7, <2>8, <2>9 DEF KVOK
  <2>11. Len(kw.table[r]) = CDiv(tokens, BlockSize)
    BY <1>2, <2>6, <2>7 DEF k
  <2>12. ASSUME NEW b \in 1..NumBlocks PROVE kw.npu.ref[b] >= kv.npu.ref[b]
    BY <1>4, <2>2
  <2>13. HeldKeepsHash(kv, kw)
    <3>1. ASSUME NEW b \in 1..NumBlocks, kv.npu.ref[b] > 0 PROVE b \notin ToSet(got)
      BY <1>4, <2>3, <3>1
    <3>2. QED
      BY <2>2, <3>1 DEF HeldKeepsHash
  <2>14. ASSUME Bare(kv) PROVE Bare(kw) /\ Grows(kv, kw, r)
    <3>1. \A b \in ToSet(got) : kw.npu.hash[b] = NoHash
      BY <2>2, <2>4, <2>14 DEF Bare
    <3>2. Bare(kw)
      BY <2>2, <2>14 DEF Bare
    <3>3. ASSUME NEW i \in 1..Len(kv.table[r]) PROVE kw.table[r][i] = kv.table[r][i]
      BY <1>1, <2>2, <2>7, ConcatProperties
    <3>4. ASSUME NEW i \in (Len(kv.table[r]) + 1)..Len(kw.table[r])
          PROVE  kv.npu.ref[kw.table[r][i]] = 0 /\ kw.npu.hash[kw.table[r][i]] = NoHash
      <4>1. i - Len(kv.table[r]) \in 1..Len(got) /\ i \in 1..(Len(kv.table[r]) + Len(got))
            /\ ~(i <= Len(kv.table[r]))
        BY <1>2, <2>2, <2>6, <2>7, SMTT(30)
      <4>2. kw.table[r][i] = got[i - Len(kv.table[r])]
        BY <1>1, <2>2, <2>7, <4>1, ConcatProperties
      <4>3. kw.table[r][i] \in ToSet(got)
        BY <2>2, <4>1, <4>2, LenProperties DEF ToSet
      <4>4. QED
        BY <2>3, <2>4, <3>1, <4>3
    <3>5. Len(kv.table[r]) <= Len(kw.table[r])
      BY <1>2, <2>2, <2>6, <2>7
    <3>6. ASSUME NEW b \in 1..NumBlocks, kv.npu.ref[b] > 0
          PROVE  kw.npu.hash[b] = kv.npu.hash[b]
      <4>1. b \notin ToSet(got)
        BY <1>4, <2>3, <3>6
      <4>2. QED
        BY <2>2, <4>1
    <3>7. QED
      BY <3>2, <3>3, <3>4, <3>5, <3>6 DEF Grows
  <2>15. QED
    BY <2>1, <2>7, <2>10, <2>11, <2>12, <2>13, <2>14 DEF kw
<1>7. QED
  BY <1>5, <1>6

-----------------------------------------------------------------------------
(* get_computed_blocks *)

(* The NPU hit: k blocks, all of them indexed. *)
LEMMA NpuHitsOK ==
  ASSUME NEW kv, NEW r \in Reqs, NEW len \in Nat \ {0}
  PROVE  /\ NpuHits(kv, r, len) \in 0..Len(Chain[r])
         /\ \A i \in 1..NpuHits(kv, r, len) : CachedBlock(kv.npu, Chain[r][i]) # NoBlock
<1> DEFINE max == Lesser(MaxHitBlocks(len), Len(Chain[r]))
<1> DEFINE M == {i \in Nat : CachedBlock(kv.npu, Chain[r][i + 1]) = NoBlock}
<1> DEFINE P(k) == /\ \A i \in 1..k : ~(CachedBlock(kv.npu, Chain[r][i]) = NoBlock)
                   /\ k < max => CachedBlock(kv.npu, Chain[r][k + 1]) = NoBlock
<1>1. max \in Nat /\ max <= Len(Chain[r]) /\ Len(Chain[r]) \in Nat
  <2>1. BlockSize \in Nat \ {0} /\ Chain[r] \in Seq(Hashes) /\ len - 1 \in Nat
    BY KVAssumption
  <2>2. MaxHitBlocks(len) \in Nat
    BY <2>1, DivBounds DEF MaxHitBlocks
  <2>3. Len(Chain[r]) \in Nat
    BY <2>1, LenProperties
  <2>4. QED
    BY <2>2, <2>3 DEF Lesser
<1>2. NpuHits(kv, r, len) = CHOOSE k \in 0..max : P(k)
  BY DEF NpuHits
<1> HIDE DEF max
<1>3. \E k \in 0..max : P(k)
  <2>1. PICK k \in 0..max : /\ \A i \in 0..(k - 1) : i \notin M
                            /\ k < max => k \in M
    <3> HIDE DEF M
    <3>1. 0 \in Nat /\ max \in Nat /\ 0 <= max
      BY <1>1
    <3>2. PICK N : N = M
      OBVIOUS
    <3>3. N \in SUBSET Nat
      BY <3>2 DEF M
    <3>4. \E k \in 0..max : /\ \A i \in 0..(k - 1) : i \notin N
                            /\ k < max => k \in N
      BY <3>1, <3>3, LongestRun
    <3>5. QED
      BY <3>2, <3>4
  <2>2. ASSUME NEW i \in 1..k PROVE ~(CachedBlock(kv.npu, Chain[r][i]) = NoBlock)
    <3>1. i - 1 \in 0..(k - 1) /\ i - 1 \in Nat /\ (i - 1) + 1 = i
      BY <1>1, <2>1
    <3>2. QED
      BY <2>1, <3>1
  <2>3. QED
    BY <2>1, <2>2
<1> HIDE DEF P
<1>4. NpuHits(kv, r, len) \in 0..max /\ P(NpuHits(kv, r, len))
  BY <1>2, <1>3
<1>5. QED
  BY <1>1, <1>4 DEF P

(* A victim tier's blocks are whole multiples of an NPU block. *)
LEMMA TierFactor ==
  ASSUME NEW t \in DOMAIN Tiers
  PROVE  Tiers[t].factor \in Nat \ {0} /\ Tiers[t].blocks \in Nat \ {0}
<1>1. Tiers \in Seq([blocks : Nat \ {0}, factor : Nat \ {0}])
  BY KVAssumption
<1>2. Tiers[t] \in [blocks : Nat \ {0}, factor : Nat \ {0}]
  BY ZenonT(40), <1>1, LenProperties
<1>3. QED
  BY <1>2

(* What a victim tier adds is a number of tokens. *)
LEMMA GainedType ==
  ASSUME NEW kv, NEW r \in Reqs, NEW len \in Nat, NEW t \in DOMAIN Tiers, NEW npuHit \in Nat
  PROVE  Gained(kv, r, len, t, npuHit) \in Int
<1> DEFINE coarse == BlockSize * Tiers[t].factor
<1> DEFINE start == npuHit \div coarse
<1> DEFINE end == MaxCoarse(len, coarse)
<1> DEFINE top == Larger(start, end)
<1> DEFINE M == {i \in Nat : ~CoarseHit(kv, r, t, i)}
<1> DEFINE P(k) == /\ \A i \in start..(k - 1) : CoarseHit(kv, r, t, i)
                   /\ k < end => ~CoarseHit(kv, r, t, k)
<1> DEFINE last == CHOOSE k \in start..top : P(k)
<1>1. Gained(kv, r, len, t, npuHit) = coarse * last - npuHit
  BY DEF Gained
<1>2. coarse \in Nat \ {0}
  <2>1. BlockSize \in Nat \ {0} /\ Tiers[t].factor \in Nat \ {0}
    BY KVAssumption, TierFactor
  <2>2. QED
    BY <2>1
<1> HIDE DEF coarse
<1>3. start \in Nat /\ end \in Nat
  BY <1>2, DivBounds DEF MaxCoarse
<1> HIDE DEF start, end
<1>4. top \in Nat /\ start <= top /\ end <= top
  BY <1>3 DEF Larger
<1> HIDE DEF top
<1>5. \E k \in start..top : P(k)
  <2>1. PICK N : N = M
    OBVIOUS
  <2>2. N \in SUBSET Nat
    BY <2>1
  <2>3. PICK k \in start..top : /\ \A i \in start..(k - 1) : i \notin N
                                /\ k < top => k \in N
    BY <1>3, <1>4, <2>2, LongestRun
  <2>4. ASSUME NEW i \in start..(k - 1) PROVE CoarseHit(kv, r, t, i)
    <3>1. i \in Nat
      BY <1>3
    <3>2. QED
      BY <2>1, <2>3, <3>1
  <2>5. ASSUME k < end PROVE ~CoarseHit(kv, r, t, k)
    <3>1. k < top
      BY <1>3, <1>4, <2>3, <2>5
    <3>2. QED
      BY <2>1, <2>3, <3>1
  <2>6. QED
    BY <2>3, <2>4, <2>5
<1> HIDE DEF P
<1>6. last \in start..top
  BY <1>5
<1> HIDE DEF last
<1>7. coarse * last \in Int
  BY <1>2, <1>3, <1>6
<1>8. QED
  BY <1>1, <1>7

(* Nothing is taken away by a victim tier. *)
LEMMA LowerHitType ==
  ASSUME NEW kv, NEW r \in Reqs, NEW len \in Nat, NEW npuHit \in Nat
  PROVE  LowerHit(kv, r, len, npuHit) \in Nat
<1> DEFINE worth == {t \in DOMAIN Tiers :
                       Gained(kv, r, len, t, npuHit) >= BlockSize * Tiers[t].factor}
<1>1. CASE worth = {}
  BY <1>1 DEF LowerHit
<1>2. CASE worth # {}
  <2>1. LowerHit(kv, r, len, npuHit) = Gained(kv, r, len, Min(worth), npuHit)
    BY <1>2 DEF LowerHit
  <2>2. DOMAIN Tiers = 1..Len(Tiers) /\ Len(Tiers) \in Nat
    BY KVAssumption, LenProperties
  <2>3. worth \in SUBSET Nat
    BY <2>2
  <2>4. \E m \in worth : \A i \in worth : m <= i
    BY <1>2, <2>3, LeastElement
  <2>5. Min(worth) \in worth
    <3> HIDE DEF worth
    <3>1. QED
      BY <2>4 DEF Min
  <2>6. PICK t \in DOMAIN Tiers : /\ t = Min(worth)
                                  /\ Gained(kv, r, len, t, npuHit) >= BlockSize * Tiers[t].factor
    BY <2>5
  <2>7. Gained(kv, r, len, t, npuHit) \in Int
    BY GainedType
  <2>8. BlockSize * Tiers[t].factor \in Nat
    <3>1. BlockSize \in Nat \ {0} /\ Tiers[t].factor \in Nat \ {0}
      BY KVAssumption, TierFactor
    <3>2. QED
      BY <3>1
  <2>9. QED
    BY <2>1, <2>6, <2>7, <2>8
<1>3. QED
  BY <1>1, <1>2

(* A hit of get_computed_blocks is a list of different blocks, each of     *)
(* them full, and whole tokens of a victim tier.                           *)
LEMMA GetComputedBlocksOK ==
  ASSUME NEW kv, KVOK(kv), NEW r \in Reqs, NEW len \in Nat \ {0},
         NEW hit, hit = GetComputedBlocks(kv, r, len)
  PROVE  /\ hit.blocks \in Seq(1..NumBlocks) /\ Distinct(hit.blocks)
         /\ hit.npu \in Nat /\ hit.npu = Len(hit.blocks) * BlockSize
         /\ hit.lower \in Nat
         /\ HitsPrefix(kv, r, hit.blocks)
<1> DEFINE k == NpuHits(kv, r, len)
<1> DEFINE blocks == [i \in 1..k |-> CachedBlock(kv.npu, Chain[r][i])]
<1>1. /\ hit.blocks = blocks /\ hit.npu = k * BlockSize
      /\ hit.lower = LowerHit(kv, r, len, k * BlockSize)
  BY DEF GetComputedBlocks
<1>2. /\ Chain[r] \in Seq(Hashes) /\ BlockSize \in Nat \ {0}
      /\ DOMAIN Chain[r] = 1..Len(Chain[r]) /\ Len(Chain[r]) \in Nat
      /\ NumBlocks \in Nat
  BY KVAssumption, LenProperties
<1>3. /\ k \in Nat /\ k <= Len(Chain[r])
      /\ \A i \in 1..k : CachedBlock(kv.npu, Chain[r][i]) # NoBlock
  BY <1>2, NpuHitsOK
<1> HIDE DEF k
<1>4. ASSUME NEW i \in 1..k
      PROVE  /\ Chain[r][i] \in Hashes /\ i \in DOMAIN Chain[r]
             /\ blocks[i] \in 1..NumBlocks /\ kv.npu.hash[blocks[i]] = Chain[r][i]
  <2>1. i \in DOMAIN Chain[r] /\ Chain[r][i] \in Hashes
    BY <1>2, <1>3
  <2>2. kv.npu.index \in [Hashes -> 0..NumBlocks] /\ IndexSound(kv.npu)
    BY <1>2, PoolOKFacts DEF KVOK, PoolOK
  <2>3. blocks[i] = kv.npu.index[Chain[r][i]] /\ blocks[i] # NoBlock
    BY <1>3 DEF CachedBlock
  <2>4. QED
    BY <1>2, <2>1, <2>2, <2>3 DEF IndexSound, NoBlock
<1>5. DOMAIN blocks = 1..k
  OBVIOUS
<1> HIDE DEF blocks
<1>6. blocks \in Seq(1..NumBlocks) /\ Len(blocks) = k
  <2>1. blocks \in [1..k -> 1..NumBlocks]
    BY <1>4, <1>5 DEF blocks
  <2>2. blocks \in Seq(1..NumBlocks)
    BY <1>3, <2>1, SeqDef
  <2>3. QED
    BY <1>3, <1>5, <2>2, LenProperties
<1>7. Distinct(blocks)
  <2>1. ASSUME NEW i \in 1..k, NEW j \in 1..k, blocks[i] = blocks[j] PROVE i = j
    <3>1. Chain[r][i] = Chain[r][j] /\ i \in DOMAIN Chain[r] /\ j \in DOMAIN Chain[r]
      BY <1>4, <2>1
    <3>2. QED
      BY <3>1, KVAssumption
  <2>2. QED
    BY <1>5, <2>1 DEF Distinct
<1>8. k * BlockSize \in Nat
  BY <1>2, <1>3
<1>9. LowerHit(kv, r, len, k * BlockSize) \in Nat
  BY <1>8, LowerHitType
<1>10. HitsPrefix(kv, r, blocks)
  BY <1>3, <1>4, <1>6 DEF HitsPrefix
<1>11. QED
  BY <1>1, <1>6, <1>7, <1>8, <1>9, <1>10

-----------------------------------------------------------------------------
(* The victim tiers *)

(* A victim tier never holds anything: whatever is on it can be reclaimed. *)
Victims(lower) ==
  /\ DOMAIN lower = DOMAIN Tiers
  /\ \A t \in DOMAIN Tiers : Unpinned(Tiers[t].blocks, lower[t])

(* c[k] is the pool after the first k of n keys are copied. *)
CopyRun(c, pool, keys, n) ==
  c = [k \in 0..n |-> IF k = 0 THEN pool ELSE CacheCopy(c[k - 1], keys[k])]

(* There is such a run. *)
LEMMA CopiesExist ==
  ASSUME NEW pool, NEW keys, NEW n \in Nat
  PROVE  \E c : CopyRun(c, pool, keys, n)
<1> DEFINE M == {m \in Nat : ~\E c : CopyRun(c, pool, keys, m)}
<1>1. SUFFICES ASSUME M # {} PROVE FALSE
  BY <1>1
<1>2. PICK m \in M : \A i \in M : m <= i
  <2>1. M \in SUBSET Nat
    OBVIOUS
  <2>2. QED
    BY <1>1, <2>1, LeastElement
<1>3. m \in Nat /\ ~\E c : CopyRun(c, pool, keys, m)
  BY <1>2
<1>4. CASE m = 0
  <2>1. CopyRun([k \in 0..0 |-> pool], pool, keys, 0)
    BY DEF CopyRun
  <2>2. QED
    BY <1>3, <1>4, <2>1
<1>5. CASE m # 0
  <2>1. m - 1 \in Nat /\ m - 1 \notin M
    <3> HIDE DEF M
    <3>1. QED
      BY <1>3, <1>2, <1>5
  <2>2. PICK c : CopyRun(c, pool, keys, m - 1)
    BY <2>1
  <2> DEFINE d == [k \in 0..m |-> IF k < m THEN c[k] ELSE CacheCopy(c[m - 1], keys[m])]
  <2>3. ASSUME NEW k \in 0..m
        PROVE  d[k] = IF k = 0 THEN pool ELSE CacheCopy(d[k - 1], keys[k])
    <3>1. CASE k = m
      BY <1>5, <2>1, <3>1
    <3>2. CASE k # m
      <4>1. k \in 0..(m - 1) /\ d[k] = c[k]
        BY <1>3, <3>2
      <4>2. c[k] = IF k = 0 THEN pool ELSE CacheCopy(c[k - 1], keys[k])
        BY <2>2, <4>1 DEF CopyRun
      <4>3. k # 0 => d[k - 1] = c[k - 1]
        BY <1>3, <4>1
      <4>4. QED
        BY <4>1, <4>2, <4>3
    <3>3. QED
      BY <3>1, <3>2
  <2>4. d = [k \in 0..m |-> d[k]]
    OBVIOUS
  <2> HIDE DEF d
  <2>5. CopyRun(d, pool, keys, m)
    BY <2>3, <2>4 DEF CopyRun
  <2>6. QED
    BY <1>3, <2>5
<1>6. QED
  BY <1>4, <1>5

(* Copies leave a victim tier free, and the last key indexed. *)
LEMMA CacheCopiesOK ==
  ASSUME NEW n \in Nat \ {0}, NEW pool, Unpinned(n, pool), NEW keys \in Seq(Hashes)
  PROVE  /\ Unpinned(n, CacheCopies(pool, keys))
         /\ EnableCaching /\ keys # << >>
              => CacheCopies(pool, keys).index[keys[Len(keys)]] # NoBlock
<1> DEFINE len == Len(keys)
<1> DEFINE copied == CHOOSE c : CopyRun(c, pool, keys, len)
<1>1. len \in Nat /\ \A k \in 1..len : keys[k] \in Hashes
  BY LenProperties, ElementOfSeq
<1>2. CacheCopies(pool, keys) = copied[len]
  BY DEF CacheCopies, CopyRun
<1>3. CopyRun(copied, pool, keys, len)
  <2>1. \E c : CopyRun(c, pool, keys, len)
    BY <1>1, CopiesExist
  <2>2. QED
    BY <2>1
<1> HIDE DEF copied, len
<1>4. ASSUME NEW k \in 0..len
      PROVE  copied[k] = IF k = 0 THEN pool ELSE CacheCopy(copied[k - 1], keys[k])
  BY <1>3 DEF CopyRun
<1> DEFINE M == {k \in 0..len : ~Unpinned(n, copied[k])}
<1>5. M = {}
  <2>1. SUFFICES ASSUME M # {} PROVE FALSE
    BY <2>1
  <2>2. M \in SUBSET Nat
    BY <1>1
  <2>3. PICK m \in M : \A i \in M : m <= i
    BY <2>1, <2>2, LeastElement
  <2>4. m # 0
    BY <1>4, <2>3
  <2>5. m - 1 \in 0..len /\ m - 1 \notin M /\ m \in 1..len
    BY <1>1, <2>3, <2>4
  <2>6. Unpinned(n, copied[m - 1]) /\ keys[m] \in Hashes
    BY <1>1, <2>5
  <2>7. Unpinned(n, CacheCopy(copied[m - 1], keys[m]))
    BY <2>6, CacheCopyOK
  <2>8. QED
    BY <1>4, <2>3, <2>4, <2>7
<1>6. Unpinned(n, copied[len])
  BY <1>1, <1>5
<1>7. ASSUME EnableCaching, keys # << >> PROVE copied[len].index[keys[len]] # NoBlock
  <2>1. len \in 1..len /\ len - 1 \in 0..len /\ len # 0 /\ len \in 0..len
    BY <1>1, <1>7, EmptySeq DEF len
  <2>2. Unpinned(n, copied[len - 1]) /\ keys[len] \in Hashes
    BY <1>1, <1>5, <2>1
  <2>3. CacheCopy(copied[len - 1], keys[len]).index[keys[len]] # NoBlock
    BY <1>7, <2>2, CacheCopyOK
  <2>4. QED
    BY <1>4, <2>1, <2>3
<1>8. QED
  BY <1>2, <1>6, <1>7 DEF len

(* A longer run of whole blocks covers more tokens. *)
LEMMA ProductMonotonic ==
  ASSUME NEW x \in Int, NEW y \in Int, NEW k \in Nat, x <= y
  PROVE  k * x \in Int /\ k * y \in Int /\ k * x <= k * y
OBVIOUS

(* The keys of coarse blocks that whole fine blocks complete. *)
LEMMA CoarseKeysOK ==
  ASSUME NEW r \in Reqs, NEW f \in Nat \ {0}, NEW from \in Nat, NEW to \in Nat,
         from <= to, to <= Len(Chain[r]),
         NEW keys, keys = CoarseKeys(r, f, from \div f, (to \div f) - (from \div f))
  PROVE  /\ keys \in Seq(Hashes)
         /\ (to \div f) > (from \div f) =>
              keys # << >> /\ keys[Len(keys)] = Chain[r][f * (to \div f)]
<1> DEFINE first == from \div f
<1> DEFINE last == to \div f
<1> DEFINE n == last - first
<1>1. /\ first \in Nat /\ f * first <= from /\ from < f * first + f
      /\ last \in Nat /\ f * last <= to /\ to < f * last + f
  BY DivBounds
<1>2. /\ Chain[r] \in Seq(Hashes) /\ Len(Chain[r]) \in Nat
      /\ \A i \in 1..Len(Chain[r]) : Chain[r][i] \in Hashes
  BY KVAssumption, LenProperties, ElementOfSeq
<1>3. keys = [i \in 1..n |-> Chain[r][f * (first + i)]]
  BY DEF CoarseKeys
<1> HIDE DEF first, last
<1>4. first <= last
  <2>1. f * first < f * last + f
    <3>1. f * first \in Int /\ f * last \in Int
      BY <1>1
    <3>2. QED
      BY <1>1, <3>1
  <2>2. QED
    BY <1>1, <2>1, ProductOrder
<1>5. n \in Nat
  BY <1>1, <1>4
<1>6. ASSUME NEW i \in 1..n PROVE Chain[r][f * (first + i)] \in Hashes
  <2>1. first + i \in Nat /\ first + i <= last /\ 1 <= first + i
    BY <1>1, <1>5
  <2>2. f * (first + i) \in Int /\ f * last \in Int /\ f * (first + i) <= f * last
    BY <1>1, <2>1, ProductMonotonic
  <2>3. f * 1 \in Int /\ f * 1 <= f * (first + i)
    BY <1>1, <2>1, ProductMonotonic
  <2>4. f * (first + i) \in 1..Len(Chain[r])
    BY <1>1, <1>2, <2>2, <2>3, SMTT(30)
  <2>5. QED
    BY <1>2, <2>4
<1> HIDE DEF n
<1>7. keys \in Seq(Hashes) /\ Len(keys) = n
  <2>1. keys \in [1..n -> Hashes]
    BY <1>3, <1>6
  <2>2. keys \in Seq(Hashes)
    BY <1>5, <2>1, SeqDef
  <2>3. QED
    BY <1>3, <1>5, <2>2, LenProperties
<1>8. ASSUME last > first PROVE keys # << >> /\ keys[Len(keys)] = Chain[r][f * last]
  <2>1. n \in 1..n /\ first + n = last
    BY <1>1, <1>5, <1>8 DEF n
  <2>2. QED
    BY <1>3, <1>7, <2>1
<1>9. QED
  BY <1>7, <1>8 DEF first, last

(* _write_down: the victim tiers stay free, and have the last coarse block *)
(* that is complete.                                                       *)
LEMMA WriteDownOK ==
  ASSUME NEW kv, Victims(kv.lower), NEW r \in Reqs, NEW from \in Nat, NEW to \in Nat,
         from <= to, to <= Len(Chain[r])
  PROVE  /\ Victims(WriteDown(kv, r, from, to))
         /\ EnableCaching => \A t \in DOMAIN Tiers :
              LET f == Tiers[t].factor
              IN  (to \div f) > (from \div f) =>
                    WriteDown(kv, r, from, to)[t].index[Chain[r][f * (to \div f)]] # NoBlock
<1> DEFINE low == WriteDown(kv, r, from, to)
<1>1. DOMAIN low = DOMAIN Tiers
  BY DEF WriteDown
<1>2. ASSUME NEW t \in DOMAIN Tiers
      PROVE  /\ Unpinned(Tiers[t].blocks, low[t])
             /\ EnableCaching /\ (to \div Tiers[t].factor) > (from \div Tiers[t].factor) =>
                  low[t].index[Chain[r][Tiers[t].factor * (to \div Tiers[t].factor)]] # NoBlock
  <2> DEFINE f == Tiers[t].factor
  <2> DEFINE keys == CoarseKeys(r, f, from \div f, (to \div f) - (from \div f))
  <2>1. f \in Nat \ {0} /\ Tiers[t].blocks \in Nat \ {0}
    BY TierFactor
  <2>2. low[t] = CacheCopies(kv.lower[t], keys)
    BY DEF WriteDown
  <2> HIDE DEF f, keys, low
  <2>3. /\ keys \in Seq(Hashes)
        /\ (to \div f) > (from \div f) =>
             keys # << >> /\ keys[Len(keys)] = Chain[r][f * (to \div f)]
    BY <2>1, CoarseKeysOK DEF keys
  <2>4. Unpinned(Tiers[t].blocks, kv.lower[t])
    BY DEF Victims
  <2>5. /\ Unpinned(Tiers[t].blocks, low[t])
        /\ EnableCaching /\ keys # << >> => low[t].index[keys[Len(keys)]] # NoBlock
    BY <2>1, <2>2, <2>3, <2>4, CacheCopiesOK
  <2>6. QED
    BY <2>3, <2>5 DEF f
<1> HIDE DEF low
<1>3. QED
  BY <1>1, <1>2 DEF Victims, low

-----------------------------------------------------------------------------
(* What the blocks of a table hold. *)

(* num_cached_block is a number. *)
LEMMA NumCachedType ==
  ASSUME NEW kv, KVOK(kv), NEW r \in Reqs
  PROVE  NumCached(kv, r) \in Nat
BY DEF KVOK, NumCached, Larger, Untracked

(* An element of a table, and its position. *)
LEMMA TableElement ==
  ASSUME NEW kv, KVOK(kv), NEW r \in Reqs
  PROVE  /\ DOMAIN kv.table[r] = 1..Len(kv.table[r]) /\ Len(kv.table[r]) \in Nat
         /\ \A i \in 1..Len(kv.table[r]) : kv.table[r][i] \in 1..NumBlocks
         /\ \A i \in 1..Len(kv.table[r]) : kv.table[r][i] \in ToSet(kv.table[r])
<1>1. kv.table[r] \in Seq(1..NumBlocks)
  BY DEF KVOK
<1>2. DOMAIN kv.table[r] = 1..Len(kv.table[r]) /\ Len(kv.table[r]) \in Nat
  BY <1>1, LenProperties
<1>3. QED
  BY <1>1, <1>2, ElementOfSeq DEF ToSet

(* Nothing is newly cached, so nothing has to be written down. *)
LEMMA WritesNothing ==
  ASSUME NEW kv, KVOK(kv), NEW kw, NEW r \in Reqs,
         NumCached(kw, r) \in Nat, NumCached(kw, r) <= NumCached(kv, r)
  PROVE  WritesDown(kv, kw, r)
<1>1. NumCached(kv, r) \in Nat
  BY NumCachedType
<1>2. ASSUME NEW t \in DOMAIN Tiers
      PROVE  ~((NumCached(kw, r) \div Tiers[t].factor) > (NumCached(kv, r) \div Tiers[t].factor))
  <2> DEFINE f == Tiers[t].factor
  <2> DEFINE a == NumCached(kw, r)
  <2> DEFINE b == NumCached(kv, r)
  <2>1. f \in Nat \ {0}
    BY TierFactor
  <2> HIDE DEF f, a, b
  <2>2. a \in Nat /\ b \in Nat /\ a <= b
    BY <1>1 DEF a, b
  <2>3. /\ a \div f \in Nat /\ f * (a \div f) <= a
        /\ b \div f \in Nat /\ b < f * (b \div f) + f
    BY <2>1, <2>2, DivBounds
  <2>4. f * (a \div f) \in Int /\ f * (b \div f) \in Int
    BY <2>1, <2>3
  <2>5. f * (a \div f) < f * (b \div f) + f
    BY <2>1, <2>2, <2>3, <2>4
  <2>6. (a \div f) <= (b \div f)
    BY <2>1, <2>3, <2>5, ProductOrder
  <2>7. QED
    BY <2>3, <2>6 DEF f, a, b
<1>3. QED
  BY <1>2 DEF WritesDown

(* The blocks that tokens fill hold no more than those tokens. *)
LEMMA FullBlocksTokens ==
  ASSUME NEW r \in Reqs, NEW tokens \in Nat
  PROVE  FullBlocks(r, tokens) \in Nat /\ FullBlocks(r, tokens) * BlockSize <= tokens
<1> DEFINE n == tokens \div BlockSize
<1>1. BlockSize \in Nat \ {0} /\ Len(Chain[r]) \in Nat
  BY KVAssumption, LenProperties
<1>2. n \in Nat /\ BlockSize * n <= tokens
  BY <1>1, DivBounds
<1>3. FullBlocks(r, tokens) \in Nat /\ FullBlocks(r, tokens) <= n
  BY <1>1, <1>2 DEF FullBlocks, Lesser
<1> HIDE DEF n
<1>4. /\ BlockSize * FullBlocks(r, tokens) \in Int /\ BlockSize * n \in Int
      /\ BlockSize * FullBlocks(r, tokens) <= BlockSize * n
  BY <1>1, <1>2, <1>3, ProductMonotonic
<1>5. FullBlocks(r, tokens) * BlockSize = BlockSize * FullBlocks(r, tokens)
  BY <1>1, <1>3
<1>6. QED
  BY <1>2, <1>3, <1>4, <1>5

(* cache_blocks gives each block it hashes the hash of its own position,   *)
(* and blocks that another request holds keep theirs.                      *)
LEMMA CacheBlocksContent ==
  ASSUME NEW kv, KVOK(kv), Content(kv), Victims(kv.lower), NEW r \in Reqs, NEW tokens,
         FullBlocks(r, tokens) \in Nat, FullBlocks(r, tokens) <= Len(Chain[r]),
         FullBlocks(r, tokens) <= Len(kv.table[r]),
         NEW kw, kw = CacheBlocks(kv, r, tokens)
  PROVE  /\ Content(kw) /\ Victims(kw.lower)
         /\ NumCached(kw, r) \in {NumCached(kv, r), FullBlocks(r, tokens)}
         /\ \A q \in Reqs \ {r} : kw.cached[q] = kv.cached[q]
         /\ WritesDown(kv, kw, r)
<1> DEFINE from == NumCached(kv, r)
<1> DEFINE to == FullBlocks(r, tokens)
<1>1. from \in Nat
  BY NumCachedType
<1>2. CASE ~EnableCaching \/ from >= to
  <2>1. kw = kv
    BY <1>2 DEF CacheBlocks
  <2>2. WritesDown(kv, kv, r)
    BY <1>1, WritesNothing
  <2>3. QED
    BY <2>1, <2>2
<1>3. CASE EnableCaching /\ from < to
  <2>1. /\ kw.npu = CacheFullBlocks(kv.npu, Chain[r], kv.table[r], from, to)
        /\ kw.lower = WriteDown(kv, r, from, to)
        /\ kw.table = kv.table /\ kw.cached = [kv.cached EXCEPT ![r] = to]
    BY <1>1, <1>3 DEF CacheBlocks
  <2>2. /\ kv.table[r] \in Seq(1..NumBlocks) /\ Distinct(kv.table[r])
        /\ PoolOK(NumBlocks, kv.npu) /\ NumBlocks \in Nat
        /\ Chain[r] \in Seq(Hashes) /\ Distinct(Chain[r])
        /\ \A i \in 1..Len(Chain[r]) : Chain[r][i] \in Hashes
    BY KVAssumption, ElementOfSeq DEF KVOK, Distinct
  <2>3. to \in Nat /\ to <= Len(Chain[r]) /\ to <= Len(kv.table[r])
    OBVIOUS
  <2> HIDE DEF from, to
  <2>4. /\ \A b \in 1..NumBlocks :
             kv.npu.hash[b] # NoHash => kw.npu.hash[b] = kv.npu.hash[b]
        /\ \A b \in 1..NumBlocks :
             kw.npu.hash[b] = kv.npu.hash[b] \/ Placed(kv.table[r], from, to, b)
        /\ EnableCaching => \A i \in (from + 1)..to :
             kv.npu.hash[kv.table[r][i]] = NoHash => kw.npu.hash[kv.table[r][i]] = Chain[r][i]
    <3>1. from \in Nat /\ to \in Nat /\ to <= Len(Chain[r]) /\ to <= Len(kv.table[r])
      BY <1>1, <2>3
    <3>2. /\ \A b \in 1..NumBlocks :
               kv.npu.hash[b] # NoHash => kw.npu.hash[b] = kv.npu.hash[b]
          /\ Filled(NumBlocks, kv.npu, kw.npu, Chain[r], kv.table[r], from, to)
      BY <2>1, <2>2, <3>1, CacheFullBlocksOK
    <3>3. QED
      BY <3>2 DEF Filled
  <2>5. /\ NumCached(kw, r) = to
        /\ \A q \in Reqs \ {r} : kw.cached[q] = kv.cached[q] /\ NumCached(kw, q) = NumCached(kv, q)
    BY <2>1, <2>3 DEF KVOK, NumCached, Larger
  <2>6. DOMAIN kv.table[r] = 1..Len(kv.table[r]) /\ Len(kv.table[r]) \in Nat
    BY TableElement
  <2>7. HoldsPrefix(kw, r)
    <3>1. ASSUME NEW i \in DOMAIN kv.table[r]
          PROVE  /\ kw.npu.hash[kv.table[r][i]] # NoHash
                      => i <= Len(Chain[r]) /\ kw.npu.hash[kv.table[r][i]] = Chain[r][i]
                 /\ i <= to => kw.npu.hash[kv.table[r][i]] # NoHash
      <4> DEFINE b == kv.table[r][i]
      <4>1. /\ b \in 1..NumBlocks /\ i \in 1..Len(kv.table[r])
            /\ kv.npu.hash[b] # NoHash => i <= Len(Chain[r]) /\ kv.npu.hash[b] = Chain[r][i]
            /\ i <= from => kv.npu.hash[b] # NoHash
        BY TableElement DEF Content, HoldsPrefix, from
      <4>2. CASE kv.npu.hash[b] # NoHash
        BY <2>4, <4>1, <4>2
      <4>3. CASE kv.npu.hash[b] = NoHash /\ i \in (from + 1)..to
        <5>1. kw.npu.hash[b] = Chain[r][i]
          BY <1>3, <2>4, <4>3
        <5>2. i \in 1..Len(Chain[r])
          BY <1>1, <2>2, <2>3, <4>3, LenProperties
        <5>3. QED
          BY <2>2, <5>1, <5>2, HashAssumption, LenProperties
      <4>4. CASE kv.npu.hash[b] = NoHash /\ i \notin (from + 1)..to
        <5>1. \A j \in (from + 1)..to : kv.table[r][j] # b
          <6>1. ASSUME NEW j \in (from + 1)..to PROVE j \in DOMAIN kv.table[r] /\ j # i
            BY <1>1, <2>3, <2>6, <4>4
          <6>2. QED
            BY <2>2, <6>1 DEF Distinct
        <5>2. kw.npu.hash[b] = NoHash
          BY <2>4, <4>1, <4>4, <5>1 DEF Placed
        <5>3. ~(i <= to)
          BY <1>1, <2>3, <4>1, <4>4
        <5>4. QED
          BY <5>2, <5>3
      <4>5. QED
        BY <4>2, <4>3, <4>4
    <3>2. QED
      BY <2>1, <2>3, <2>5, <3>1 DEF HoldsPrefix
  <2>8. ASSUME NEW q \in Reqs \ {r} PROVE HoldsPrefix(kw, q)
    <3>1. HoldsPrefix(kv, q)
      BY DEF Content
    <3>2. ASSUME NEW i \in DOMAIN kv.table[q]
          PROVE  kw.npu.hash[kv.table[q][i]] = kv.npu.hash[kv.table[q][i]]
      <4> DEFINE b == kv.table[q][i]
      <4>1. b \in 1..NumBlocks /\ b \in ToSet(kv.table[q])
        BY TableElement
      <4>2. CASE kv.npu.hash[b] # NoHash
        BY <2>4, <4>1, <4>2
      <4>3. CASE kv.npu.hash[b] = NoHash
        <5>1. b \notin ToSet(kv.table[r])
          BY <4>1, <4>3 DEF Content
        <5>2. \A j \in (from + 1)..to : kv.table[r][j] # b
          <6>1. ASSUME NEW j \in (from + 1)..to PROVE j \in 1..Len(kv.table[r])
            BY <1>1, <2>3, <2>6
          <6>2. QED
            BY <5>1, <6>1, TableElement
        <5>3. QED
          BY <2>4, <4>1, <5>2 DEF Placed
      <4>4. QED
        BY <4>2, <4>3
    <3>3. QED
      BY <2>1, <2>5, <3>1, <3>2 DEF HoldsPrefix
  <2>9. ASSUME NEW p \in Reqs, NEW q \in Reqs, p # q,
               NEW b \in ToSet(kw.table[p]) \cap ToSet(kw.table[q])
        PROVE  kw.npu.hash[b] # NoHash
    <3>1. kv.npu.hash[b] # NoHash
      BY <2>1, <2>9 DEF Content
    <3>2. b \in 1..NumBlocks
      BY <2>1, TableIsHeld
    <3>3. QED
      BY <2>4, <3>1, <3>2
  <2>10. Content(kw)
    BY <1>3, <2>7, <2>8, <2>9, SMTT(30) DEF Content, Bare
  <2>11. Victims(kw.lower) /\ WritesDown(kv, kw, r)
    <3>1. from <= to
      BY <1>1, <1>3, <2>3
    <3>2. /\ Victims(kw.lower)
          /\ EnableCaching => \A t \in DOMAIN Tiers :
               LET f == Tiers[t].factor
               IN  (to \div f) > (from \div f) =>
                     kw.lower[t].index[Chain[r][f * (to \div f)]] # NoBlock
      BY <1>1, <2>1, <2>3, <3>1, WriteDownOK
    <3>3. QED
      BY <2>5, <3>2 DEF WritesDown, from
  <2>12. QED
    BY <2>5, <2>10, <2>11 DEF to
<1>4. QED
  BY <1>1, <1>2, <1>3

(* Claimed hits hold the first blocks of their new holder's tokens. *)
LEMMA ClaimHitsContent ==
  ASSUME NEW kv, KVOK(kv), Tracked(kv), Content(kv), NEW r \in Reqs, kv.table[r] = << >>,
         NEW hit, hit.blocks \in Seq(1..NumBlocks), Distinct(hit.blocks),
         HitsPrefix(kv, r, hit.blocks),
         NEW kw, kw = ClaimHits(kv, r, hit)
  PROVE  /\ Content(kw) /\ kw.lower = kv.lower
         /\ NumCached(kw, r) <= Len(hit.blocks)
<1>1. /\ KVOK(kw)
      /\ kw.table = [kv.table EXCEPT ![r] = hit.blocks]
      /\ \A q \in Reqs \ {r} : kw.cached[q] = kv.cached[q]
      /\ kw.npu.hash = kv.npu.hash
      /\ kw.lower = kv.lower
      /\ kw.cached[r] \in {kv.cached[r], Len(hit.blocks)}
  BY ClaimHitsOK
<1>2. /\ kw.table[r] = hit.blocks
      /\ \A q \in Reqs \ {r} : kw.table[q] = kv.table[q]
  BY <1>1 DEF KVOK
<1>3. Len(hit.blocks) \in Nat /\ DOMAIN hit.blocks = 1..Len(hit.blocks)
  BY LenProperties
<1>4. NumCached(kw, r) <= Len(hit.blocks)
  BY <1>1, <1>3 DEF Tracked, NumCached, Larger, Untracked
<1>5. ASSUME NEW i \in 1..Len(hit.blocks)
      PROVE  /\ i <= Len(Chain[r]) /\ kw.npu.hash[hit.blocks[i]] = Chain[r][i]
             /\ kw.npu.hash[hit.blocks[i]] # NoHash
  <2>1. Chain[r] \in Seq(Hashes) /\ Len(Chain[r]) \in Nat
    BY KVAssumption, LenProperties
  <2>2. i <= Len(Chain[r]) /\ kw.npu.hash[hit.blocks[i]] = Chain[r][i]
    BY <1>1, <1>3, <2>1 DEF HitsPrefix
  <2>3. Chain[r][i] \in Hashes
    BY <1>3, <2>1, <2>2, ElementOfSeq
  <2>4. QED
    BY <2>2, <2>3, HashAssumption
<1>6. HoldsPrefix(kw, r)
  BY <1>2, <1>3, <1>4, <1>5 DEF HoldsPrefix
<1>7. ASSUME NEW q \in Reqs \ {r} PROVE HoldsPrefix(kw, q)
  <2>1. HoldsPrefix(kv, q)
    BY DEF Content
  <2>2. NumCached(kw, q) = NumCached(kv, q)
    BY <1>1 DEF NumCached
  <2>3. QED
    BY <1>1, <1>2, <2>1, <2>2 DEF HoldsPrefix
<1>8. \A b \in ToSet(kw.table[r]) : kw.npu.hash[b] # NoHash
  BY <1>2, <1>3, <1>5 DEF ToSet
<1>9. ASSUME NEW p \in Reqs, NEW q \in Reqs, p # q,
             NEW b \in ToSet(kw.table[p]) \cap ToSet(kw.table[q])
      PROVE  kw.npu.hash[b] # NoHash
  <2>1. CASE p = r \/ q = r
    BY <1>8, <2>1
  <2>2. CASE p # r /\ q # r
    BY <1>1, <1>2, <1>9, <2>2 DEF Content
  <2>3. QED
    BY <2>1, <2>2
<1>10. Bare(kw)
  BY <1>1 DEF Content, Bare
<1>11. QED
  BY <1>1, <1>4, <1>6, <1>7, <1>9, <1>10 DEF Content

(* New blocks hold nothing yet, and are nobody else's. *)
LEMMA GrowsContent ==
  ASSUME NEW kv, KVOK(kv), Content(kv), NEW r \in Reqs,
         NEW kw, KVOK(kw), Bare(kw), Grows(kv, kw, r), kw.cached = kv.cached,
         \A q \in Reqs \ {r} : kw.table[q] = kv.table[q]
  PROVE  Content(kw)
<1>1. \A q \in Reqs : NumCached(kw, q) = NumCached(kv, q) /\ HoldsPrefix(kv, q)
  BY DEF NumCached, Content
<1>2. ASSUME NEW q \in Reqs, NEW b \in ToSet(kv.table[q])
      PROVE  b \in 1..NumBlocks /\ kv.npu.ref[b] > 0 /\ kw.npu.hash[b] = kv.npu.hash[b]
  BY TableIsHeld DEF Grows
<1>3. ASSUME NEW q \in Reqs \ {r} PROVE HoldsPrefix(kw, q)
  <2>1. ASSUME NEW i \in DOMAIN kv.table[q]
        PROVE  kw.npu.hash[kv.table[q][i]] = kv.npu.hash[kv.table[q][i]]
    <3>1. kv.table[q][i] \in ToSet(kv.table[q])
      BY DEF ToSet
    <3>2. QED
      BY <1>2, <3>1
  <2>2. kw.table[q] = kv.table[q]
    OBVIOUS
  <2>3. QED
    BY <1>1, <2>1, <2>2 DEF HoldsPrefix
<1>4. /\ DOMAIN kv.table[r] = 1..Len(kv.table[r]) /\ Len(kv.table[r]) \in Nat
      /\ \A i \in 1..Len(kv.table[r]) : kv.table[r][i] \in ToSet(kv.table[r])
      /\ DOMAIN kw.table[r] = 1..Len(kw.table[r]) /\ Len(kw.table[r]) \in Nat
  BY TableElement
<1>5. /\ NumCached(kw, r) <= Len(kv.table[r]) /\ NumCached(kw, r) \in Nat
      /\ NumCached(kw, r) = NumCached(kv, r)
  BY <1>1, NumCachedType DEF HoldsPrefix
<1>6. HoldsPrefix(kw, r)
  <2>1. ASSUME NEW i \in DOMAIN kw.table[r]
        PROVE  /\ kw.npu.hash[kw.table[r][i]] # NoHash
                    => i <= Len(Chain[r]) /\ kw.npu.hash[kw.table[r][i]] = Chain[r][i]
               /\ i <= NumCached(kw, r) => kw.npu.hash[kw.table[r][i]] # NoHash
    <3>1. CASE i \in 1..Len(kv.table[r])
      <4>1. kw.table[r][i] = kv.table[r][i] /\ kv.table[r][i] \in ToSet(kv.table[r])
        BY <1>4, <3>1 DEF Grows
      <4>2. kw.npu.hash[kw.table[r][i]] = kv.npu.hash[kv.table[r][i]]
        BY <1>2, <4>1
      <4>3. QED
        BY <1>1, <1>4, <1>5, <3>1, <4>2 DEF HoldsPrefix
    <3>2. CASE i \notin 1..Len(kv.table[r])
      <4>1. i \in (Len(kv.table[r]) + 1)..Len(kw.table[r])
        BY <1>4, <3>2
      <4>2. kw.npu.hash[kw.table[r][i]] = NoHash
        BY <4>1 DEF Grows
      <4>3. ~(i <= NumCached(kw, r))
        BY <1>4, <1>5, <4>1
      <4>4. QED
        BY <4>2, <4>3
    <3>3. QED
      BY <3>1, <3>2
  <2>2. NumCached(kw, r) <= Len(kw.table[r])
    BY <1>4, <1>5 DEF Grows
  <2>3. QED
    BY <2>1, <2>2 DEF HoldsPrefix
<1>7. ASSUME NEW b \in ToSet(kw.table[r]), b \notin ToSet(kv.table[r]) PROVE kv.npu.ref[b] = 0
  <2>1. PICK i \in DOMAIN kw.table[r] : b = kw.table[r][i]
    BY <1>7 DEF ToSet
  <2>2. CASE i \in 1..Len(kv.table[r])
    <3>1. b \in ToSet(kv.table[r])
      BY <1>4, <2>1, <2>2 DEF Grows
    <3>2. QED
      BY <1>7, <3>1
  <2>3. CASE i \notin 1..Len(kv.table[r])
    <3>1. i \in (Len(kv.table[r]) + 1)..Len(kw.table[r])
      BY <1>4, <2>3
    <3>2. QED
      BY <2>1, <3>1 DEF Grows
  <2>4. QED
    BY <2>2, <2>3
<1>8. ASSUME NEW q \in Reqs \ {r}, NEW b \in ToSet(kw.table[r]) \cap ToSet(kw.table[q])
      PROVE  kw.npu.hash[b] # NoHash
  <2>1. b \in ToSet(kv.table[q]) /\ kv.npu.ref[b] > 0 /\ kw.npu.hash[b] = kv.npu.hash[b]
    BY <1>2
  <2>2. b \in ToSet(kv.table[r])
    BY <1>7, <2>1
  <2>3. QED
    BY <2>1, <2>2 DEF Content
<1>9. ASSUME NEW p \in Reqs \ {r}, NEW q \in Reqs \ {r}, p # q,
             NEW b \in ToSet(kw.table[p]) \cap ToSet(kw.table[q])
      PROVE  kw.npu.hash[b] # NoHash
  BY <1>2, <1>9 DEF Content
<1>10. QED
  BY <1>3, <1>6, <1>8, <1>9 DEF Content

(* Nothing is held or hashed at first, on any tier. *)
LEMMA NewKVContent ==
  /\ Content(NewKV) /\ Victims(NewKV.lower)
  /\ \A r \in Reqs : NumCached(NewKV, r) = 0
<1> DEFINE kv == NewKV
<1>1. /\ kv.npu.hash = [b \in 1..NumBlocks |-> NoHash]
      /\ kv.lower = [t \in DOMAIN Tiers |-> NewPool(Tiers[t].blocks)]
      /\ kv.table = [r \in Reqs |-> << >>] /\ kv.cached = [r \in Reqs |-> Untracked]
  BY DEF NewKV, NewPool
<1> HIDE DEF kv
<1>2. ASSUME NEW r \in Reqs PROVE NumCached(kv, r) = 0 /\ HoldsPrefix(kv, r)
  BY <1>1 DEF NumCached, Larger, Untracked, HoldsPrefix
<1>3. Content(kv)
  BY <1>1, <1>2, EmptyElements DEF Content, Bare
<1>4. ASSUME NEW t \in DOMAIN Tiers PROVE Unpinned(Tiers[t].blocks, kv.lower[t])
  <2>1. Tiers[t].blocks \in Nat /\ kv.lower[t] = NewPool(Tiers[t].blocks)
    BY <1>1, TierFactor
  <2>2. PoolOK(Tiers[t].blocks, kv.lower[t])
    BY <2>1, NewPoolOK
  <2>3. \A b \in 1..Tiers[t].blocks : kv.lower[t].ref[b] = 0
    BY <2>1 DEF NewPool
  <2>4. QED
    BY <2>2, <2>3 DEF Unpinned
<1>5. Victims(kv.lower)
  BY <1>1, <1>4 DEF Victims
<1>6. QED
  BY <1>2, <1>3, <1>5 DEF kv

(* A request that gives everything back leaves the others' blocks alone. *)
LEMMA FreeContent ==
  ASSUME NEW kv, KVOK(kv), Content(kv), NEW r \in Reqs
  PROVE  /\ Content(Free(kv, r)) /\ Free(kv, r).lower = kv.lower
         /\ NumCached(Free(kv, r), r) = 0
         /\ \A q \in Reqs \ {r} : NumCached(Free(kv, r), q) = NumCached(kv, q)
<1> DEFINE kw == Free(kv, r)
<1>1. /\ kw.lower = kv.lower /\ kw.cached = [kv.cached EXCEPT ![r] = Untracked]
      /\ kw.table = [kv.table EXCEPT ![r] = << >>] /\ kw.npu.hash = kv.npu.hash
  BY DEF Free, FreeBlocks
<1> HIDE DEF kw
<1>2. /\ kw.table[r] = << >> /\ NumCached(kw, r) = 0
      /\ \A q \in Reqs \ {r} : /\ kw.table[q] = kv.table[q]
                             /\ NumCached(kw, q) = NumCached(kv, q)
  BY <1>1 DEF KVOK, NumCached, Larger, Untracked
<1>3. \A q \in Reqs \ {r} : HoldsPrefix(kw, q)
  BY <1>1, <1>2 DEF Content, HoldsPrefix
<1>4. HoldsPrefix(kw, r)
  BY <1>2 DEF HoldsPrefix
<1>5. ASSUME NEW p \in Reqs, NEW q \in Reqs, p # q,
             NEW b \in ToSet(kw.table[p]) \cap ToSet(kw.table[q])
      PROVE  kw.npu.hash[b] # NoHash
  <2>1. p # r /\ q # r
    BY <1>2, <1>5, EmptyElements
  <2>2. QED
    BY <1>1, <1>2, <1>5, <2>1 DEF Content
<1>6. Bare(kw)
  BY <1>1 DEF Content, Bare
<1>7. QED
  BY <1>1, <1>2, <1>3, <1>4, <1>5, <1>6 DEF Content, kw

-----------------------------------------------------------------------------
(* allocate_slots, from the point where the hits are claimed: r ends with  *)
(* exactly the blocks that need tokens take.                               *)
LEMMA FillSlotsOK ==
  ASSUME NEW kv, KVOK(kv), NEW r \in Reqs, NEW need \in Nat \ {0}, NEW len \in Nat,
         \A q \in Reqs \ {r} : kv.table[q] = << >> => kv.cached[q] = Untracked,
         Len(kv.table[r]) <= CDiv(need, BlockSize),
         CDiv(need, BlockSize) - Len(kv.table[r]) <= Len(kv.npu.free),
         NEW kw, kw = CacheBlocks(AllocateNewBlocks(kv, r, need), r, Lesser(need, len))
  PROVE  /\ KVOK(kw) /\ Tracked(kw)
         /\ Len(kw.table[r]) = CDiv(need, BlockSize) /\ CDiv(need, BlockSize) > 0
         /\ \A q \in Reqs \ {r} : kw.table[q] = kv.table[q]
         /\ HeldKeepsHash(kv, kw)
<1> DEFINE km == AllocateNewBlocks(kv, r, need)
<1> DEFINE tokens == Lesser(need, len)
<1>1. /\ KVOK(km)
      /\ Len(km.table[r]) = CDiv(need, BlockSize)
      /\ \A q \in Reqs \ {r} : km.table[q] = kv.table[q]
      /\ km.cached = kv.cached
      /\ HeldKeepsHash(kv, km)
  BY AllocateNewBlocksOK
<1>2. kw = CacheBlocks(km, r, tokens)
  OBVIOUS
<1> HIDE DEF km
<1>3. CDiv(need, BlockSize) \in Nat /\ CDiv(need, BlockSize) > 0
  <2>1. BlockSize \in Nat \ {0}
    BY KVAssumption
  <2>2. /\ CDiv(need, BlockSize) \in Nat
        /\ need <= BlockSize * CDiv(need, BlockSize)
    BY <2>1, CDivBounds
  <2>3. CDiv(need, BlockSize) # 0
    BY <2>1, <2>2
  <2>4. QED
    BY <2>2, <2>3
<1>4. km.table[r] # << >>
  <2>1. Len(km.table[r]) > 0
    BY <1>1, <1>3
  <2>2. QED
    BY <2>1
<1>5. Tracked(km)
  <2>1. ASSUME NEW q \in Reqs, km.table[q] = << >> PROVE km.cached[q] = Untracked
    BY <1>1, <1>4, <2>1
  <2>2. QED
    BY <2>1 DEF Tracked
<1>6. /\ FullBlocks(r, tokens) \in Nat /\ FullBlocks(r, tokens) <= Len(Chain[r])
      /\ FullBlocks(r, tokens) <= Len(km.table[r])
  <2>1. tokens \in Nat /\ tokens <= need
    BY DEF Lesser
  <2> HIDE DEF tokens
  <2>2. QED
    BY <1>1, <2>1, FullBlocksBound
<1> HIDE DEF tokens
<1>7. /\ KVOK(kw) /\ kw.table = km.table /\ Tracked(kw)
      /\ \A b \in 1..NumBlocks : km.npu.hash[b] # NoHash => kw.npu.hash[b] = km.npu.hash[b]
  BY <1>1, <1>2, <1>5, <1>6, CacheBlocksOK
<1>8. HeldKeepsHash(kv, kw)
  BY <1>1, <1>7 DEF HeldKeepsHash
<1>9. QED
  BY <1>1, <1>3, <1>7, <1>8

(* One of the calls in these steps raises. *)
FillRaises(kv, r, need, len) ==
  LET k == CDiv(need, BlockSize) - Len(kv.table[r])
  IN  \/ k > 0 /\ GetNewBlocksRaises(kv.npu, k)
      \/ CacheBlocksRaises(AllocateNewBlocks(kv, r, need), r, Lesser(need, len))

(* What these steps write: the blocks they fill hold r's own tokens, the   *)
(* victim tiers get the coarse blocks they complete, and none of them      *)
(* raises.                                                                 *)
LEMMA FillSlotsContent ==
  ASSUME NEW kv, KVOK(kv), Content(kv), Victims(kv.lower),
         NEW r \in Reqs, NEW need \in Nat \ {0}, NEW len \in Nat,
         Len(kv.table[r]) <= CDiv(need, BlockSize),
         CDiv(need, BlockSize) - Len(kv.table[r]) <= Len(kv.npu.free),
         NumCached(kv, r) * BlockSize <= need,
         NEW kw, kw = CacheBlocks(AllocateNewBlocks(kv, r, need), r, Lesser(need, len))
  PROVE  /\ Content(kw) /\ Victims(kw.lower)
         /\ NumCached(kw, r) * BlockSize <= need
         /\ \A q \in Reqs \ {r} : kw.cached[q] = kv.cached[q]
         /\ WritesDown(kv, kw, r)
         /\ ~FillRaises(kv, r, need, len)
<1> DEFINE km == AllocateNewBlocks(kv, r, need)
<1> DEFINE tokens == Lesser(need, len)
<1> DEFINE k == CDiv(need, BlockSize) - Len(kv.table[r])
<1>1. /\ KVOK(km)
      /\ Len(km.table[r]) = CDiv(need, BlockSize)
      /\ \A q \in Reqs \ {r} : km.table[q] = kv.table[q]
      /\ km.cached = kv.cached
      /\ km.lower = kv.lower
      /\ Bare(kv) => Bare(km) /\ Grows(kv, km, r)
  BY AllocateNewBlocksOK
<1>2. kw = CacheBlocks(km, r, tokens)
  OBVIOUS
<1>3. FillRaises(kv, r, need, len) =>
        (k > 0 /\ GetNewBlocksRaises(kv.npu, k)) \/ CacheBlocksRaises(km, r, tokens)
  BY DEF FillRaises
<1>4. tokens \in Nat /\ tokens <= need
  BY DEF Lesser
<1> HIDE DEF km, tokens
<1>5. Bare(kv)
  BY DEF Content
<1>6. Content(km)
  BY <1>1, <1>5, GrowsContent
<1>7. /\ FullBlocks(r, tokens) \in Nat /\ FullBlocks(r, tokens) <= Len(Chain[r])
      /\ FullBlocks(r, tokens) <= Len(km.table[r])
      /\ FullBlocks(r, tokens) * BlockSize <= need
  <2>1. FullBlocks(r, tokens) * BlockSize <= tokens /\ FullBlocks(r, tokens) * BlockSize \in Int
    <3>1. FullBlocks(r, tokens) \in Nat /\ FullBlocks(r, tokens) * BlockSize <= tokens
      BY <1>4, FullBlocksTokens
    <3>2. BlockSize \in Nat
      BY KVAssumption
    <3>3. QED
      BY <3>1, <3>2
  <2>2. /\ FullBlocks(r, tokens) \in Nat /\ FullBlocks(r, tokens) <= Len(Chain[r])
        /\ FullBlocks(r, tokens) <= Len(km.table[r])
    BY <1>1, <1>4, FullBlocksBound
  <2>3. QED
    BY <1>4, <2>1, <2>2
<1>8. /\ Content(kw) /\ Victims(kw.lower)
      /\ NumCached(kw, r) \in {NumCached(km, r), FullBlocks(r, tokens)}
      /\ \A q \in Reqs \ {r} : kw.cached[q] = km.cached[q]
      /\ WritesDown(km, kw, r)
  BY <1>1, <1>2, <1>6, <1>7, CacheBlocksContent
<1>9. NumCached(km, r) = NumCached(kv, r)
  <2>1. km.cached = kv.cached
    BY ONLY SMTT(30), <1>1
  <2>2. QED
    BY ONLY <2>1 DEF NumCached
<1>10. WritesDown(kv, kw, r)
  BY <1>8, <1>9 DEF WritesDown
<1>11. NumCached(kw, r) * BlockSize <= need
  BY <1>7, <1>8, <1>9
<1>12. ~CacheBlocksRaises(km, r, tokens)
  <2>1. NumCached(km, r) \in Nat /\ Len(km.table[r]) \in Nat
    BY <1>1, NumCachedType, TableElement
  <2>2. QED
    BY <1>7, <2>1 DEF CacheBlocksRaises, Larger
<1>13. ASSUME k > 0 PROVE ~GetNewBlocksRaises(kv.npu, k)
  <2>1. /\ PoolOK(NumBlocks, kv.npu) /\ NumBlocks \in Nat /\ BlockSize \in Nat \ {0}
    BY KVAssumption DEF KVOK
  <2>2. /\ kv.npu.free \in Seq(1..NumBlocks) /\ Len(kv.npu.free) \in Nat
        /\ \A b \in 1..NumBlocks : b \in ToSet(kv.npu.free) <=> kv.npu.ref[b] = 0
        /\ ToSet(kv.npu.free) \subseteq 1..NumBlocks
    BY <2>1, PoolOKFacts, ToSetType
  <2>3. k \in 0..Len(kv.npu.free)
    BY <1>13, <2>1, <2>2, CDivBounds, TableElement, SMTT(30)
  <2> HIDE DEF k
  <2>4. ToSet(PopLeft(kv.npu, k)) \subseteq ToSet(kv.npu.free)
    BY <2>1, <2>3, GetNewBlocksOK DEF Popped
  <2>5. QED
    BY <2>2, <2>3, <2>4 DEF GetNewBlocksRaises, NumFree
<1>14. QED
  BY <1>1, <1>3, <1>8, <1>10, <1>11, <1>12, <1>13

(* What _num_blocks_to_allocate lets through, for a request that holds     *)
(* nothing: once the hits are claimed the free list has the blocks its     *)
(* tokens still take.                                                      *)
LEMMA AdmitSlotsFit ==
  ASSUME NEW kv, KVOK(kv), Tracked(kv), NEW r \in Reqs, kv.table[r] = << >>,
         NEW n \in Nat \ {0}, NEW len \in Nat \ {0},
         NEW hit, hit = GetComputedBlocks(kv, r, len), SlotsFit(kv, r, 0, n, hit),
         NEW need, need = HitTokens(hit) + n, NEW km, km = ClaimHits(kv, r, hit)
  PROVE  /\ Len(km.table[r]) <= CDiv(need, BlockSize)
         /\ CDiv(need, BlockSize) - Len(km.table[r]) <= Len(km.npu.free)
<1>1. /\ hit.blocks \in Seq(1..NumBlocks) /\ Distinct(hit.blocks)
      /\ hit.npu \in Nat /\ hit.npu = Len(hit.blocks) * BlockSize /\ hit.lower \in Nat
      /\ Len(hit.blocks) \in Nat
  BY GetComputedBlocksOK, LenProperties
<1>2. HitTokens(hit) \in Nat /\ need \in Nat \ {0} /\ hit.npu <= need
      /\ 0 + HitTokens(hit) + n = need
  BY <1>1 DEF HitTokens
<1>3. BlockSize \in Nat \ {0} /\ CDiv(need, BlockSize) \in Nat
  BY <1>2, KVAssumption, CDivBounds
<1>4. Len(hit.blocks) <= CDiv(need, BlockSize)
  BY <1>1, <1>2, <1>3, CDivOfBlocks
<1>5. CDiv(need, BlockSize) - Len(hit.blocks) + Evictable(kv, hit.blocks) <= Len(kv.npu.free)
  <2>1. kv.cached[r] = Untracked /\ Len(kv.table[r]) = 0
    BY DEF Tracked
  <2>2. NumBlocksToAllocate(kv, r, need, hit.blocks) <= Len(kv.npu.free)
    BY <1>2 DEF SlotsFit, NumFree
  <2>3. NumBlocksToAllocate(kv, r, need, hit.blocks)
          = Larger(CDiv(need, BlockSize) - (0 + Len(hit.blocks)), 0) + Evictable(kv, hit.blocks)
    BY <2>1 DEF NumBlocksToAllocate
  <2>4. Larger(CDiv(need, BlockSize) - (0 + Len(hit.blocks)), 0)
          = CDiv(need, BlockSize) - Len(hit.blocks)
    BY <1>1, <1>3, <1>4 DEF Larger
  <2>5. QED
    BY <2>2, <2>3, <2>4
<1>6. /\ KVOK(km)
      /\ km.table = [kv.table EXCEPT ![r] = hit.blocks]
      /\ \A q \in Reqs \ {r} : km.cached[q] = kv.cached[q]
      /\ Len(km.npu.free) = Len(kv.npu.free) - Evictable(kv, hit.blocks)
      /\ km.npu.hash = kv.npu.hash
      /\ \A b \in 1..NumBlocks : km.npu.ref[b] >= kv.npu.ref[b]
  BY <1>1, ClaimHitsOK
<1>7. /\ km.table[r] = hit.blocks
      /\ \A q \in Reqs \ {r} : km.table[q] = kv.table[q]
  <2>1. kv.table \in [Reqs -> Seq(1..NumBlocks)]
    BY DEF KVOK
  <2>2. QED
    BY <1>6, <2>1
<1>8. Evictable(kv, hit.blocks) \in Nat /\ Len(kv.npu.free) \in Nat
  <2>1. IsFiniteSet(ToSet(hit.blocks))
    BY <1>1, DistinctLength
  <2>2. {b \in ToSet(hit.blocks) : kv.npu.ref[b] = 0} \subseteq ToSet(hit.blocks)
    OBVIOUS
  <2>3. Evictable(kv, hit.blocks) \in Nat
    BY <2>1, <2>2, FS_Subset, FS_CardinalityType DEF Evictable
  <2>4. Len(kv.npu.free) \in Nat
    BY KVAssumption, PoolOKFacts DEF KVOK
  <2>5. QED
    BY <2>3, <2>4
<1>9. CDiv(need, BlockSize) - Len(km.table[r]) <= Len(km.npu.free)
  <2>1. Len(km.table[r]) = Len(hit.blocks)
    BY <1>7
  <2>2. Len(km.npu.free) = Len(kv.npu.free) - Evictable(kv, hit.blocks)
    BY <1>6
  <2>3. ASSUME NEW c \in Nat, NEW h \in Nat, NEW e \in Nat, NEW f \in Nat, c - h + e <= f
        PROVE  c - h <= f - e
    BY <2>3
  <2>4. Len(hit.blocks) \in Nat /\ CDiv(need, BlockSize) \in Nat
    BY <1>1, <1>3
  <2>5. QED
    BY SMTT(30), <1>5, <1>8, <2>1, <2>2, <2>3, <2>4
<1>10. QED
  BY <1>4, <1>7, <1>9

(* The same, for a request that holds the blocks of its computed tokens. *)
LEMMA ExtendSlotsFit ==
  ASSUME NEW kv, NEW r \in Reqs,
         NEW computed \in Nat, NEW n \in Nat \ {0},
         Len(kv.table[r]) = CDiv(computed, BlockSize),
         SlotsFit(kv, r, computed, n, NoHit),
         NEW need, need = computed + n
  PROVE  /\ Len(kv.table[r]) <= CDiv(need, BlockSize)
         /\ CDiv(need, BlockSize) - Len(kv.table[r]) <= Len(kv.npu.free)
<1>1. NoHit.blocks = << >> /\ NoHit.npu = 0 /\ NoHit.lower = 0 /\ HitTokens(NoHit) = 0
  BY DEF NoHit, HitTokens
<1>2. computed + HitTokens(NoHit) + n = need /\ need \in Nat \ {0} /\ computed <= need
  BY <1>1
<1>3. /\ BlockSize \in Nat \ {0} /\ CDiv(need, BlockSize) \in Nat
      /\ CDiv(computed, BlockSize) \in Nat
      /\ CDiv(computed, BlockSize) <= CDiv(need, BlockSize)
  BY <1>2, KVAssumption, CDivBounds, CDivMonotonic
<1>4. CDiv(need, BlockSize) - Len(kv.table[r]) <= Len(kv.npu.free)
  <2>1. Evictable(kv, << >>) = 0
    <3>1. {b \in ToSet(<< >>) : kv.npu.ref[b] = 0} = {}
      BY EmptyElements
    <3>2. QED
      BY <3>1, FS_EmptySet DEF Evictable
  <2>2. Len(NoHit.blocks) = 0
    BY <1>1
  <2>3. NumBlocksToAllocate(kv, r, need, NoHit.blocks)
          = Larger(CDiv(need, BlockSize) - CDiv(computed, BlockSize), 0)
    BY <1>1, <1>3, <2>1, <2>2 DEF NumBlocksToAllocate, Larger
  <2>4. NumBlocksToAllocate(kv, r, need, NoHit.blocks) <= Len(kv.npu.free)
    BY <1>2 DEF SlotsFit, NumFree
  <2>5. QED
    BY <1>3, <2>3, <2>4 DEF Larger
<1>5. QED
  BY <1>3, <1>4

(* allocate_slots for a request that holds nothing, with the hits of       *)
(* get_computed_blocks.                                                    *)
LEMMA AdmitSlotsOK ==
  ASSUME NEW kv, KVOK(kv), Tracked(kv), NEW r \in Reqs, kv.table[r] = << >>,
         NEW n \in Nat \ {0}, NEW len \in Nat \ {0},
         NEW hit, hit = GetComputedBlocks(kv, r, len), SlotsFit(kv, r, 0, n, hit),
         NEW kw, kw = AllocateSlots(kv, r, 0, len, n, hit)
  PROVE  /\ HitTokens(hit) \in Nat
         /\ KVOK(kw) /\ Tracked(kw)
         /\ Len(kw.table[r]) = CDiv(HitTokens(hit) + n, BlockSize)
         /\ \A q \in Reqs \ {r} : kw.table[q] = kv.table[q]
         /\ HeldKeepsHash(kv, kw)
<1> DEFINE need == HitTokens(hit) + n
<1> DEFINE km == ClaimHits(kv, r, hit)
<1>1. /\ hit.blocks \in Seq(1..NumBlocks) /\ Distinct(hit.blocks)
      /\ hit.npu \in Nat /\ hit.lower \in Nat
  BY GetComputedBlocksOK
<1>2. HitTokens(hit) \in Nat /\ need \in Nat \ {0} /\ 0 + HitTokens(hit) + n = need
  BY SMTT(30), <1>1 DEF HitTokens
<1>3. /\ Len(km.table[r]) <= CDiv(need, BlockSize)
      /\ CDiv(need, BlockSize) - Len(km.table[r]) <= Len(km.npu.free)
  BY AdmitSlotsFit
<1> HIDE DEF need
<1>4. kw = CacheBlocks(AllocateNewBlocks(km, r, need), r, Lesser(need, len))
  BY <1>2 DEF AllocateSlots
<1>5. /\ KVOK(km)
      /\ km.table = [kv.table EXCEPT ![r] = hit.blocks]
      /\ \A q \in Reqs \ {r} : km.cached[q] = kv.cached[q]
      /\ km.npu.hash = kv.npu.hash
      /\ \A b \in 1..NumBlocks : km.npu.ref[b] >= kv.npu.ref[b]
  BY <1>1, ClaimHitsOK
<1> HIDE DEF km
<1>6. /\ km.table[r] = hit.blocks
      /\ \A q \in Reqs \ {r} : km.table[q] = kv.table[q]
  <2>1. kv.table \in [Reqs -> Seq(1..NumBlocks)]
    BY DEF KVOK
  <2>2. QED
    BY <1>5, <2>1
<1>7. \A q \in Reqs \ {r} : km.table[q] = << >> => km.cached[q] = Untracked
  BY <1>5, <1>6 DEF Tracked
<1>8. /\ KVOK(kw) /\ Tracked(kw)
      /\ Len(kw.table[r]) = CDiv(need, BlockSize)
      /\ \A q \in Reqs \ {r} : kw.table[q] = km.table[q]
      /\ HeldKeepsHash(km, kw)
  <2>1. KVOK(km) /\ need \in Nat \ {0} /\ len \in Nat
    BY <1>2, <1>5
  <2>2. QED
    BY <1>3, <1>4, <1>7, <2>1, FillSlotsOK
<1>9. HeldKeepsHash(kv, kw)
  <2>1. ASSUME NEW b \in 1..NumBlocks, kv.npu.ref[b] > 0 PROVE km.npu.ref[b] > 0
    <3>1. kv.npu.ref[b] \in Nat /\ km.npu.ref[b] \in Nat
      BY SharersFinite, <1>5 DEF KVOK
    <3>2. QED
      BY <1>5, <2>1, <3>1
  <2>2. QED
    BY <1>5, <1>8, <2>1 DEF HeldKeepsHash
<1>10. QED
  BY <1>2, <1>6, <1>8, <1>9 DEF need

(* allocate_slots for a request that holds blocks, which never brings hits. *)
LEMMA ExtendSlotsOK ==
  ASSUME NEW kv, KVOK(kv), Tracked(kv), NEW r \in Reqs,
         NEW computed \in Nat, NEW n \in Nat \ {0}, NEW len \in Nat,
         Len(kv.table[r]) = CDiv(computed, BlockSize),
         SlotsFit(kv, r, computed, n, NoHit),
         NEW kw, kw = AllocateSlots(kv, r, computed, len, n, NoHit)
  PROVE  /\ KVOK(kw) /\ Tracked(kw)
         /\ Len(kw.table[r]) = CDiv(computed + n, BlockSize)
         /\ \A q \in Reqs \ {r} : kw.table[q] = kv.table[q]
         /\ HeldKeepsHash(kv, kw)
<1> DEFINE need == computed + n
<1>1. NoHit.blocks = << >> /\ NoHit.npu = 0 /\ NoHit.lower = 0 /\ HitTokens(NoHit) = 0
  BY DEF NoHit, HitTokens
<1>2. computed + HitTokens(NoHit) + n = need /\ need \in Nat \ {0} /\ computed <= need
  BY <1>1
<1>3. ClaimHits(kv, r, NoHit) = kv
  BY <1>1 DEF ClaimHits
<1> HIDE DEF need
<1>4. kw = CacheBlocks(AllocateNewBlocks(kv, r, need), r, Lesser(need, len))
  BY <1>2, <1>3 DEF AllocateSlots
<1>5. /\ Len(kv.table[r]) <= CDiv(need, BlockSize)
      /\ CDiv(need, BlockSize) - Len(kv.table[r]) <= Len(kv.npu.free)
  BY ExtendSlotsFit DEF need
<1>6. \A q \in Reqs \ {r} : kv.table[q] = << >> => kv.cached[q] = Untracked
  BY DEF Tracked
<1>7. QED
  BY <1>2, <1>4, <1>5, <1>6, FillSlotsOK DEF need

(* What such an admission writes: hits and new blocks hold the request's   *)
(* own tokens, no more of them are cached than it has been granted, the    *)
(* victim tiers stay free, and no call raises.                             *)
LEMMA AdmitSlotsContent ==
  ASSUME NEW kv, KVOK(kv), Tracked(kv), Content(kv), Victims(kv.lower),
         NEW r \in Reqs, kv.table[r] = << >>,
         NEW n \in Nat \ {0}, NEW len \in Nat \ {0},
         NEW hit, hit = GetComputedBlocks(kv, r, len), SlotsFit(kv, r, 0, n, hit),
         NEW kw, kw = AllocateSlots(kv, r, 0, len, n, hit)
  PROVE  /\ Content(kw) /\ Victims(kw.lower)
         /\ NumCached(kw, r) * BlockSize <= HitTokens(hit) + n
         /\ \A q \in Reqs \ {r} : kw.cached[q] = kv.cached[q]
         /\ ~AllocateSlotsRaises(kv, r, 0, len, n, hit)
<1> DEFINE need == HitTokens(hit) + n
<1> DEFINE km == ClaimHits(kv, r, hit)
<1>1. /\ hit.blocks \in Seq(1..NumBlocks) /\ Distinct(hit.blocks)
      /\ hit.npu \in Nat /\ hit.npu = Len(hit.blocks) * BlockSize /\ hit.lower \in Nat
      /\ Len(hit.blocks) \in Nat
      /\ HitsPrefix(kv, r, hit.blocks)
  BY GetComputedBlocksOK, LenProperties
<1>2. HitTokens(hit) \in Nat /\ need \in Nat \ {0} /\ hit.npu <= need
      /\ 0 + HitTokens(hit) + n = need
  BY <1>1 DEF HitTokens
<1> HIDE DEF need
<1>3. kw = CacheBlocks(AllocateNewBlocks(km, r, need), r, Lesser(need, len))
  BY <1>2 DEF AllocateSlots
<1>4. /\ KVOK(km) /\ km.table[r] = hit.blocks
      /\ \A q \in Reqs \ {r} : km.cached[q] = kv.cached[q]
  <2>1. /\ KVOK(km) /\ km.table = [kv.table EXCEPT ![r] = hit.blocks]
        /\ \A q \in Reqs \ {r} : km.cached[q] = kv.cached[q]
    BY <1>1, ClaimHitsOK
  <2>2. kv.table \in [Reqs -> Seq(1..NumBlocks)]
    BY DEF KVOK
  <2> HIDE DEF km
  <2>3. QED
    BY <2>1, <2>2
<1>5. Content(km) /\ km.lower = kv.lower /\ NumCached(km, r) <= Len(hit.blocks)
  BY <1>1, ClaimHitsContent
<1> HIDE DEF km
<1>6. /\ Len(km.table[r]) <= CDiv(need, BlockSize)
      /\ CDiv(need, BlockSize) - Len(km.table[r]) <= Len(km.npu.free)
  BY <1>2, <1>4, AdmitSlotsFit DEF km, need
<1>7. NumCached(km, r) * BlockSize <= need
  <2>1. NumCached(km, r) \in Nat /\ BlockSize \in Nat
    BY <1>4, NumCachedType, KVAssumption
  <2>2. BlockSize * NumCached(km, r) <= BlockSize * Len(hit.blocks)
    BY <1>1, <1>5, <2>1, ProductMonotonic
  <2>3. /\ NumCached(km, r) * BlockSize = BlockSize * NumCached(km, r)
        /\ hit.npu = BlockSize * Len(hit.blocks)
    BY <1>1, <2>1
  <2>4. NumCached(km, r) * BlockSize \in Int
    BY <2>1
  <2>5. QED
    BY <1>1, <1>2, <2>2, <2>3, <2>4
<1>8. /\ Content(kw) /\ Victims(kw.lower)
      /\ NumCached(kw, r) * BlockSize <= need
      /\ \A q \in Reqs \ {r} : kw.cached[q] = km.cached[q]
      /\ ~FillRaises(km, r, need, len)
  BY <1>2, <1>3, <1>4, <1>5, <1>6, <1>7, FillSlotsContent
<1>9. ~AllocateSlotsRaises(kv, r, 0, len, n, hit)
  <2>1. AllocateSlotsRaises(kv, r, 0, len, n, hit) =>
          \/ kv.cached[r] # Untracked
          \/ TouchRaises(kv.npu, ToSet(hit.blocks))
          \/ FillRaises(km, r, need, len)
    BY <1>2 DEF AllocateSlotsRaises, FillRaises, km
  <2>2. kv.cached[r] = Untracked
    BY DEF Tracked
  <2>3. ~TouchRaises(kv.npu, ToSet(hit.blocks))
    <3>1. ToSet(hit.blocks) \subseteq 1..NumBlocks
      BY <1>1, ToSetType
    <3>2. \A b \in 1..NumBlocks : b \in ToSet(kv.npu.free) <=> kv.npu.ref[b] = 0
      BY KVAssumption, PoolOKFacts DEF KVOK
    <3>3. QED
      BY <3>1, <3>2 DEF TouchRaises
  <2>4. QED
    BY <1>8, <2>1, <2>2, <2>3
<1>10. QED
  BY <1>4, <1>8, <1>9 DEF need

(* What more slots for a request that holds blocks write. *)
LEMMA ExtendSlotsContent ==
  ASSUME NEW kv, KVOK(kv), Content(kv), Victims(kv.lower), NEW r \in Reqs,
         NEW computed \in Nat, NEW n \in Nat \ {0}, NEW len \in Nat,
         Len(kv.table[r]) = CDiv(computed, BlockSize),
         NumCached(kv, r) * BlockSize <= computed,
         SlotsFit(kv, r, computed, n, NoHit),
         NEW kw, kw = AllocateSlots(kv, r, computed, len, n, NoHit)
  PROVE  /\ Content(kw) /\ Victims(kw.lower)
         /\ NumCached(kw, r) * BlockSize <= computed + n
         /\ \A q \in Reqs \ {r} : kw.cached[q] = kv.cached[q]
         /\ WritesDown(kv, kw, r)
         /\ ~AllocateSlotsRaises(kv, r, computed, len, n, NoHit)
<1> DEFINE need == computed + n
<1>1. NoHit.blocks = << >> /\ NoHit.npu = 0 /\ NoHit.lower = 0 /\ HitTokens(NoHit) = 0
  BY DEF NoHit, HitTokens
<1>2. computed + HitTokens(NoHit) + n = need /\ need \in Nat \ {0} /\ computed <= need
  BY <1>1
<1>3. ClaimHits(kv, r, NoHit) = kv
  BY <1>1 DEF ClaimHits
<1>4. /\ Len(kv.table[r]) <= CDiv(need, BlockSize)
      /\ CDiv(need, BlockSize) - Len(kv.table[r]) <= Len(kv.npu.free)
  BY ExtendSlotsFit
<1> HIDE DEF need
<1>5. kw = CacheBlocks(AllocateNewBlocks(kv, r, need), r, Lesser(need, len))
  BY <1>2, <1>3 DEF AllocateSlots
<1>6. NumCached(kv, r) * BlockSize <= need
  <2>1. NumCached(kv, r) \in Nat /\ BlockSize \in Nat
    BY NumCachedType, KVAssumption
  <2>2. NumCached(kv, r) * BlockSize \in Int
    BY <2>1
  <2>3. QED
    BY <1>2, <2>2
<1>7. /\ Content(kw) /\ Victims(kw.lower)
      /\ NumCached(kw, r) * BlockSize <= need
      /\ \A q \in Reqs \ {r} : kw.cached[q] = kv.cached[q]
      /\ WritesDown(kv, kw, r)
      /\ ~FillRaises(kv, r, need, len)
  BY <1>2, <1>4, <1>5, <1>6, FillSlotsContent
<1>8. ~AllocateSlotsRaises(kv, r, computed, len, n, NoHit)
  <2>1. ~TouchRaises(kv.npu, ToSet(NoHit.blocks))
    BY <1>1, EmptyElements DEF TouchRaises
  <2>2. AllocateSlotsRaises(kv, r, computed, len, n, NoHit) => FillRaises(kv, r, need, len)
    BY <1>1, <1>2, <1>3, <2>1 DEF AllocateSlotsRaises, FillRaises
  <2>3. QED
    BY <1>7, <2>2
<1>9. QED
  BY <1>7, <1>8 DEF need

-----------------------------------------------------------------------------
(* What the manager and its caller know together, and how each operation a *)
(* caller can ask for keeps it: c[r] is num_computed_tokens, g[r] the      *)
(* tokens r holds slots for, live the requests that are not over.  A       *)
(* caller is KVCacheManager (any that keeps the contract) or Scheduler.    *)

(* That tables cover grants is what makes the size asked of the pool       *)
(* right; that an empty table has no num_cached_block is what makes the    *)
(* claim of hits counted; that shared blocks are full (in Content) is what *)
(* lets one request index its blocks without changing what another holds.  *)
Covered(k, c, g, r) ==
  /\ c[r] <= g[r]
  /\ NumCached(k, r) * BlockSize <= g[r]
  /\ Len(k.table[r]) = CDiv(g[r], BlockSize)

Booked(k, c, g, live) ==
  /\ KVOK(k) /\ Tracked(k) /\ Content(k) /\ Victims(k.lower)
  /\ \A r \in live : Covered(k, c, g, r)

(* From k to kw held blocks keep their content, and what gets cached of a  *)
(* request that holds blocks is written down.                              *)
RunningWritesDown(k, kw) ==
  \A r \in Reqs : k.table[r] # << >> => WritesDown(k, kw, r)

Moves(k, kw) == HeldKeepsHash(k, kw) /\ RunningWritesDown(k, kw)

(* From k to kw the blocks of every request but r stay where they are, and *)
(* from c, g to cw, gw its numbers.                                        *)
OnlyTableOf(r, k, kw) == \A q \in Reqs \ {r} : kw.table[q] = k.table[q]

OnlyNumbersOf(r, k, kw, c, cw, g, gw) ==
  \A q \in Reqs \ {r} : /\ NumCached(kw, q) = NumCached(k, q)
                        /\ cw[q] = c[q] /\ gw[q] = g[q]

(* The function d is c, with v for r. *)
With(c, r, v, d) == d = [c EXCEPT ![r] = v]

-----------------------------------------------------------------------------
(* The state that a change of one request's blocks and numbers leaves. *)
LEMMA OneRequestChanges ==
  ASSUME NEW live \in SUBSET Reqs, NEW k, NEW c, NEW g, Booked(k, c, g, live),
         NEW kw, NEW cw, NEW gw, NEW left,
         KVOK(kw), Tracked(kw), Content(kw), Victims(kw.lower), HeldKeepsHash(k, kw),
         NEW r \in Reqs, left = live \/ left = live \ {r},
         k.table[r] # << >> => WritesDown(k, kw, r),
         OnlyTableOf(r, k, kw), OnlyNumbersOf(r, k, kw, c, cw, g, gw),
         r \in left => Covered(kw, cw, gw, r)
  PROVE  Booked(kw, cw, gw, left) /\ Moves(k, kw)
<1>1. ASSUME NEW q \in left PROVE Covered(kw, cw, gw, q)
  <2>1. CASE q = r
    BY <1>1, <2>1
  <2>2. CASE q # r
    <3>1. q \in live /\ q \in Reqs \ {r}
      BY <1>1, <2>2
    <3>2. /\ kw.table[q] = k.table[q] /\ NumCached(kw, q) = NumCached(k, q)
          /\ cw[q] = c[q] /\ gw[q] = g[q]
      BY <3>1 DEF OnlyTableOf, OnlyNumbersOf
    <3>3. QED
      BY <3>1, <3>2 DEF Booked, Covered
  <2>3. QED
    BY <2>1, <2>2
<1>2. Booked(kw, cw, gw, left)
  BY <1>1 DEF Booked
<1>3. ASSUME NEW q \in Reqs, k.table[q] # << >> PROVE WritesDown(k, kw, q)
  <2>1. CASE q = r
    BY <1>3, <2>1
  <2>2. CASE q # r
    <3>1. NumCached(kw, q) = NumCached(k, q)
      BY <2>2 DEF OnlyNumbersOf
    <3>2. QED
      BY <3>1, WritesNothing, NumCachedType DEF Booked
  <2>3. QED
    BY <2>1, <2>2
<1>4. QED
  BY <1>2, <1>3 DEF Moves, RunningWritesDown

(* A live request that holds nothing has computed nothing. *)
LEMMA NothingHeld ==
  ASSUME NEW live \in SUBSET Reqs, NEW k, NEW c, NEW g, Booked(k, c, g, live),
         NEW r \in live, c[r] \in Nat, g[r] \in Nat, k.table[r] = << >>
  PROVE  g[r] = 0 /\ c[r] = 0
<1>1. c[r] <= g[r] /\ CDiv(g[r], BlockSize) = 0
  BY DEF Booked, Covered
<1>2. BlockSize \in Nat \ {0}
  BY KVAssumption
<1>3. g[r] <= BlockSize * CDiv(g[r], BlockSize)
  BY <1>2, CDivBounds
<1>4. g[r] <= 0
  BY <1>1, <1>2, <1>3
<1>5. QED
  BY <1>1, <1>4

(* A request with slots for a token holds a block, one with none does not. *)
LEMMA HoldsWhenGranted ==
  ASSUME NEW live \in SUBSET Reqs, NEW k, NEW c, NEW g, Booked(k, c, g, live),
         NEW r \in live, g[r] \in Nat
  PROVE  k.table[r] = << >> <=> g[r] = 0
<1>1. Len(k.table[r]) = CDiv(g[r], BlockSize) /\ BlockSize \in Nat \ {0}
  BY KVAssumption DEF Booked, Covered
<1>2. k.table[r] \in Seq(1..NumBlocks)
  BY DEF Booked, KVOK
<1>3. ASSUME g[r] = 0 PROVE k.table[r] = << >>
  <2>1. Len(k.table[r]) = 0
    BY <1>1, <1>3, CDivOfZero
  <2>2. QED
    BY <1>2, <2>1, EmptySeq
<1>4. ASSUME k.table[r] = << >> PROVE g[r] = 0
  <2>1. CDiv(g[r], BlockSize) = 0
    BY <1>1, <1>4
  <2>2. g[r] <= BlockSize * 0
    BY <1>1, <2>1, CDivBounds
  <2>3. QED
    BY <1>1, <2>2
<1>5. QED
  BY <1>3, <1>4

(* A request that gives everything back has nothing to write down. *)
LEMMA FreedWritesNothing ==
  ASSUME NEW k, KVOK(k), NEW kw, NEW r \in Reqs, NumCached(kw, r) = 0
  PROVE  WritesDown(k, kw, r)
<1>1. NumCached(k, r) \in Nat
  BY NumCachedType
<1>2. QED
  BY <1>1, WritesNothing

(* A step that leaves the manager alone. *)
LEMMA SameKV ==
  ASSUME NEW k, KVOK(k)
  PROVE  Moves(k, k)
<1>1. ASSUME NEW r \in Reqs PROVE WritesDown(k, k, r)
  <2>1. NumCached(k, r) \in Nat
    BY NumCachedType
  <2>2. QED
    BY <2>1, WritesNothing
<1>2. QED
  BY <1>1 DEF Moves, HeldKeepsHash, RunningWritesDown

-----------------------------------------------------------------------------
(* The new manager. *)
LEMMA NewBooked ==
  ASSUME NEW live \in SUBSET Reqs, NEW c, NEW g, \A r \in Reqs : c[r] = 0 /\ g[r] = 0
  PROVE  Booked(NewKV, c, g, live)
<1>1. KVOK(NewKV) /\ Tracked(NewKV) /\ NewKV.table = [r \in Reqs |-> << >>]
  BY NewKVOK
<1>2. Content(NewKV) /\ Victims(NewKV.lower) /\ \A r \in Reqs : NumCached(NewKV, r) = 0
  BY NewKVContent
<1>3. 0 * BlockSize = 0 /\ CDiv(0, BlockSize) = 0
  BY KVAssumption, CDivOfZero
<1>4. ASSUME NEW r \in live PROVE Covered(NewKV, c, g, r)
  <2>1. r \in Reqs /\ NewKV.table[r] = << >> /\ c[r] = 0 /\ g[r] = 0 /\ NumCached(NewKV, r) = 0
    BY <1>1, <1>2
  <2>2. QED
    BY <1>3, <2>1 DEF Covered
<1>5. QED
  BY <1>1, <1>2, <1>4 DEF Booked

(* An admission: r takes its hit and slots for n more tokens. *)
LEMMA AdmitBooked ==
  ASSUME NEW live \in SUBSET Reqs, NEW k, NEW c \in [Reqs -> Nat], NEW g \in [Reqs -> Nat],
         Booked(k, c, g, live), NEW r \in live, k.table[r] = << >>,
         NEW len \in Nat \ {0}, NEW hit, hit = GetComputedBlocks(k, r, len),
         NEW n \in Nat \ {0}, SlotsFit(k, r, c[r], n, hit),
         NEW kw, kw = AllocateSlots(k, r, c[r], len, n, hit),
         NEW cw, With(c, r, HitTokens(hit), cw),
         NEW gw, With(g, r, HitTokens(hit) + n, gw)
  PROVE  /\ HitTokens(hit) \in Nat /\ c[r] = 0
         /\ Booked(kw, cw, gw, live) /\ Moves(k, kw) /\ OnlyTableOf(r, k, kw)
         /\ ~AllocateSlotsRaises(k, r, c[r], len, n, hit)
<1>1. c[r] = 0 /\ r \in Reqs
  BY NothingHeld
<1>2. /\ KVOK(k) /\ Tracked(k) /\ Content(k) /\ Victims(k.lower)
  BY DEF Booked
<1>3. SlotsFit(k, r, 0, n, hit) /\ kw = AllocateSlots(k, r, 0, len, n, hit)
  BY <1>1
<1>4. /\ HitTokens(hit) \in Nat
      /\ KVOK(kw) /\ Tracked(kw)
      /\ Len(kw.table[r]) = CDiv(HitTokens(hit) + n, BlockSize)
      /\ \A q \in Reqs \ {r} : kw.table[q] = k.table[q]
      /\ HeldKeepsHash(k, kw)
  BY <1>1, <1>2, <1>3, AdmitSlotsOK
<1>5. /\ Content(kw) /\ Victims(kw.lower)
      /\ NumCached(kw, r) * BlockSize <= HitTokens(hit) + n
      /\ \A q \in Reqs \ {r} : kw.cached[q] = k.cached[q]
      /\ ~AllocateSlotsRaises(k, r, 0, len, n, hit)
  BY <1>1, <1>2, <1>3, AdmitSlotsContent
<1>6. \A q \in Reqs \ {r} : NumCached(kw, q) = NumCached(k, q)
  BY <1>5 DEF NumCached
<1>7. /\ \A q \in Reqs \ {r} : cw[q] = c[q] /\ gw[q] = g[q]
      /\ cw[r] = HitTokens(hit) /\ gw[r] = HitTokens(hit) + n
  BY <1>1 DEF With
<1>8. Covered(kw, cw, gw, r)
  BY <1>4, <1>5, <1>7 DEF Covered
<1>9. OnlyTableOf(r, k, kw)
  BY <1>4 DEF OnlyTableOf
<1>10. Booked(kw, cw, gw, live) /\ Moves(k, kw)
  <2>1. KVOK(kw) /\ Tracked(kw) /\ Content(kw) /\ Victims(kw.lower) /\ HeldKeepsHash(k, kw)
    BY <1>4, <1>5
  <2>2. OnlyNumbersOf(r, k, kw, c, cw, g, gw)
    BY <1>6, <1>7 DEF OnlyNumbersOf
  <2>3. /\ r \in Reqs
        /\ r \in live => Covered(kw, cw, gw, r)
        /\ k.table[r] # << >> => WritesDown(k, kw, r)
    BY <1>1, <1>8
  <2>4. QED
    BY ONLY Booked(k, c, g, live), live \in SUBSET Reqs, <1>9, <2>1, <2>2, <2>3, OneRequestChanges
<1>11. QED
  BY <1>1, <1>4, <1>5, <1>9, <1>10

(* More slots for a request that runs. *)
LEMMA ExtendBooked ==
  ASSUME NEW live \in SUBSET Reqs, NEW k, NEW c \in [Reqs -> Nat], NEW g \in [Reqs -> Nat],
         Booked(k, c, g, live), NEW r \in live, g[r] = c[r],
         NEW len \in Nat, NEW n \in Nat \ {0}, SlotsFit(k, r, c[r], n, NoHit),
         NEW kw, kw = AllocateSlots(k, r, c[r], len, n, NoHit),
         NEW gw, With(g, r, c[r] + n, gw)
  PROVE  /\ Booked(kw, c, gw, live) /\ Moves(k, kw) /\ OnlyTableOf(r, k, kw)
         /\ ~AllocateSlotsRaises(k, r, c[r], len, n, NoHit)
<1>1. /\ r \in Reqs /\ c[r] \in Nat
      /\ KVOK(k) /\ Tracked(k) /\ Content(k) /\ Victims(k.lower)
      /\ NumCached(k, r) * BlockSize <= c[r] /\ Len(k.table[r]) = CDiv(c[r], BlockSize)
  BY DEF Booked, Covered
<1>2. /\ KVOK(kw) /\ Tracked(kw)
      /\ Len(kw.table[r]) = CDiv(c[r] + n, BlockSize)
      /\ \A q \in Reqs \ {r} : kw.table[q] = k.table[q]
      /\ HeldKeepsHash(k, kw)
  BY <1>1, ExtendSlotsOK
<1>3. /\ Content(kw) /\ Victims(kw.lower) /\ WritesDown(k, kw, r)
      /\ NumCached(kw, r) * BlockSize <= c[r] + n
      /\ \A q \in Reqs \ {r} : kw.cached[q] = k.cached[q]
      /\ ~AllocateSlotsRaises(k, r, c[r], len, n, NoHit)
  BY <1>1, ExtendSlotsContent
<1>4. \A q \in Reqs \ {r} : NumCached(kw, q) = NumCached(k, q)
  BY <1>3 DEF NumCached
<1>5. /\ \A q \in Reqs \ {r} : c[q] = c[q] /\ gw[q] = g[q]
      /\ gw[r] = c[r] + n
  BY <1>1 DEF With
<1>6. Covered(kw, c, gw, r)
  BY <1>1, <1>2, <1>3, <1>5 DEF Covered
<1>7. OnlyTableOf(r, k, kw)
  BY <1>2 DEF OnlyTableOf
<1>8. Booked(kw, c, gw, live) /\ Moves(k, kw)
  <2>1. KVOK(kw) /\ Tracked(kw) /\ Content(kw) /\ Victims(kw.lower) /\ HeldKeepsHash(k, kw)
    BY <1>2, <1>3
  <2>2. OnlyNumbersOf(r, k, kw, c, c, g, gw)
    BY <1>4, <1>5 DEF OnlyNumbersOf
  <2>3. /\ r \in Reqs
        /\ r \in live => Covered(kw, c, gw, r)
        /\ k.table[r] # << >> => WritesDown(k, kw, r)
    BY <1>1, <1>3, <1>6
  <2>4. QED
    BY ONLY Booked(k, c, g, live), live \in SUBSET Reqs, <1>7, <2>1, <2>2, <2>3, OneRequestChanges
<1>9. QED
  BY <1>3, <1>7, <1>8

(* A batch with r in it completes: full blocks that r holds are indexed.   *)
LEMMA CompleteBooked ==
  ASSUME NEW live \in SUBSET Reqs, NEW k, NEW c \in [Reqs -> Nat], NEW g \in [Reqs -> Nat],
         Booked(k, c, g, live), NEW r \in live, NEW kw, kw = CacheBlocks(k, r, c[r])
  PROVE  /\ Booked(kw, c, g, live) /\ Moves(k, kw) /\ kw.table = k.table
         /\ ~CacheBlocksRaises(k, r, c[r])
<1>1. /\ r \in Reqs /\ c[r] \in Nat /\ g[r] \in Nat /\ c[r] <= g[r]
      /\ Len(k.table[r]) = CDiv(g[r], BlockSize)
      /\ KVOK(k) /\ Tracked(k) /\ Content(k) /\ Victims(k.lower)
      /\ NumCached(k, r) * BlockSize <= g[r]
  BY DEF Booked, Covered
<1>2. /\ FullBlocks(r, c[r]) \in Nat
      /\ FullBlocks(r, c[r]) <= Len(k.table[r])
      /\ FullBlocks(r, c[r]) <= Len(Chain[r])
  BY <1>1, FullBlocksBound
<1>3. /\ KVOK(kw) /\ Tracked(kw) /\ kw.table = k.table
      /\ \A b \in 1..NumBlocks : k.npu.hash[b] # NoHash => kw.npu.hash[b] = k.npu.hash[b]
  BY <1>1, <1>2, CacheBlocksOK
<1>4. /\ Content(kw) /\ Victims(kw.lower) /\ WritesDown(k, kw, r)
      /\ NumCached(kw, r) \in {NumCached(k, r), FullBlocks(r, c[r])}
      /\ \A q \in Reqs \ {r} : kw.cached[q] = k.cached[q]
  BY <1>1, <1>2, CacheBlocksContent
<1>5. FullBlocks(r, c[r]) * BlockSize <= g[r]
  <2>1. FullBlocks(r, c[r]) * BlockSize <= c[r]
    BY <1>1, FullBlocksTokens
  <2>2. FullBlocks(r, c[r]) * BlockSize \in Int
    BY <1>2, KVAssumption
  <2>3. QED
    BY <1>1, <2>1, <2>2
<1>6. Covered(kw, c, g, r)
  BY <1>1, <1>3, <1>4, <1>5 DEF Covered
<1>7. \A q \in Reqs \ {r} : NumCached(kw, q) = NumCached(k, q)
  BY <1>4 DEF NumCached
<1>8. KVOK(kw) /\ Tracked(kw) /\ Content(kw) /\ Victims(kw.lower) /\ HeldKeepsHash(k, kw)
  BY <1>3, <1>4 DEF HeldKeepsHash
<1>9. OnlyTableOf(r, k, kw)
  BY <1>3 DEF OnlyTableOf
<1>10. Booked(kw, c, g, live) /\ Moves(k, kw)
  <2>1. OnlyNumbersOf(r, k, kw, c, c, g, g)
    BY <1>7 DEF OnlyNumbersOf
  <2>2. QED
    BY <1>1, <1>4, <1>6, <1>8, <1>9, <2>1, OneRequestChanges
<1>11. ~CacheBlocksRaises(k, r, c[r])
  <2>1. NumCached(k, r) \in Nat /\ Len(k.table[r]) \in Nat
    BY <1>1, NumCachedType, TableElement
  <2>2. QED
    BY <1>2, <2>1 DEF CacheBlocksRaises, Larger
<1>12. QED
  BY <1>3, <1>10, <1>11

(* r gives everything back and is over, or starts again from nothing. *)
LEMMA ReleaseBooked ==
  ASSUME NEW live \in SUBSET Reqs, NEW k, NEW c, NEW g, Booked(k, c, g, live),
         NEW r \in live, NEW kw, kw = Free(k, r)
  PROVE  /\ Booked(kw, c, g, live \ {r}) /\ Moves(k, kw)
         /\ OnlyTableOf(r, k, kw) /\ kw.table[r] = << >>
<1>1. /\ r \in Reqs /\ KVOK(k) /\ Tracked(k) /\ Content(k) /\ Victims(k.lower)
  BY DEF Booked
<1>2. /\ KVOK(kw) /\ kw.table = [k.table EXCEPT ![r] = << >>] /\ Tracked(kw)
      /\ kw.npu.hash = k.npu.hash
  BY <1>1, FreeOK
<1>3. HeldKeepsHash(k, kw)
  BY <1>2 DEF HeldKeepsHash
<1>4. kw.table[r] = << >> /\ OnlyTableOf(r, k, kw)
  BY <1>1, <1>2 DEF KVOK, OnlyTableOf
<1>5. /\ Content(kw) /\ Victims(kw.lower) /\ NumCached(kw, r) = 0
      /\ \A q \in Reqs \ {r} : NumCached(kw, q) = NumCached(k, q)
  BY <1>1, FreeContent
<1>6. WritesDown(k, kw, r)
  BY <1>1, <1>5, FreedWritesNothing
<1>7. Booked(kw, c, g, live \ {r}) /\ Moves(k, kw)
  <2>1. KVOK(kw) /\ Tracked(kw) /\ Content(kw) /\ Victims(kw.lower)
    BY <1>2, <1>5
  <2>2. OnlyNumbersOf(r, k, kw, c, c, g, g)
    BY <1>5 DEF OnlyNumbersOf
  <2>3. r \in live \ {r} => Covered(kw, c, g, r)
    OBVIOUS
  <2>4. QED
    BY <1>1, <1>3, <1>4, <1>6, <2>1, <2>2, <2>3, OneRequestChanges
<1>8. QED
  BY <1>4, <1>7

LEMMA PreemptBooked ==
  ASSUME NEW live \in SUBSET Reqs, NEW k, NEW c \in [Reqs -> Nat], NEW g \in [Reqs -> Nat],
         Booked(k, c, g, live), NEW r \in live, NEW kw, kw = Free(k, r),
         NEW cw, With(c, r, 0, cw), NEW gw, With(g, r, 0, gw)
  PROVE  /\ Booked(kw, cw, gw, live) /\ Moves(k, kw)
         /\ OnlyTableOf(r, k, kw) /\ kw.table[r] = << >>
<1>1. /\ Booked(kw, c, g, live \ {r}) /\ Moves(k, kw)
      /\ OnlyTableOf(r, k, kw) /\ kw.table[r] = << >>
  BY ReleaseBooked
<1>2. NumCached(kw, r) = 0 /\ r \in Reqs
  BY FreeContent DEF Booked
<1>3. CDiv(0, BlockSize) = 0 /\ Len(<< >>) = 0 /\ 0 * BlockSize = 0
  BY KVAssumption, CDivOfZero
<1>4. Covered(kw, cw, gw, r)
  BY <1>1, <1>2, <1>3 DEF Covered, With
<1>5. ASSUME NEW q \in live \ {r} PROVE Covered(kw, cw, gw, q)
  BY <1>1 DEF Booked, Covered, With
<1>6. Booked(kw, cw, gw, live)
  BY <1>1, <1>4, <1>5 DEF Booked
<1>7. QED
  BY <1>1, <1>6

(* The last token: r is indexed, then gives everything back for good. *)
LEMMA FinishBooked ==
  ASSUME NEW live \in SUBSET Reqs, NEW k, NEW c \in [Reqs -> Nat], NEW g \in [Reqs -> Nat],
         Booked(k, c, g, live), NEW r \in live,
         NEW kw, kw = Free(CacheBlocks(k, r, c[r]), r), NEW left, left = live \ {r}
  PROVE  /\ Booked(kw, c, g, left) /\ Moves(k, kw)
         /\ OnlyTableOf(r, k, kw) /\ kw.table[r] = << >>
<1> DEFINE km == CacheBlocks(k, r, c[r])
<1>1. Booked(km, c, g, live) /\ Moves(k, km) /\ km.table = k.table
  BY CompleteBooked
<1>2. kw = Free(km, r) /\ r \in Reqs /\ KVOK(km) /\ Content(km)
  BY <1>1 DEF Booked
<1> HIDE DEF km
<1>3. /\ Booked(kw, c, g, live \ {r})
      /\ OnlyTableOf(r, km, kw) /\ kw.table[r] = << >>
  BY <1>1, <1>2, ReleaseBooked, ZenonT(40)
<1>4. /\ kw.npu.hash = km.npu.hash /\ kw.lower = km.lower /\ NumCached(kw, r) = 0
      /\ \A q \in Reqs \ {r} : NumCached(kw, q) = NumCached(km, q)
  <2>1. kw.npu.hash = km.npu.hash
    BY <1>2, FreeOK, ZenonT(40)
  <2>2. /\ kw.lower = km.lower /\ NumCached(kw, r) = 0
        /\ \A q \in Reqs \ {r} : NumCached(kw, q) = NumCached(km, q)
    BY <1>2, FreeContent
  <2>3. QED
    BY <2>1, <2>2
<1>5. HeldKeepsHash(k, kw)
  BY <1>1, <1>4 DEF Moves, HeldKeepsHash
<1>6. ASSUME NEW q \in Reqs, k.table[q] # << >> PROVE WritesDown(k, kw, q)
  <2>1. CASE q = r
    BY <1>4, <2>1, FreedWritesNothing, SMTT(30) DEF Booked
  <2>2. CASE q # r
    <3>1. WritesDown(k, km, q)
      BY <1>1, <1>6 DEF Moves, RunningWritesDown
    <3>2. NumCached(kw, q) = NumCached(km, q)
      BY <1>4, <2>2
    <3>3. QED
      BY <1>4, <3>1, <3>2 DEF WritesDown
  <2>3. QED
    BY <2>1, <2>2
<1>7. OnlyTableOf(r, k, kw)
  BY <1>1, <1>3 DEF OnlyTableOf
<1>8. QED
  BY <1>3, <1>5, <1>6, <1>7 DEF Moves, RunningWritesDown
=============================================================================
