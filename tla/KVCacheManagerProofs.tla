------------------------- MODULE KVCacheManagerProofs -------------------------
(***************************************************************************)
(* The manager keeps its books under every caller that keeps its contract, *)
(* for every number of requests, blocks and tiers and every hash chain.    *)
(***************************************************************************)
EXTENDS KVCacheManager, KVCacheProofs

Typed ==
  /\ computed \in [Reqs -> Nat]
  /\ granted \in [Reqs -> Nat]
  /\ reached \in [Reqs -> Nat \ {0}]
  /\ gone \subseteq Reqs

(* The inductive invariant (KVCacheProofs says what each part is for). *)
IInv == Typed /\ Booked(kv, computed, granted, Live)

(* What a step leaves: the invariant, the content of held blocks, and      *)
(* victim tiers that include what was cached.                              *)
StepOK == IInv' /\ Moves(kv, kv')

-----------------------------------------------------------------------------
LEMMA InitIInv == Init => IInv
<1> SUFFICES ASSUME Init PROVE IInv
  OBVIOUS
<1>1. Typed
  BY LengthAssumption DEF Init, Typed
<1>2. Live \in SUBSET Reqs /\ \A r \in Reqs : computed[r] = 0 /\ granted[r] = 0
  BY DEF Init, Live
<1>3. Booked(kv, computed, granted, Live)
  BY <1>2, NewBooked DEF Init
<1>4. QED
  BY <1>1, <1>3 DEF IInv

(* An admission. *)
LEMMA AdmitStep ==
  ASSUME IInv, NEW r \in Live, Admit(r)
  PROVE  StepOK
<1> DEFINE hit == GetComputedBlocks(kv, r, reached[r])
<1>1. PICK n \in 1..(reached[r] - HitTokens(hit)) :
        /\ SlotsFit(kv, r, computed[r], n, hit)
        /\ kv' = AllocateSlots(kv, r, computed[r], reached[r], n, hit)
        /\ granted' = [granted EXCEPT ![r] = HitTokens(hit) + n]
  BY DEF Admit
<1>2. /\ kv.table[r] = << >> /\ computed' = [computed EXCEPT ![r] = HitTokens(hit)]
      /\ reached' = reached /\ gone' = gone
  BY DEF Admit, Holding
<1>3. hit = GetComputedBlocks(kv, r, reached[r])
  OBVIOUS
<1> HIDE DEF hit
<1>4. /\ computed \in [Reqs -> Nat] /\ granted \in [Reqs -> Nat]
      /\ reached[r] \in Nat \ {0} /\ n \in Nat \ {0}
      /\ Live \in SUBSET Reqs /\ Booked(kv, computed, granted, Live)
  BY DEF IInv, Typed, Live
<1>5. /\ HitTokens(hit) \in Nat
      /\ Booked(kv', computed', granted', Live) /\ Moves(kv, kv')
  <2>1. /\ With(computed, r, HitTokens(hit), computed')
        /\ With(granted, r, HitTokens(hit) + n, granted')
    BY <1>1, <1>2 DEF With
  <2>2. QED
    BY <1>1, <1>2, <1>3, <1>4, <2>1, AdmitBooked
<1>6. Typed' /\ Live' = Live
  BY <1>1, <1>2, <1>4, <1>5 DEF IInv, Typed, Live
<1>7. QED
  BY <1>5, <1>6 DEF StepOK, IInv

(* More slots for a running request. *)
LEMMA ExtendStep ==
  ASSUME IInv, NEW r \in Live, Extend(r)
  PROVE  StepOK
<1>1. PICK n \in 1..(reached[r] - computed[r]) :
        /\ SlotsFit(kv, r, computed[r], n, NoHit)
        /\ kv' = AllocateSlots(kv, r, computed[r], reached[r], n, NoHit)
        /\ granted' = [granted EXCEPT ![r] = computed[r] + n]
  BY DEF Extend
<1>2. granted[r] = computed[r] /\ computed' = computed /\ reached' = reached /\ gone' = gone
  BY DEF Extend
<1>3. /\ computed \in [Reqs -> Nat] /\ granted \in [Reqs -> Nat]
      /\ reached[r] \in Nat /\ n \in Nat \ {0}
      /\ Live \in SUBSET Reqs /\ Booked(kv, computed, granted, Live)
  BY DEF IInv, Typed, Live
<1>4. Booked(kv', computed, granted', Live) /\ Moves(kv, kv')
  <2>1. With(granted, r, computed[r] + n, granted')
    BY <1>1 DEF With
  <2>2. QED
    BY <1>1, <1>2, <1>3, <2>1, ExtendBooked
<1>5. Typed' /\ Live' = Live
  BY <1>1, <1>2, <1>3 DEF IInv, Typed, Live
<1>6. QED
  BY <1>2, <1>4, <1>5 DEF StepOK, IInv

(* A batch completes. *)
LEMMA CompleteStep ==
  ASSUME IInv, NEW r \in Live, Complete(r)
  PROVE  StepOK
<1>1. /\ kv' = CacheBlocks(kv, r, computed[r])
      /\ computed' = computed /\ granted' = granted /\ gone' = gone
  BY DEF Complete
<1>2. Booked(kv', computed, granted, Live) /\ Moves(kv, kv')
  BY <1>1, CompleteBooked DEF IInv, Typed, Live
<1>3. reached' \in [Reqs -> Nat \ {0}]
  BY DEF Complete, IInv, Typed
<1>4. Typed' /\ Live' = Live
  BY <1>1, <1>3 DEF IInv, Typed, Live
<1>5. QED
  BY <1>1, <1>2, <1>4 DEF StepOK, IInv

(* The last token. *)
LEMMA FinishStep ==
  ASSUME IInv, NEW r \in Live, Finish(r)
  PROVE  StepOK
<1>1. /\ kv' = Free(CacheBlocks(kv, r, computed[r]), r)
      /\ computed' = computed /\ granted' = granted /\ gone' = gone \cup {r}
      /\ reached' = [reached EXCEPT ![r] = @ + 1]
  BY DEF Finish
<1>2. /\ Live \in SUBSET Reqs /\ computed \in [Reqs -> Nat] /\ granted \in [Reqs -> Nat]
      /\ Booked(kv, computed, granted, Live)
  BY DEF IInv, Typed, Live
<1>3. Live' = Live \ {r} /\ Typed'
  BY <1>1 DEF IInv, Typed, Live
<1>4. Booked(kv', computed, granted, Live') /\ Moves(kv, kv')
  BY ZenonT(40), <1>1, <1>2, <1>3, FinishBooked
<1>5. QED
  BY <1>1, <1>3, <1>4 DEF StepOK, IInv

(* A preemption. *)
LEMMA PreemptStep ==
  ASSUME IInv, NEW r \in Live, Preempt(r)
  PROVE  StepOK
<1>1. /\ kv' = Free(kv, r) /\ computed' = [computed EXCEPT ![r] = 0]
      /\ granted' = [granted EXCEPT ![r] = 0] /\ reached' = reached /\ gone' = gone
  BY DEF Preempt
<1>2. /\ Live \in SUBSET Reqs /\ computed \in [Reqs -> Nat] /\ granted \in [Reqs -> Nat]
      /\ Booked(kv, computed, granted, Live)
  BY DEF IInv, Typed, Live
<1>3. Live' = Live
  BY <1>1 DEF Live
<1>4. Booked(kv', computed', granted', Live) /\ Moves(kv, kv')
  <2>1. With(computed, r, 0, computed') /\ With(granted, r, 0, granted')
    BY <1>1 DEF With
  <2>2. QED
    BY <1>1, <1>2, <2>1, PreemptBooked
<1>5. Typed'
  BY <1>1, <1>2 DEF IInv, Typed
<1>6. QED
  BY <1>3, <1>4, <1>5 DEF StepOK, IInv

(* The counters of a step advance. *)
LEMMA AdvanceStep ==
  ASSUME IInv, NEW S \in SUBSET Live, Advance(S)
  PROVE  StepOK
<1>1. /\ computed' = [r \in Reqs |-> IF r \in S THEN granted[r] ELSE computed[r]]
      /\ kv' = kv /\ granted' = granted /\ reached' = reached /\ gone' = gone
  BY DEF Advance
<1>2. Typed' /\ Live' = Live
  BY <1>1 DEF IInv, Typed, Live
<1>3. ASSUME NEW r \in Live PROVE Covered(kv, computed', granted, r)
  <2>1. r \in Reqs /\ granted[r] \in Nat /\ Covered(kv, computed, granted, r)
    BY DEF IInv, Typed, Live, Booked
  <2>2. QED
    BY <1>1, <2>1 DEF Covered
<1>4. Booked(kv', computed', granted', Live)
  BY <1>1, <1>3 DEF IInv, Booked
<1>5. QED
  BY <1>1, <1>2, <1>4, SameKV DEF StepOK, IInv, Booked

(* Every step. *)
LEMMA NextStep ==
  ASSUME IInv, [Next]_vars
  PROVE  StepOK
<1>1. CASE UNCHANGED vars
  <2>1. IInv'
    BY <1>1 DEF vars, IInv, Typed, Booked, Covered, Live
  <2>2. QED
    BY <1>1, <2>1, SameKV DEF vars, StepOK, IInv, Booked
<1>2. ASSUME NEW r \in Live, Admit(r) PROVE StepOK
  BY <1>2, AdmitStep
<1>3. ASSUME NEW r \in Live, Extend(r) PROVE StepOK
  BY <1>3, ExtendStep
<1>4. ASSUME NEW r \in Live, Complete(r) PROVE StepOK
  BY <1>4, CompleteStep
<1>5. ASSUME NEW r \in Live, Finish(r) PROVE StepOK
  BY <1>5, FinishStep
<1>6. ASSUME NEW r \in Live, Preempt(r) PROVE StepOK
  BY <1>6, PreemptStep
<1>7. ASSUME NEW S \in SUBSET Live, Advance(S) PROVE StepOK
  BY <1>7, AdvanceStep
<1>8. QED
  BY <1>1, <1>2, <1>3, <1>4, <1>5, <1>6, <1>7 DEF Next, Terminated

(* Every state the manager can be in satisfies the inductive invariant. *)
THEOREM Inductive == Spec => []IInv
<1>1. IInv /\ [Next]_vars => IInv'
  BY NextStep DEF StepOK
<1>2. QED
  BY InitIInv, <1>1, PTL DEF Spec

(* The free list of the NPU pool is exactly the blocks nobody holds, each  *)
(* once, and the index only names blocks that hold what it promises        *)
(* (block_pool.py).                                                        *)
THEOREM NpuPoolIsOK == Spec => []NpuPoolOK
<1>1. IInv => NpuPoolOK
  BY DEF IInv, Booked, KVOK, PoolOK, NpuPoolOK
<1>2. QED
  BY Inductive, <1>1, PTL

(* ref_cnt of every block is the number of requests that have it in their  *)
(* table, and no table has a block twice (touch, get_new_blocks,           *)
(* free_blocks as allocate_slots and free call them).                      *)
THEOREM RefCountsAreSharers == Spec => []RefCountIsSharers
<1>1. IInv => RefCountIsSharers
  BY DEF IInv, Booked, KVOK, Sharers, Distinct, RefCountIsSharers
<1>2. QED
  BY Inductive, <1>1, PTL

(* A running request holds exactly the blocks that its granted tokens take *)
(* (_num_blocks_to_allocate and allocate_slots agree).                     *)
THEOREM TablesCoverGrants == Spec => []TableCoversGrant
<1>1. IInv => TableCoversGrant
  BY DEF IInv, Booked, Covered, TableCoversGrant
<1>2. QED
  BY Inductive, <1>1, PTL

(* While some request holds a block, nothing anybody does (eviction,       *)
(* indexing, release) changes the prefix whose KV it holds.                *)
THEOREM HeldBlocksKeepContent == Spec => PinnedKeepsContent
<1>1. IInv /\ [Next]_vars =>
        [\A b \in 1..NumBlocks :
           kv.npu.ref[b] > 0 /\ kv'.npu.ref[b] > 0 /\ kv.npu.hash[b] # NoHash
             => kv'.npu.hash[b] = kv.npu.hash[b]]_vars
  BY NextStep DEF StepOK, Moves, HeldKeepsHash
<1>2. QED
  BY Inductive, <1>1, PTL DEF Spec, PinnedKeepsContent

(* The manager's state has its type, and the i-th block of a table, once   *)
(* it is hashed, holds the i-th block of that request's own tokens,        *)
(* whoever filled it; num_cached_block never runs ahead of what is hashed  *)
(* or of what was granted (cache_blocks, get_computed_blocks).             *)
THEOREM TablesHoldOwnPrefix == Spec => []TableHoldsOwnPrefix
<1>1. IInv => TableHoldsOwnPrefix
  <2> SUFFICES ASSUME IInv PROVE TableHoldsOwnPrefix
    OBVIOUS
  <2>1. TypeOK
    <3>1. kv.npu \in Pool(NumBlocks)
      BY DEF IInv, Booked, KVOK, PoolOK
    <3>2. /\ DOMAIN kv.lower = DOMAIN Tiers
          /\ \A t \in DOMAIN Tiers : kv.lower[t] \in Pool(Tiers[t].blocks)
      BY DEF IInv, Booked, Victims, Unpinned, PoolOK
    <3>3. QED
      BY <3>1, <3>2 DEF TypeOK, IInv, Booked, KVOK, Typed
  <2>2. \A r \in Reqs : HoldsPrefix(kv, r)
    BY DEF IInv, Booked, Content
  <2>3. \A r \in Live : NumCached(kv, r) * BlockSize <= granted[r]
    BY DEF IInv, Booked, Covered
  <2>4. QED
    BY <2>1, <2>2, <2>3 DEF TableHoldsOwnPrefix, HoldsPrefix
<1>2. QED
  BY Inductive, <1>1, PTL

(* No pool and no manager operation raises for a caller that keeps the     *)
(* contract, and every copy on a victim tier stays reclaimable             *)
(* (get_new_blocks, touch, free_blocks, cache_full_blocks, _write_down).   *)
THEOREM NothingEverRaises == Spec => []NeverRaises
<1>1. IInv => NeverRaises
  <2> SUFFICES ASSUME IInv PROVE NeverRaises
    OBVIOUS
  <2>1. VictimsUnpinned
    <3>1. ASSUME NEW t \in DOMAIN Tiers
          PROVE  /\ FreeListExact(kv.lower[t]) /\ IndexSound(kv.lower[t])
                 /\ \A b \in DOMAIN kv.lower[t].ref : kv.lower[t].ref[b] = 0
      <4>1. Unpinned(Tiers[t].blocks, kv.lower[t]) /\ Tiers[t].blocks \in Nat
        BY TierFactor DEF IInv, Booked, Victims
      <4>2. DOMAIN kv.lower[t].ref = 1..Tiers[t].blocks
        BY <4>1, PoolOKFacts DEF Unpinned
      <4>3. QED
        BY <4>1, <4>2 DEF Unpinned, PoolOK
    <3>2. QED
      BY <3>1 DEF VictimsUnpinned
  <2>2. ASSUME NEW r \in Live
        PROVE  /\ r \in Reqs /\ computed[r] \in Nat /\ granted[r] \in Nat
               /\ reached[r] \in Nat \ {0} /\ computed[r] <= granted[r]
               /\ Len(kv.table[r]) = CDiv(granted[r], BlockSize)
               /\ NumCached(kv, r) * BlockSize <= granted[r]
    BY DEF IInv, Typed, Live, Booked, Covered
  <2>3. KVOK(kv) /\ Tracked(kv) /\ Content(kv) /\ Victims(kv.lower)
    BY DEF IInv, Booked
  <2>4. ASSUME NEW r \in Live, NEW hit, hit = GetComputedBlocks(kv, r, reached[r]),
               NEW n \in 1..(reached[r] - HitTokens(hit)),
               ~Holding(r), SlotsFit(kv, r, computed[r], n, hit)
        PROVE  ~AllocateSlotsRaises(kv, r, computed[r], reached[r], n, hit)
    <3>1. kv.table[r] = << >> /\ n \in Nat \ {0}
      BY <2>4 DEF Holding
    <3>2. computed[r] = 0
      <4>1. Live \in SUBSET Reqs /\ Booked(kv, computed, granted, Live)
        BY DEF IInv, Live
      <4>2. QED
        BY <2>2, <3>1, <4>1, NothingHeld
    <3>3. SlotsFit(kv, r, 0, n, hit)
      BY <2>4, <3>2
    <3>4. ~AllocateSlotsRaises(kv, r, 0, reached[r], n, hit)
      BY <2>2, <2>3, <2>4, <3>1, <3>3, AdmitSlotsContent
    <3>5. QED
      BY <3>2, <3>4
  <2>5. ASSUME NEW r \in Live, NEW n \in 1..(reached[r] - computed[r]),
               granted[r] = computed[r], SlotsFit(kv, r, computed[r], n, NoHit)
        PROVE  ~AllocateSlotsRaises(kv, r, computed[r], reached[r], n, NoHit)
    <3>1. n \in Nat \ {0} /\ reached[r] \in Nat /\ r \in Reqs /\ computed[r] \in Nat
      BY <2>2
    <3>2. /\ Len(kv.table[r]) = CDiv(computed[r], BlockSize)
          /\ NumCached(kv, r) * BlockSize <= computed[r]
      BY <2>2, <2>5
    <3>3. QED
      BY <2>3, <2>5, <3>1, <3>2, ExtendSlotsContent
  <2>6. ASSUME NEW r \in Live PROVE ~CacheBlocksRaises(kv, r, computed[r])
    <3>1. /\ FullBlocks(r, computed[r]) \in Nat
          /\ FullBlocks(r, computed[r]) <= Len(kv.table[r])
      BY <2>2, FullBlocksBound
    <3>2. NumCached(kv, r) \in Nat /\ Len(kv.table[r]) \in Nat
      BY <2>2, <2>3, NumCachedType, TableElement
    <3>3. QED
      BY <3>1, <3>2 DEF CacheBlocksRaises, Larger
  <2>7. ASSUME NEW r \in Live PROVE ~FreeBlocksRaises(kv.npu, kv.table[r])
    <3>1. ASSUME NEW b \in ToSet(kv.table[r]) PROVE ~(kv.npu.ref[b] <= 0)
      <4>1. kv.npu.ref[b] \in Nat /\ kv.npu.ref[b] > 0
        BY <2>2, <2>3, TableIsHeld, SharersFinite DEF KVOK
      <4>2. QED
        BY <4>1
    <3>2. QED
      BY <3>1 DEF FreeBlocksRaises
  <2>8. QED
    BY <2>1, <2>4, <2>5, <2>6, <2>7 DEF NeverRaises
<1>2. QED
  BY Inductive, <1>1, PTL

(* Write-through is inclusive: when more blocks of a running request are   *)
(* indexed on the NPU, the coarse block they complete is on every victim   *)
(* tier (_write_down).                                                     *)
THEOREM WritesAreThrough == Spec => WrittenDown
<1> DEFINE Down ==
      \A r \in Reqs, t \in DOMAIN Tiers :
        LET f    == Tiers[t].factor
            last == NumCached(kv', r) \div f
        IN  EnableCaching /\ Holding(r) /\ last > NumCached(kv, r) \div f
              => kv'.lower[t].index[Chain[r][f * last]] # NoBlock
<1>1. IInv /\ [Next]_vars => [Down]_vars
  <2> SUFFICES ASSUME IInv, [Next]_vars PROVE Down
    OBVIOUS
  <2>1. RunningWritesDown(kv, kv')
    BY NextStep DEF StepOK, Moves
  <2>2. QED
    BY SMTT(30), <2>1 DEF RunningWritesDown, WritesDown, Holding
<1>2. QED
  BY Inductive, <1>1, PTL DEF Spec, WrittenDown
=============
