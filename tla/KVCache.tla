------------------------------- MODULE KVCache -------------------------------
(***************************************************************************)
(* TieredKVCacheManager (core/kv_cache_manager.py), as operators on a      *)
(* record:                                                                 *)
(*   npu     the pool requests compute against                             *)
(*   lower   the victim tiers (CPU, then CXL), a pool per entry of Tiers   *)
(*   table   req_to_blocks: the NPU blocks of a request, in sequence order *)
(*   cached  num_cached_block: how many of them are indexed, Untracked     *)
(*           while the request has no entry                                *)
(* A request without an entry in req_to_blocks and one with an empty entry *)
(* behave alike, so both have the empty table.                             *)
(***************************************************************************)
EXTENDS BlockPool, FiniteSetsExt

CONSTANTS
  Reqs,       (* request ids, 1..n in arrival order                         *)
  Chain,      (* Chain[r][i]: hash of the i-th block of r's prompt+output   *)
  BlockSize,  (* tokens per NPU block                                       *)
  NumBlocks,  (* blocks of the NPU pool                                     *)
  Tiers       (* <<[blocks |-> n, factor |-> f], ...>>: a victim tier has n *)
              (* blocks of f * BlockSize tokens                             *)

ASSUME KVAssumption ==
  /\ IsFiniteSet(Reqs)
  /\ BlockSize \in Nat \ {0} /\ NumBlocks \in Nat \ {0}
  /\ Chain \in [Reqs -> Seq(Hashes)]
  /\ \A r, q \in Reqs : \A i \in DOMAIN Chain[r], j \in DOMAIN Chain[q] :
       Chain[r][i] = Chain[q][j] => i = j
  /\ Tiers \in Seq([blocks : Nat \ {0}, factor : Nat \ {0}])

Untracked == -1

CDiv(a, b) == (a + b - 1) \div b
Larger(a, b) == IF a >= b THEN a ELSE b
Lesser(a, b) == IF a <= b THEN a ELSE b

NewKV ==
  [npu    |-> NewPool(NumBlocks),
   lower  |-> [t \in DOMAIN Tiers |-> NewPool(Tiers[t].blocks)],
   table  |-> [r \in Reqs |-> << >>],
   cached |-> [r \in Reqs |-> Untracked]]

-----------------------------------------------------------------------------
(* get_computed_blocks *)

(* Hits stop at the first miss, and are capped so that at least one token  *)
(* of the length reached is left to compute.                               *)

MaxHitBlocks(len) == (len - 1) \div BlockSize

NpuHits(kv, r, len) ==
  LET max == Lesser(MaxHitBlocks(len), Len(Chain[r]))
      miss(i) == CachedBlock(kv.npu, Chain[r][i]) = NoBlock
  IN  CHOOSE k \in 0..max : /\ \A i \in 1..k : ~miss(i)
                            /\ k < max => miss(k + 1)

(* _lookup_lower: what tier t adds beyond the NPU hit, in tokens.  Coarse  *)
(* block i (from 0) is keyed by the last fine hash it covers.              *)
MaxCoarse(len, coarse) == len \div coarse

CoarseHit(kv, r, t, i) ==
  LET fine == Tiers[t].factor * (i + 1)
  IN  fine <= Len(Chain[r]) /\ CachedBlock(kv.lower[t], Chain[r][fine]) # NoBlock

Gained(kv, r, len, t, npuHit) ==
  LET coarse == BlockSize * Tiers[t].factor
      start  == npuHit \div coarse
      end    == MaxCoarse(len, coarse)
      last   == CHOOSE k \in start..Larger(start, end) :
                  /\ \A i \in start..(k - 1) : CoarseHit(kv, r, t, i)
                  /\ k < end => ~CoarseHit(kv, r, t, k)
  IN  coarse * last - npuHit

LowerHit(kv, r, len, npuHit) ==
  LET worth == {t \in DOMAIN Tiers :
                  Gained(kv, r, len, t, npuHit) >= BlockSize * Tiers[t].factor}
  IN  IF worth = {} THEN 0 ELSE Gained(kv, r, len, Min(worth), npuHit)

NoHit == [blocks |-> << >>, npu |-> 0, lower |-> 0]

GetComputedBlocks(kv, r, len) ==
  LET k == NpuHits(kv, r, len)
  IN  [blocks |-> [i \in 1..k |-> CachedBlock(kv.npu, Chain[r][i])],
       npu    |-> k * BlockSize,
       lower  |-> LowerHit(kv, r, len, k * BlockSize)]

HitTokens(hit) == hit.npu + hit.lower

-----------------------------------------------------------------------------
(* cache_blocks: index the blocks of r that tokens now fill, then copy     *)
(* every coarse block they complete to every victim tier (_write_down).    *)
(* Variant: a block that is begun counts as full. *)
BegunBlocks(r, tokens) == Lesser(CDiv(tokens, BlockSize), Len(Chain[r]))

FullBlocks(r, tokens) == Lesser(tokens \div BlockSize, Len(Chain[r]))
NumCached(kv, r) == Larger(kv.cached[r], 0)

(* Copies of several blocks, each made on what the ones before it left.    *)
(* (A fold, given by a recursive function: the prover has no fold.)        *)
CacheCopies(pool, keys) ==
  LET copied[k \in 0..Len(keys)] ==
        IF k = 0 THEN pool ELSE CacheCopy(copied[k - 1], keys[k])
  IN  copied[Len(keys)]

(* The keys of the first n coarse blocks of f fine ones after the given    *)
(* one.                                                                    *)
CoarseKeys(r, f, first, n) == [i \in 1..n |-> Chain[r][f * (first + i)]]

(* Variant: the last coarse block is missed. *)
WriteDownShort(kv, r, from, to) ==
  [t \in DOMAIN Tiers |->
     LET f == Tiers[t].factor
     IN  CacheCopies(kv.lower[t], CoarseKeys(r, f, from \div f, ((to - 1) \div f) - (from \div f)))]

WriteDown(kv, r, from, to) ==
  [t \in DOMAIN Tiers |->
     LET f == Tiers[t].factor
     IN  CacheCopies(kv.lower[t], CoarseKeys(r, f, from \div f, (to \div f) - (from \div f)))]

CacheBlocks(kv, r, tokens) ==
  LET from == NumCached(kv, r)
      to   == FullBlocks(r, tokens)
  IN  IF ~EnableCaching \/ from >= to THEN kv
      ELSE [npu    |-> CacheFullBlocks(kv.npu, Chain[r], kv.table[r], from, to),
            lower  |-> WriteDown(kv, r, from, to),
            table  |-> kv.table,
            cached |-> [kv.cached EXCEPT ![r] = to]]

CacheBlocksRaises(kv, r, tokens) ==
  EnableCaching /\ FullBlocks(r, tokens) > Larger(NumCached(kv, r), Len(kv.table[r]))

-----------------------------------------------------------------------------
(* _num_blocks_to_allocate: a hit nobody holds leaves the free list too.   *)
EvictableIgnored(kv, hits) == 0  \* variant: hits are taken to be free of charge

Evictable(kv, hits) == Cardinality({b \in ToSet(hits) : kv.npu.ref[b] = 0})

NumBlocksToAllocate(kv, r, tokens, hits) ==
  LET known == Len(kv.table[r]) + IF kv.cached[r] = Untracked THEN Len(hits) ELSE 0
  IN  Larger(CDiv(tokens, BlockSize) - known, 0)
      + IF kv.cached[r] = Untracked THEN Evictable(kv, hits) ELSE 0

(* can_fit_full_sequence *)
CanFitFullSequence(kv, r, computed, len, hit) ==
  NumBlocksToAllocate(kv, r, Larger(len, computed + HitTokens(hit)), hit.blocks)
    <= NumFree(kv.npu)

(* allocate_slots: None is ~SlotsFit, and leaves everything as it was. *)
SlotsFit(kv, r, computed, n, hit) ==
  NumBlocksToAllocate(kv, r, computed + HitTokens(hit) + n, hit.blocks) <= NumFree(kv.npu)

(* Variant: recalled blocks count as indexed already. *)
ClaimHitsRecalled(kv, r, hit) ==
  IF hit.blocks = << >> /\ hit.lower = 0 THEN kv
  ELSE [kv EXCEPT !.npu       = Touch(kv.npu, ToSet(hit.blocks)),
                  !.table[r]  = @ \o hit.blocks,
                  !.cached[r] = Len(hit.blocks) + hit.lower \div BlockSize]

ClaimHits(kv, r, hit) ==
  IF hit.blocks = << >> /\ hit.lower = 0 THEN kv
  ELSE [npu    |-> Touch(kv.npu, ToSet(hit.blocks)),
        lower  |-> kv.lower,
        table  |-> [kv.table EXCEPT ![r] = @ \o hit.blocks],
        cached |-> [kv.cached EXCEPT ![r] = Len(kv.table[r] \o hit.blocks)]]

(* Variant: one slot too many. *)
AllocateNewBlocksAhead(kv, r, tokens) ==
  LET n == CDiv(tokens + 1, BlockSize) - Len(kv.table[r])
  IN  IF n <= 0 THEN kv
      ELSE [kv EXCEPT !.npu = GetNewBlocks(kv.npu, n), !.table[r] = @ \o PopLeft(kv.npu, n)]

AllocateNewBlocks(kv, r, tokens) ==
  LET n == CDiv(tokens, BlockSize) - Len(kv.table[r])
  IN  IF n <= 0 THEN kv
      ELSE [npu    |-> GetNewBlocks(kv.npu, n),
            lower  |-> kv.lower,
            table  |-> [kv.table EXCEPT ![r] = @ \o PopLeft(kv.npu, n)],
            cached |-> kv.cached]

AllocateSlots(kv, r, computed, len, n, hit) ==
  LET need == computed + HitTokens(hit) + n
  IN  CacheBlocks(AllocateNewBlocks(ClaimHits(kv, r, hit), r, need), r, Lesser(need, len))

AllocateSlotsRaises(kv, r, computed, len, n, hit) ==
  LET need    == computed + HitTokens(hit) + n
      claimed == ClaimHits(kv, r, hit)
      k       == CDiv(need, BlockSize) - Len(claimed.table[r])
  IN  \/ kv.cached[r] # Untracked /\ HitTokens(hit) > 0
      \/ TouchRaises(kv.npu, ToSet(hit.blocks))
      \/ k > 0 /\ GetNewBlocksRaises(claimed.npu, k)
      \/ CacheBlocksRaises(AllocateNewBlocks(claimed, r, need), r, Lesser(need, len))

(* free, and preempt: the last block of the sequence is given back first. *)
ReleaseOrder(blocks) == Reverse(blocks)

(* Variant: req_to_blocks keeps its entry. *)
FreeKeepsTable(kv, r) ==
  [kv EXCEPT !.npu       = FreeBlocks(kv.npu, ReleaseOrder(kv.table[r])),
             !.cached[r] = Untracked]

Free(kv, r) ==
  [npu    |-> FreeBlocks(kv.npu, ReleaseOrder(kv.table[r])),
   lower  |-> kv.lower,
   table  |-> [kv.table EXCEPT ![r] = << >>],
   cached |-> [kv.cached EXCEPT ![r] = Untracked]]
=============================================================================
