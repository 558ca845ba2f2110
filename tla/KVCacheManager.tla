--------------------------- MODULE KVCacheManager ---------------------------
(***************************************************************************)
(* The KV cache manager under every caller that keeps its contract:        *)
(* requests are admitted through get_computed_blocks, take slots for       *)
(* tokens up to the length they have reached, and are released at any time *)
(* in any order.  core/scheduler.py is one such caller (module Scheduler). *)
(***************************************************************************)
EXTENDS KVCache

CONSTANTS
  Prompt,   (* Prompt[r]: original_input                        *)
  Output    (* Output[r]: the length at which r is done         *)

ASSUME LengthAssumption ==
  /\ Prompt \in [Reqs -> Nat \ {0}] /\ Output \in [Reqs -> Nat]
  /\ \A r \in Reqs : Prompt[r] < Output[r]

VARIABLES
  kv,        (* the manager's state                                      *)
  computed,  (* num_computed_tokens                                      *)
  granted,   (* tokens r holds slots for: computed, or more while a step *)
             (* that scheduled r is being put together                   *)
  reached,   (* num_tokens_reached                                       *)
  gone       (* requests that finished                                   *)

vars == <<kv, computed, granted, reached, gone>>

Init ==
  /\ kv = NewKV
  /\ computed = [r \in Reqs |-> 0]
  /\ granted = [r \in Reqs |-> 0]
  /\ reached = Prompt
  /\ gone = {}

Live == Reqs \ gone
Holding(r) == kv.table[r] # << >>

(* Admission of a new or preempted request. *)
Admit(r) ==
  LET hit == GetComputedBlocks(kv, r, reached[r])
  IN  /\ ~Holding(r)
      /\ \E n \in 1..(reached[r] - HitTokens(hit)) :
           /\ SlotsFit(kv, r, computed[r], n, hit)
           /\ kv' = AllocateSlots(kv, r, computed[r], reached[r], n, hit)
           /\ granted' = [granted EXCEPT ![r] = HitTokens(hit) + n]
      /\ computed' = [computed EXCEPT ![r] = HitTokens(hit)]
      /\ UNCHANGED <<reached, gone>>

(* More slots for a running request. *)
Extend(r) ==
  /\ Holding(r)
  /\ granted[r] = computed[r]
  /\ \E n \in 1..(reached[r] - computed[r]) :
       /\ SlotsFit(kv, r, computed[r], n, NoHit)
       /\ kv' = AllocateSlots(kv, r, computed[r], reached[r], n, NoHit)
       /\ granted' = [granted EXCEPT ![r] = computed[r] + n]
  /\ UNCHANGED <<computed, reached, gone>>

(* The step is built: num_computed_tokens of what it scheduled advances. *)
Advance(S) ==
  /\ computed' = [r \in Reqs |-> IF r \in S THEN granted[r] ELSE computed[r]]
  /\ UNCHANGED <<kv, granted, reached, gone>>

(* A batch with r in it completes: its full blocks are indexed, and if r   *)
(* has caught up a token is appended.                                      *)
Complete(r) ==
  /\ kv' = CacheBlocks(kv, r, computed[r])
  /\ \/ UNCHANGED reached
     \/ /\ computed[r] = reached[r] /\ reached[r] + 1 < Output[r]
        /\ reached' = [reached EXCEPT ![r] = @ + 1]
  /\ UNCHANGED <<computed, granted, gone>>

(* The last token: r is indexed, then gives everything back for good. *)
Finish(r) ==
  /\ computed[r] = reached[r] /\ reached[r] + 1 = Output[r]
  /\ kv' = Free(CacheBlocks(kv, r, computed[r]), r)
  /\ reached' = [reached EXCEPT ![r] = @ + 1]
  /\ gone' = gone \cup {r}
  /\ UNCHANGED <<computed, granted>>

(* Preemption, in any state of the request. *)
Preempt(r) ==
  /\ Holding(r)
  /\ kv' = Free(kv, r)
  /\ computed' = [computed EXCEPT ![r] = 0]
  /\ granted' = [granted EXCEPT ![r] = 0]
  /\ UNCHANGED <<reached, gone>>

Terminated == gone = Reqs /\ UNCHANGED vars

Next ==
  \/ \E r \in Live : Admit(r) \/ Extend(r) \/ Complete(r) \/ Finish(r) \/ Preempt(r)
  \/ \E S \in SUBSET Live : Advance(S)
  \/ Terminated

Spec == Init /\ [][Next]_vars

-----------------------------------------------------------------------------
TypeOK ==
  /\ kv.npu \in Pool(NumBlocks)
  /\ DOMAIN kv.lower = DOMAIN Tiers
  /\ \A t \in DOMAIN Tiers : kv.lower[t] \in Pool(Tiers[t].blocks)
  /\ kv.table \in [Reqs -> Seq(1..NumBlocks)]
  /\ kv.cached \in [Reqs -> Nat \cup {Untracked}]
  /\ computed \in [Reqs -> Nat]
  /\ granted \in [Reqs -> Nat]
  /\ reached \in [Reqs -> Nat]
  /\ gone \subseteq Reqs

(* The free list of the NPU pool holds each unheld block once and no block *)
(* that is in some table, and the index only names blocks whose content it *)
(* promises: block_pool.py's list surgery, under every interleaving of     *)
(* admissions, releases and evictions.                                     *)
NpuPoolOK == FreeListExact(kv.npu) /\ IndexSound(kv.npu)

(* Write-through is inclusive: when a running request gets another coarse  *)
(* block indexed on the NPU, that block is on every victim tier.           *)
WrittenDown ==
  [][\A r \in Reqs, t \in DOMAIN Tiers :
       LET f    == Tiers[t].factor
           last == NumCached(kv', r) \div f
       IN  EnableCaching /\ Holding(r) /\ last > NumCached(kv, r) \div f
             => kv'.lower[t].index[Chain[r][f * last]] # NoBlock]_vars

(* ref_cnt of a block is the number of block tables it is in.  One touch   *)
(* or free too many, and a block is evicted under a request or leaks.      *)
RefCountIsSharers ==
  /\ \A b \in 1..NumBlocks :
       kv.npu.ref[b] = Cardinality({r \in Reqs : b \in ToSet(kv.table[r])})
  /\ \A r \in Reqs : \A i, j \in DOMAIN kv.table[r] :
       kv.table[r][i] = kv.table[r][j] => i = j

(* The i-th block of a table, once hashed, holds the i-th block of that    *)
(* request's own token sequence, however it was obtained (computed, hit,   *)
(* recalled) and whoever shares it; num_cached_block never runs ahead of   *)
(* what is hashed, and only blocks filled by granted tokens are hashed.    *)
TableHoldsOwnPrefix ==
  TypeOK /\ \A r \in Reqs :
    /\ NumCached(kv, r) <= Len(kv.table[r])
    /\ r \in Live => NumCached(kv, r) * BlockSize <= granted[r]
    /\ \A i \in DOMAIN kv.table[r] :
         LET h == kv.npu.hash[kv.table[r][i]]
         IN  /\ h # NoHash => i <= Len(Chain[r]) /\ h = Chain[r][i]
             /\ i <= NumCached(kv, r) => h # NoHash

(* A request holds exactly the blocks its granted tokens need: hits plus   *)
(* new blocks never over- or under-allocate.                               *)
TableCoversGrant ==
  \A r \in Live : Len(kv.table[r]) = CDiv(granted[r], BlockSize)

(* A victim tier never pins anything: every copy stays reclaimable. *)
VictimsUnpinned ==
  \A t \in DOMAIN Tiers :
    /\ FreeListExact(kv.lower[t]) /\ IndexSound(kv.lower[t])
    /\ \A b \in DOMAIN kv.lower[t].ref : kv.lower[t].ref[b] = 0

(* None of the RuntimeErrors and KeyErrors of the pool and the manager can *)
(* be reached by a caller that keeps the contract; the blocks a write down *)
(* needs can all be reclaimed, then and at any later time.                 *)
NeverRaises ==
  VictimsUnpinned /\ \A r \in Live :
    LET hit == GetComputedBlocks(kv, r, reached[r])
    IN  /\ \A n \in 1..(reached[r] - HitTokens(hit)) :
             ~Holding(r) /\ SlotsFit(kv, r, computed[r], n, hit)
               => ~AllocateSlotsRaises(kv, r, computed[r], reached[r], n, hit)
        /\ \A n \in 1..(reached[r] - computed[r]) :
             Holding(r) /\ granted[r] = computed[r] /\ SlotsFit(kv, r, computed[r], n, NoHit)
               => ~AllocateSlotsRaises(kv, r, computed[r], reached[r], n, NoHit)
        /\ ~CacheBlocksRaises(kv, r, computed[r])
        /\ ~FreeBlocksRaises(kv.npu, kv.table[r])

(* While a block stays held it keeps the content it has: eviction and      *)
(* re-indexing by others never touch a pinned block.                       *)
PinnedKeepsContent ==
  [][\A b \in 1..NumBlocks :
       kv.npu.ref[b] > 0 /\ kv'.npu.ref[b] > 0 /\ kv.npu.hash[b] # NoHash
         => kv'.npu.hash[b] = kv.npu.hash[b]]_vars
=============================================================================
