------------------------------ MODULE BlockPool ------------------------------
(***************************************************************************)
(* The block pool of one memory tier (core/block_pool.py), as operators on *)
(* a pool record:                                                          *)
(*   ref    block -> number of requests that hold it                       *)
(*   hash   block -> the prefix whose KV it holds, NoHash if it holds none *)
(*   index  prefix -> the one block a lookup returns, NoBlock if none      *)
(*   free   the free list, next victim first                               *)
(* Blocks are 1..n.  A block hash stands for the token prefix it is        *)
(* computed from: the code chains hashes, so equal prefixes, and only      *)
(* they, are taken to have equal hashes.                                   *)
(***************************************************************************)
EXTENDS Queues

CONSTANTS
  Hashes,         (* the block hashes that can occur           *)
  NoHash,         (* block_hash is None                        *)
  EnableCaching   (* enable_caching                            *)

ASSUME HashAssumption == NoHash \notin Hashes /\ EnableCaching \in BOOLEAN

NoBlock == 0

Pool(n) ==
  [ref   : [1..n -> Nat],
   hash  : [1..n -> Hashes \cup {NoHash}],
   index : [Hashes -> 0..n],
   free  : Seq(1..n)]

NewPool(n) ==
  [ref   |-> [b \in 1..n |-> 0],
   hash  |-> [b \in 1..n |-> NoHash],
   index |-> [h \in Hashes |-> NoBlock],
   free  |-> [i \in 1..n |-> i]]

-----------------------------------------------------------------------------
NumFree(p) == Len(p.free)

(* get_cached_block *)
CachedBlock(p, h) == IF EnableCaching THEN p.index[h] ELSE NoBlock

(* The index once the blocks of T are taken for reuse.  An entry goes only *)
(* if it still names the block that carries the hash.                      *)
EvictedNever(p, T) == p.index  \* variant: the stale entry stays

Evicted(p, T) ==
  [h \in Hashes |-> IF p.index[h] \in T /\ p.hash[p.index[h]] = h
                    THEN NoBlock ELSE p.index[h]]

(* get_new_blocks: pop n blocks off the head, drop their hashes, pin them. *)
PopLeft(p, n) == SubSeq(p.free, 1, n)

GetNewBlocks(p, n) ==
  LET T == ToSet(PopLeft(p, n))
  IN  [ref   |-> [b \in DOMAIN p.ref |-> IF b \in T THEN p.ref[b] + 1 ELSE p.ref[b]],
       hash  |-> [b \in DOMAIN p.ref |-> IF b \in T /\ EnableCaching THEN NoHash ELSE p.hash[b]],
       index |-> IF EnableCaching THEN Evicted(p, T) ELSE p.index,
       free  |-> SubSeq(p.free, n + 1, Len(p.free))]

GetNewBlocksRaises(p, n) ==
  n > NumFree(p) \/ \E b \in ToSet(PopLeft(p, n)) : p.ref[b] # 0

(* touch: one more holder for each block of T; a block nobody held leaves  *)
(* the free list first.                                                    *)
(* Variants: a shared block gets no second holder; a touched block stays   *)
(* on the free list.                                                       *)
TouchFreeOnly(p, T) ==
  [p EXCEPT !.ref  = [b \in DOMAIN p.ref |-> IF b \in T /\ p.ref[b] = 0 THEN 1 ELSE p.ref[b]],
            !.free = Kept(p.free, {b \in ToSet(p.free) : b \notin T})]
TouchInPlace(p, T) ==
  [p EXCEPT !.ref = [b \in DOMAIN p.ref |-> IF b \in T THEN p.ref[b] + 1 ELSE p.ref[b]]]

Touch(p, T) ==
  [ref   |-> [b \in DOMAIN p.ref |-> IF b \in T THEN p.ref[b] + 1 ELSE p.ref[b]],
   hash  |-> p.hash,
   index |-> p.index,
   free  |-> Kept(p.free, {b \in ToSet(p.free) : ~(b \in T /\ p.ref[b] = 0)})]

TouchRaises(p, T) == \E b \in T : p.ref[b] = 0 /\ b \notin ToSet(p.free)

(* free_blocks: every block of the list (they are distinct) loses a        *)
(* holder; those left with none go to the tail of the free list, in the    *)
(* order of the list, and keep their hashes.                               *)
FreeBlocks(p, blocks) ==
  LET left == [b \in DOMAIN p.ref |-> IF b \in ToSet(blocks) THEN p.ref[b] - 1 ELSE p.ref[b]]
  IN  [ref   |-> left,
       hash  |-> p.hash,
       index |-> p.index,
       free  |-> p.free \o Kept(blocks, {b \in ToSet(blocks) : left[b] = 0})]

FreeBlocksRaises(p, blocks) == \E b \in ToSet(blocks) : p.ref[b] <= 0

(* cache_full_blocks: index blocks[from+1 .. to] under their hashes.  A    *)
(* block already hashed is skipped; an entry of the index is overwritten.  *)
Unhashed(p, blocks, from, to) == {i \in (from + 1)..to : p.hash[blocks[i]] = NoHash}

CacheFullBlocks(p, hashes, blocks, from, to) ==
  LET new == Unhashed(p, blocks, from, to)
  IN  IF ~EnableCaching THEN p ELSE
      [ref   |-> p.ref,
       hash  |-> [b \in DOMAIN p.ref |->
                    IF \E i \in new : blocks[i] = b
                    THEN hashes[CHOOSE i \in new : blocks[i] = b] ELSE p.hash[b]],
       index |-> [h \in Hashes |->
                    IF \E i \in new : hashes[i] = h
                    THEN blocks[CHOOSE i \in new : hashes[i] = h] ELSE p.index[h]],
       free  |-> p.free]

(* cache_copy: an unpinned copy on a victim tier.  Nothing happens when    *)
(* the hash is resident; otherwise the head of the free list is taken and  *)
(* given straight back, at the tail.                                       *)
(* Variant: the copy keeps its holder. *)
CacheCopyPinned(p, h) ==
  IF ~EnableCaching \/ p.index[h] # NoBlock THEN p
  ELSE [GetNewBlocks(p, 1) EXCEPT !.hash[Head(p.free)] = h, !.index[h] = Head(p.free)]

CacheCopy(p, h) ==
  IF ~EnableCaching \/ p.index[h] # NoBlock THEN p
  ELSE LET b == Head(p.free)
           q == GetNewBlocks(p, 1)
       IN  FreeBlocks([ref   |-> q.ref,
                       hash  |-> [q.hash EXCEPT ![b] = h],
                       index |-> [q.index EXCEPT ![h] = b],
                       free  |-> q.free], <<b>>)

CacheCopyRaises(p, h) ==
  EnableCaching /\ p.index[h] = NoBlock /\ GetNewBlocksRaises(p, 1)

(* is_free *)
IsFree(p) == NumFree(p) = Cardinality(DOMAIN p.ref)

-----------------------------------------------------------------------------
(* What every pool must satisfy, whoever its callers are. *)

(* The free list is exactly the blocks nobody holds, each once. *)
FreeListExact(p) ==
  /\ \A i, j \in DOMAIN p.free : p.free[i] = p.free[j] => i = j
  /\ \A b \in DOMAIN p.ref : b \in ToSet(p.free) <=> p.ref[b] = 0

(* An entry of the index names a block that holds that prefix. *)
IndexSound(p) ==
  \A h \in Hashes : p.index[h] # NoBlock => p.hash[p.index[h]] = h

PoolOK(n, p) == p \in Pool(n) /\ FreeListExact(p) /\ IndexSound(p)
=============================================================================
