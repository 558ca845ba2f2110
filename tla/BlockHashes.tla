---------------------------- MODULE BlockHashes ----------------------------
(* The hashes of a request's blocks (core/kv_cache_manager.py); collisions *)
(* are left out.                                                           *)
EXTENDS Naturals, Sequences

(* request_block_hashes: chained, so that a hash stands for every token up *)
(* to the end of its block; what does not fill a block has none.           *)
RequestBlockHashes(tokens, size) ==
  [i \in 1..(Len(tokens) \div size) |-> SubSeq(tokens, 1, i * size)]
=============================================================================
