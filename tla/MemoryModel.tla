---------------------------- MODULE MemoryModel ----------------------------
(***************************************************************************)
(* core/memory_model.py: bytes of layers, weights and KV cache, and the    *)
(* blocks that a memory has room for.  A model is [hidden, heads, kvHeads, *)
(* headDim, vocab, ffn, moeFfn, experts, layers, fp, kvFp], experts = 0    *)
(* for a dense one, fp and kvFp the bytes of an element.  What the blocks  *)
(* hold is in BlockPool; allocate, free and is_avail, which nothing calls, *)
(* are left out.                                                           *)
(***************************************************************************)
EXTENDS Naturals, TLC

Size(in, wt, out) == [in |-> in, wt |-> wt, out |-> out]

QDim(m) == m.heads * m.headDim
KvDim(m) == m.kvHeads * m.headDim
HasExperts(m) == m.experts > 0

(* calculate_sizes of n tokens with kv of context, sharded p ways.         *)
Sizes(m, layer, n, kv, p) ==
  LET hidden == n * m.hidden * m.fp
      qkv    == (QDim(m) + 2 * KvDim(m)) \div p
      ffn    == m.ffn \div p
      rope   == (m.heads \div p + m.kvHeads \div p) * n * m.headDim * m.fp
      normed == ((n * (QDim(m) + KvDim(m))) \div p) * m.fp
      heads  == (m.heads \div p) * n * m.headDim * m.fp
      vocab  == m.vocab \div p
  IN  CASE layer = "embedding"    -> Size(n * m.fp * 2, vocab * m.hidden * m.fp, hidden)
        [] layer \in {"layernorm", "final_layernorm"} -> Size(hidden, m.hidden * m.fp, hidden)
        [] layer = "qkv_proj"     -> Size(hidden, m.hidden * qkv * m.fp, n * qkv * m.fp)
        [] layer = "qk_norm"      -> Size(normed, 2 * m.headDim * m.fp, normed)
        [] layer = "rotary_emb"   -> Size(rope, 0, rope)
        [] layer = "attention"    ->
             Size(heads + (m.kvHeads \div p) * kv * m.headDim * m.fp * 2, 0, heads)
        [] layer = "o_proj"       ->
             Size(n * (QDim(m) \div p) * m.fp, (QDim(m) \div p) * m.hidden * m.fp, hidden)
        [] layer = "gate_up_proj" -> Size(hidden, m.hidden * 2 * ffn * m.fp, n * 2 * ffn * m.fp)
        [] layer = "act_fn"       -> Size(n * 2 * ffn * m.fp, 0, n * ffn * m.fp)
        [] layer = "down_proj"    -> Size(n * ffn * m.fp, ffn * m.hidden * m.fp, hidden)
        [] layer = "moe"          ->
             Size(hidden, m.hidden * m.experts * m.fp
                          + (m.experts \div p) * 3 * m.hidden * m.moeFfn * m.fp, hidden)
        [] layer = "lm_head"      -> Size(hidden, m.hidden * vocab * m.fp, n * vocab * m.fp)
        [] layer = "sampler"      -> Size(n * vocab * m.fp, 0, n * 4)

(* One decode token on PIM, whatever its context. *)
PimSize(m, p) ==
  LET head == m.headDim * m.fp
  IN  Size((m.heads \div p) * head + (m.kvHeads \div p) * head * 2, 0, (m.heads \div p) * head)

Weight(m, layer, p) == Sizes(m, layer, 1, 0, p).wt

-----------------------------------------------------------------------------
(* _get_weight_per_block: experts over ep ranks, the rest over tp. *)
WeightPerBlock(m, tp, ep) ==
  2 * Weight(m, "layernorm", tp) + Weight(m, "qkv_proj", tp) + Weight(m, "o_proj", tp)
  + IF HasExperts(m) THEN Weight(m, "moe", ep)
    ELSE Weight(m, "gate_up_proj", tp) + Weight(m, "down_proj", tp)

(* get_weight: what a rank is charged, as if it were first and last stage  *)
(* at once.                                                                *)
GetWeight(m, tp, pp, ep) ==
  Weight(m, "embedding", tp) + WeightPerBlock(m, tp, ep) * (m.layers \div pp)
  + Weight(m, "final_layernorm", tp) + Weight(m, "lm_head", tp)

(* get_kv(1), and full_cluster_kv_bytes_per_token *)
ClusterKvPerToken(m) == 2 * KvDim(m) * m.layers * m.kvFp
BytesPerToken(m, numNpus) == ClusterKvPerToken(m) \div numNpus

(* The part of the NPU memory that may be used, in percent. *)
Requested(npuMem, util) == (npuMem * util) \div 100

NpuBlocks(npuMem, util, weight, blockBytes) ==
  IF Requested(npuMem, util) < weight THEN 0
  ELSE (Requested(npuMem, util) - weight) \div blockBytes

-----------------------------------------------------------------------------
(* build_prefix_pool: chunks of about chunkTokens (LOWER_TIER_CHUNK_TOKENS)*)
(* that are whole NPU blocks; sized for the shards of all ranks.           *)
ChunkOf(blockSize, chunkTokens) ==
  IF (chunkTokens \div blockSize) * blockSize > blockSize
  THEN (chunkTokens \div blockSize) * blockSize ELSE blockSize

PrefixPool(tier, capacity, blockSize, chunkTokens, bytesPerToken) ==
  LET chunk == ChunkOf(blockSize, chunkTokens)
  IN  [tier |-> tier, blockSize |-> chunk, bytesPerBlock |-> bytesPerToken * chunk,
       numBlocks |-> capacity \div (bytesPerToken * chunk)]
=============================================================================
