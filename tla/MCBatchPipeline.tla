-------------------------- MODULE MCBatchPipeline --------------------------
(* Small instances of BatchPipeline: five blocks, two heads per layer, and *)
(* profiles on doubling grids in which more work takes longer.             *)
EXTENDS BatchPipeline

MCSequence ==
  [prologue |-> <<"embedding">>,
   pre_attn |-> <<"layernorm", "qkv_proj", "qk_norm", "rotary_emb", "attention">>,
   post_attn |-> <<"o_proj", "layernorm">>,
   mlp_dense |-> <<"gate_up_proj", "act_fn", "down_proj">>, mlp_moe |-> <<"moe">>,
   head |-> <<"final_layernorm", "lm_head", "sampler">>]

MCCategory ==
  [l \in {"embedding", "layernorm", "final_layernorm", "qkv_proj", "qk_norm", "rotary_emb", "o_proj",
          "gate_up_proj", "act_fn", "down_proj"} |-> "dense"]
  @@ [l \in {"lm_head", "sampler"} |-> "per_sequence"] @@ [l \in {"attention"} |-> "attention"]
  @@ [l \in {"moe"} |-> "moe"]

MCModel == [hidden |-> 4, heads |-> 4, kvHeads |-> 2, headDim |-> 1, vocab |-> 8, ffn |-> 6, moeFfn |-> 2]

(* A newer profile of the second point stands below the older one; qk_norm *)
(* has not been profiled.                                                  *)
Grown(base) == <<<<1, base>>, <<2, base + 40>>, <<2, base + 1>>, <<4, base + 5>>>>
MCDense ==
  [tp \in {1, 2} |-> [l \in {x \in DOMAIN MCCategory : MCCategory[x] = "dense"} \ {"qk_norm"} |->
                        Grown(10 \div tp)]]
MCPerSequence == [tp \in {1, 2} |-> [l \in {"lm_head", "sampler"} |-> Grown(7)]]
MCAttention ==
  [tp \in {1, 2} |->
     <<<<0, 1, 0, 0, 6>>, <<0, 1, 0, 4, 12>>, <<0, 2, 0, 0, 8>>, <<0, 2, 0, 4, 18>>,
       <<2, 0, 0, 0, 14>>, <<2, 0, 4, 0, 20>>, <<4, 0, 0, 0, 24>>, <<4, 0, 4, 0, 34>>,
       <<2, 1, 0, 0, 20>>, <<2, 1, 0, 4, 26>>, <<2, 1, 4, 0, 28>>, <<2, 1, 4, 4, 36>>>>]
MCMoe == <<<<1, 1, 5>>, <<1, 4, 9>>, <<2, 1, 7>>, <<2, 4, 13>>>>
MCSkewFit ==
  [enabled |-> TRUE, default |-> <<1, 4>>, n |-> <<2, 4>>, sr |-> <<40>>, kv |-> <<4, 8>>, kp |-> <<0, 8>>,
   alpha |-> [b \in {<<0, <<"<=", 2>>, <<">", 40>>, <<"<=", 4>>, <<"<=", 0>>>>} |-> <<1, 2>>]]

-----------------------------------------------------------------------------
Request(id, q, k) == [id |-> id, arrival |-> 4 - id, input |-> q + k, init |-> k < 2, q |-> q, k |-> k]
Jobs(lists) == {[items |-> l, load |-> 0] : l \in lists}

(* One or two requests of which the first is a chunk or a decode. *)
Wide ==
  Jobs({<<Request(1, q, k)>> : q \in {1, 2, 3, 5}, k \in {0, 2, 6}})
  \cup {[items |-> <<Request(1, q, k), Request(2, 1, 4)>>, load |-> 3] : q \in {1, 2}, k \in {2, 4, 5}}
  \cup Jobs({<<Request(1, q, 2), Request(2, 3, 0), Request(3, 1, 2)>> : q \in {1, 5}})

(* Two batches, again and again. *)
Repeated == Jobs({<<Request(1, 1, 2)>>, <<Request(1, 2, 0)>>})

Shape(tp, pp, ep, moe) ==
  [tp |-> tp, pp |-> pp, localEp |-> ep, epTotal |-> ep, moe |-> moe, pd |-> "none", offload |-> FALSE,
   node |-> 1, policy |-> "BALANCED", blockCopy |-> TRUE, sub |-> FALSE, tpu |-> FALSE]

(* Placement: later rules and the layers' rules override, a rule without a *)
(* block of the model names none.                                          *)
CxlDefault ==
  [default |-> [weights |-> <<"cxl", 0>>, kv_evict_loc |-> <<"cxl", 1>>],
   blocks  |-> <<[ids |-> <<<<7>>>>, set |-> [weights |-> <<"cpu">>]]>>,
   layers  |-> [embedding |-> [weights |-> <<"npu">>], o_proj |-> << >>, lm_head |-> [kv_loc |-> <<"cpu">>]]]
BlockByBlock ==
  [default |-> [kv_loc |-> <<"cpu">>],
   blocks  |-> <<[ids |-> <<<<3, 1>>>>, set |-> [weights |-> <<"cxl", 1>>, kv_loc |-> <<"npu">>]],
                 [ids |-> <<<<2>>, <<4, 9>>>>, set |-> [weights |-> <<"cpu">>]],
                 [ids |-> <<<<2>>>>, set |-> [kv_loc |-> <<"cxl">>]]>>,
   layers  |-> [o_proj |-> [weights |-> <<"cxl", 0>>], qkv_proj |-> [kv_loc |-> <<"npu">>],
                moe |-> [weights |-> <<"cxl", 2>>]]]

Once(c, rules, pool) == [cx |-> c, rules |-> rules, dp |-> FALSE, pool |-> pool, last |-> 1]
Plain(c) == Once(c, NoRules, Wide)

MCScenarios ==
  {Plain(c) : c \in
     {Shape(2, 3, 1, FALSE), Shape(4, 1, 1, FALSE), Shape(1, 2, 1, TRUE), Shape(2, 1, 2, TRUE),
      [Shape(1, 5, 1, FALSE) EXCEPT !.pd = "prefill"], [Shape(1, 1, 1, FALSE) EXCEPT !.tpu = TRUE],
      [Shape(1, 2, 1, TRUE) EXCEPT !.blockCopy = FALSE, !.policy = "RR"], [Shape(2, 1, 2, TRUE) EXCEPT !.policy = "RR"]}}
  \cup {Once(Shape(2, 1, 1, FALSE), CxlDefault, Wide), Once(Shape(1, 5, 1, FALSE), BlockByBlock, Wide),
        Once([Shape(1, 3, 1, TRUE) EXCEPT !.blockCopy = FALSE], BlockByBlock, Wide),
        Once([Shape(1, 1, 1, FALSE) EXCEPT !.offload = TRUE, !.sub = TRUE], CxlDefault, Wide),
        Once([Shape(2, 1, 2, TRUE) EXCEPT !.offload = TRUE, !.sub = TRUE], BlockByBlock, Wide),
        [cx |-> [Shape(1, 1, 2, TRUE) EXCEPT !.localEp = 1, !.tpu = TRUE], rules |-> NoRules, dp |-> TRUE,
         pool |-> Repeated, last |-> 3],
        [cx |-> Shape(1, 1, 1, FALSE), rules |-> CxlDefault, dp |-> FALSE, pool |-> Repeated, last |-> 4]}

MCPimUnit == [slope |-> 8, intercept |-> 12]
MCPimBase == [heads |-> 8, kvHeads |-> 2, headDim |-> 1]
=============================================================================
