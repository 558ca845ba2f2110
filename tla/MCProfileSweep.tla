--------------------------- MODULE MCProfileSweep ---------------------------
(* Small instances of ProfileSweep: a model of two norms that only differ  *)
(* in what they are within, attention, experts and a sampler; grids of a   *)
(* few points; tps that have the less room the larger they are.            *)
EXTENDS FitReadBack, TLC

Entry(vllm, within, tpStable) == [vllm |-> vllm, within |-> within, tpStable |-> tpStable]
MCCatalog ==
  [dense |-> "layernorm" :> Entry("RMSNorm", "Decoder", TRUE) @@ "qk_norm" :> Entry("RMSNorm", "Attn", FALSE),
   per_sequence |-> "sampler" :> Entry("Sampler", "", TRUE),
   attention |-> "attention" :> Entry("Attention", "", FALSE),
   moe |-> "moe" :> Entry("FusedMoE", "Decoder", FALSE)]

Node(class, path) == [class |-> class, path |-> path]
MCModuleTree ==
  <<Node("RMSNorm", <<"Decoder">>), Node("RMSNorm", <<"Decoder", "Attn">>), Node("Attention", <<"Decoder", "Attn">>),
    Node("RMSNorm", <<"Decoder", "Attn">>), Node("RMSNorm", <<"Decoder">>), Node("FusedMoE", <<"Decoder">>),
    Node("Sampler", <<>>)>>
MCKernels ==
  [layernorm |-> {1, 5}, qk_norm |-> {2, 4}, attention |-> {3}, moe |-> {6}, sampler |-> {7}]

MCCacheTokens == (1 :> 20) @@ (2 :> 8) @@ (4 :> 2)
MCRatios == {<<1, 2>>}
MCSkews == <<<<3, 2>>, <<2, 1>>, <<3, 1>>>>
MCPureSkews == <<<<2, 1>>, <<3, 1>>>>
MCHalf == <<1, 2>>
MCSkewRep == <<2, 1>>
MCDefaultAxes == [n |-> <<2>>, kv |-> <<2>>, kp |-> <<0, 2>>]
MCSkewRateEdges == <<40, 70>>
-----------------------------------------------------------------------------
Args(mnbt, msq) ==
  [mnbt |-> mnbt, msq |-> msq, maxKv |-> 6, chunk |-> <<2, 1>>, kv |-> <<2, 1>>,
   skewN |-> <<2, 1>>, skewPc |-> <<2, 1>>, skewKp |-> <<2, 1>>, skewKvs |-> <<2, 1>>]

Profile(tps, args) ==
  [kind |-> "profile", tps |-> tps, args |-> args, force |-> FALSE, skipSkew |-> FALSE, onlySkew |-> FALSE,
   group |-> "", tp |-> 0]
Slice(tps, tp, group, args) == [Profile(tps, args) EXCEPT !.kind = "slice", !.tp = tp, !.group = group]
Force(c) == [c EXCEPT !.force = TRUE]
OnlySkew(c) == [c EXCEPT !.onlySkew = TRUE]
SkipSkew(c) == [c EXCEPT !.skipSkew = TRUE]

Tiny == Args(1, 1)
Narrow == Args(2, 2)
Wide == Args(3, 3)
Both == <<1, 2>>

(* A sweep is widened and resumed; tps are given in another order; one tp  *)
(* or one category is measured again; degree 1 is measured over more than  *)
(* degree 2, or before it, and the sweep of degree 2 is then extended.     *)
DenseSliceFirst == {<<Slice(Both, 1, "dense", Narrow), Profile(Both, Narrow)>>}
MCSessions ==
  {<<Profile(<<1>>, Narrow), Profile(Both, Wide)>>,
   <<Profile(Both, Wide), Profile(<<2, 1>>, Wide)>>,
   <<OnlySkew(Profile(Both, Wide)), SkipSkew(Profile(Both, Wide))>>,
   <<Profile(Both, Narrow), Force(Profile(<<2, 1>>, Narrow))>>,
   <<SkipSkew(Profile(Both, Narrow)), Slice(Both, 2, "dense", Wide), Profile(Both, Wide)>>,
   <<SkipSkew(Profile(<<1>>, Wide)), SkipSkew(Profile(Both, Narrow)), SkipSkew(Profile(Both, Wide))>>,
   <<Profile(Both, Narrow), Force(Slice(<<1>>, 1, "attention", Wide))>>,
   <<Slice(Both, 1, "attention", Narrow), Profile(Both, Narrow)>>,
   <<Profile(<<1, 4>>, Tiny)>>}
  \cup DenseSliceFirst
=============================================================================
