----------------------------- MODULE LayerTrace -----------------------------
(***************************************************************************)
(* The trace of one batch: sub-batches, the layers of every transformer    *)
(* block with latency, sizes and collectives, and where the pipeline       *)
(* stages are cut (core/trace_generator.py).                               *)
(*   cx    what the instance is configured to: [tp, pp, localEp, epTotal,  *)
(*         moe, policy, pd, offload, node, place, blockCopy, sub, tpu],    *)
(*         place being its tables of Placement                             *)
(*   batch [items, total, prefills, decodes, chunks, contexts, load,       *)
(*         evict, send, dpTotal]; an item is a request of the batch        *)
(*         [id, arrival, input, init, q, k], a chunk [q, k], contexts the  *)
(*         decode_k_list, dpTotal the length its DP round is padded to, 0  *)
(*         outside a round                                                 *)
(*   row   [layer, ns, in, wt, out, comm, size, tag, from, at, to], at     *)
(*         being where the weights are; a marker has 0 for ns and sizes    *)
(*         and no tag, its index in place of wt                            *)
(*   k     the block a layer is in (layer_num), NoBlock around the blocks  *)
(* The dimensions of collectives are left out.                             *)
(***************************************************************************)
EXTENDS GateRouting, MemoryModel, Placement

CONSTANTS
  Sequence,     (* section -> its layers, from the architecture yaml        *)
  Category,     (* layer -> "dense", "per_sequence", "attention" or "moe"   *)
  Model,        (* [hidden, heads, kvHeads, headDim, vocab, ffn, moeFfn]    *)
  Fp, KvFp,     (* bytes of an element, and of one of the KV cache          *)
  NumLayers,    (* num_hidden_layers                                        *)
  PimChannels,  (* channels that attention is offloaded to                  *)
  PimUnit,      (* [slope, intercept] of the PIM unit                       *)
  PimBase       (* [heads, kvHeads, headDim] they were measured on          *)

ASSUME LayerTraceAssumption ==
  /\ {Fp, KvFp, NumLayers} \subseteq Nat \ {0} /\ PimChannels \in Nat \ {0}
  /\ DOMAIN Sequence = {"prologue", "pre_attn", "post_attn", "mlp_dense", "mlp_moe", "head"}
  /\ UNION {ToSet(Sequence[s]) : s \in DOMAIN Sequence} \subseteq DOMAIN Category

(* The sum of f over a sequence, halved again and again: it may be long. *)
Total(items, f(_)) ==
  LET sum[first \in Nat, n \in Nat] ==
        CASE n = 0 -> 0
          [] n = 1 -> f(items[first])
          [] OTHER -> LET half == n \div 2 IN sum[first, half] + sum[first + half, n - half]
  IN  sum[1, Len(items)]
Joined(items, f(_)) == FoldLeft(LAMBDA all, i : all \o f(i), << >>, items)
-----------------------------------------------------------------------------
(* The model as it is configured: with its experts, or dense. *)
Configured(experts) ==
  Model @@ [experts |-> experts, layers |-> NumLayers, fp |-> Fp, kvFp |-> KvFp]
Mixture == Configured(Experts)
DenseModel == Configured(0)
ModelOf(cx) == IF cx.moe THEN Mixture ELSE DenseModel

-----------------------------------------------------------------------------
(* _make_sub_batch: longest first to the lighter side, then by arrival.    *)
ByChunk(items) == SortSeq(items, LAMBDA i, j : i.q > j.q \/ (i.q = j.q /\ i.place < j.place))
ByArrival(items) == SortSeq(items, LAMBDA i, j : i.arrival < j.arrival
                                                 \/ (i.arrival = j.arrival /\ i.place < j.place))

Load(items) == Total(items, LAMBDA i : i.q)

Split(items) ==
  FoldLeft(LAMBDA sides, i : IF Load(sides[1]) <= Load(sides[2])
                             THEN <<Append(sides[1], i), sides[2]>>
                             ELSE <<sides[1], Append(sides[2], i)>>,
           <<<< >>, << >>>>, ByChunk([n \in DOMAIN items |-> [place |-> n] @@ items[n]]))

Chunks(items) == SelectSeq(items, LAMBDA i : i.q > 1)
Decodes(items) == SelectSeq(items, LAMBDA i : i.q <= 1)
Contexts(items) == [n \in DOMAIN Decodes(items) |-> Decodes(items)[n].k]

SubBatch(batch, items, first) ==
  [items |-> items, total |-> Load(items),
   prefills |-> Len(Chunks(items)), decodes |-> Len(Decodes(items)),
   chunks |-> Chunks(items), contexts |-> Contexts(items),
   evict |-> IF first THEN batch.evict ELSE 0, load |-> IF first THEN batch.load ELSE 0,
   send |-> 0, dpTotal |-> batch.dpTotal]

SubBatches(batch) ==
  IF Len(batch.items) = 1 THEN <<batch>>
  ELSE LET sides == Split(batch.items)
       IN  <<SubBatch(batch, ByArrival(sides[1]), TRUE), SubBatch(batch, ByArrival(sides[2]), FALSE)>>

(* What generate_trace synthesizes: the batch, or both halves of it. *)
Parts(cx, batch) ==
  IF cx.sub /\ Len(SubBatches(batch)) = 2
     /\ \A s \in ToSet(SubBatches(batch)) : s.items # << >>
  THEN SubBatches(batch) ELSE <<batch>>

-----------------------------------------------------------------------------
(* _attn_load_balancer: each decode goes to the least loaded channel, once *)
(* for every channel its heads are split over.                             *)
ChannelSplit == Min({PimChannels, Model.kvHeads})
Channels == 1..PimChannels

LightestChannel(lens) ==
  CHOOSE c \in Channels : \A d \in Channels :
    LET load(x) == Total(lens[x], LAMBDA n : n)
    IN  load(c) < load(d) \/ (load(c) = load(d) /\ c <= d)

SpreadHeads(lens, input) ==
  FoldLeft(LAMBDA acc, n : [acc EXCEPT ![LightestChannel(acc)] = Append(@, input)], lens,
           [n \in 1..ChannelSplit |-> n])

DecodeLens(items) ==
  FoldLeft(LAMBDA lens, i : IF i.init THEN lens ELSE SpreadHeads(lens, i.input),
           [c \in Channels |-> << >>],
           SortSeq([n \in DOMAIN items |-> [place |-> n] @@ items[n]],
                   LAMBDA i, j : i.input > j.input \/ (i.input = j.input /\ i.place < j.place)))

(* _build_batch_ctx *)
BatchCtx(cx, batch) ==
  LET contexts == IF cx.offload THEN << >> ELSE batch.contexts
      n        == Len(contexts)
  IN  [total   |-> IF cx.offload THEN AtLeastOne(batch.total) ELSE batch.total,
       pc      |-> Load(batch.chunks), kp |-> Total(batch.chunks, LAMBDA c : c.k), n |-> n,
       kv      |-> IF n = 0 THEN [mean |-> 0, max |-> 0, min |-> 0]
                   ELSE [mean |-> Total(contexts, LAMBDA k : k) \div n,
                         max |-> Max(ToSet(contexts)), min |-> Min(ToSet(contexts))],
       lmHead  |-> Max({Len(batch.items), batch.prefills + batch.decodes}),
       send    |-> batch.send, dpTotal |-> batch.dpTotal, items |-> batch.items]

Available(cx, layer) ==
  LET tp == EffectiveTp(layer, cx.tp)
  IN  CASE Category[layer] = "dense"        -> layer \in DOMAIN Dense[tp]
        [] Category[layer] = "per_sequence" -> layer \in DOMAIN PerSequence[tp]
        [] Category[layer] = "attention"    -> Attention[tp] # << >>
        [] Category[layer] = "moe"          -> Moe # << >>

Latency(cx, b, layer) ==
  CASE Category[layer] = "per_sequence" -> LookupPerSequence(layer, cx.tp, b.lmHead)
    [] Category[layer] = "attention"    -> LookupAttentionWithSkew(cx.tp, b.pc, b.kp, b.n, b.kv)
    [] OTHER                            -> LookupDense(layer, cx.tp, b.total)

(* The context with the latency of every layer that can be looked up. *)
Timed(cx, b) ==
  b @@ [ns |-> [layer \in {l \in DOMAIN Category : Category[l] # "moe" /\ Available(cx, l)} |->
                  Latency(cx, b, layer)]]

-----------------------------------------------------------------------------
(* Rows *)
Row(layer, ns, size, comm, bytes, tag, from, at, to) ==
  [layer |-> layer, ns |-> ns, in |-> size.in, wt |-> size.wt, out |-> size.out,
   comm |-> comm, size |-> bytes, tag |-> tag, from |-> from, at |-> at, to |-> to]

Marker(name, index, comm, bytes) ==
  Row(name, 0, Size(0, index, 0), comm, bytes, "", Local, Local, Local)
Remote(cx) == <<"REMOTE", cx.node>>
WeightsAt(cx, k, layer) == GetDevice(cx.place, k, layer, "weights")
IsMarker(row) == row.layer \in {"EXPERT", "EXPERT END", "PIM", "PIM END"}

LayerSize(cx, b, layer) ==
  Sizes(ModelOf(cx), layer, b.total, b.kp + b.n * b.kv.mean, cx.tp)

EmitLayer(cx, b, k, layer, tag, comm, bytes, from, to) ==
  <<Row(layer, b.ns[layer], LayerSize(cx, b, layer), comm, bytes, tag, from,
        WeightsAt(cx, k, layer), to)>>

PdKvSendBytes(cx, b) == (2 * KvDim(ModelOf(cx)) * b.send * KvFp) \div cx.tp

AfterAllReduce == {"o_proj", "down_proj"}  \* _TP_ALLREDUCE_AFTER

(* estimate_with_linear: the unit's slope and intercept are measured on    *)
(* PimBase's heads; heads per KV head scale the one, all heads the other.  *)
PimLatency(length) ==
  (Model.heads * (PimUnit.slope * length * PimBase.kvHeads * PimBase.headDim
                  + PimUnit.intercept * Model.headDim * Model.kvHeads))
  \div (Model.kvHeads * PimBase.heads * PimBase.headDim * ChannelSplit)

PimRow(cx, k, length, tag) ==
  LET s == PimSize(ModelOf(cx), cx.tp)
  IN  Row("attention", PimLatency(length), Size(s.in \div ChannelSplit, 0, s.out \div ChannelSplit),
          "NONE", 0, tag, Remote(cx), WeightsAt(cx, k, "attention"), Remote(cx))

PimAttention(cx, b, k, tag) ==
  LET lens == DecodeLens(b.items)
  IN  Joined([c \in Channels |-> c], LAMBDA c :
        <<Marker("PIM", c, "NONE", 0)>> \o Joined(lens[c], LAMBDA l : <<PimRow(cx, k, l, tag)>>))
      \o <<Marker("PIM END", 0, "NONE", 0)>>

(* The collective, or the KV sent to the decode instance, after a layer. *)
CommType(cx, layer) == IF layer \in AfterAllReduce /\ cx.tp > 1 THEN "ALLREDUCE" ELSE "NONE"

CommSize(cx, b, layer) ==
  CASE layer \in AfterAllReduce /\ cx.tp > 1     -> LayerSize(cx, b, layer).out
    [] layer = "qkv_proj" /\ cx.pd = "prefill"   -> PdKvSendBytes(cx, b)
    [] OTHER                                     -> 0

Skipped(cx, b, layer) ==
  \/ layer = "attention" /\ b.pc = 0 /\ b.n = 0
  \/ layer = "rotary_emb" /\ cx.tpu
  \/ layer # "attention" /\ ~Available(cx, layer)

-----------------------------------------------------------------------------
(* _emit_moe_block: every local rank computes what is routed to it between *)
(* the gathering and the scattering of the group's tokens.                 *)
ExpertNs(load) == LookupMoe(load.tokens, AtLeastOne(load.experts))
ExpertSize(cx, load) == Sizes(ModelOf(cx), "moe", load.tokens, 0, cx.epTotal)

ExpertRows(cx, k, tag, load) ==
  IF load.tokens = 0 THEN << >>
  ELSE <<Row("expert", ExpertNs(load), ExpertSize(cx, load), "NONE", 0, tag, Local,
             WeightsAt(cx, k, "moe"), Local)>>

Spread(cx) == cx.epTotal > 1
GroupTokens(b) == IF b.dpTotal > 0 THEN b.dpTotal ELSE b.total
GatherBytes(cx, b) ==
  AtLeastOne(GroupTokens(b) \div cx.epTotal) * (Model.hidden + Experts) * Fp
ScatterBytes(cx, b) == GroupTokens(b) * Model.hidden * Fp
LocalLoads(cx, b) ==
  [n \in 1..AtLeastOne(cx.localEp) |-> RouteEp(cx.policy, b.total, cx.epTotal)[n - 1]]

MoeBlock(cx, b, k, tag) ==
  LET open(n) == IF n = 1 /\ Spread(cx) THEN Marker("EXPERT", 0, "ALLGATHER", GatherBytes(cx, b))
                 ELSE Marker("EXPERT", n - 1, "NONE", 0)
      loads   == LocalLoads(cx, b)
  IN  Joined([n \in DOMAIN loads |-> n],
             LAMBDA n : <<open(n)>> \o ExpertRows(cx, k, tag, loads[n]))
      \o <<IF Spread(cx) THEN Marker("EXPERT END", 0, "REDUCESCATTER", ScatterBytes(cx, b))
           ELSE Marker("EXPERT END", 0, "NONE", 0)>>

(* One layer of a sequence as _emit_sequence emits it. *)
InSequence(cx, b, k, tag, layer) ==
  (IF layer = "attention" /\ cx.offload THEN PimAttention(cx, b, k, tag) ELSE << >>)
  \o CASE layer = "moe"           -> MoeBlock(cx, b, k, tag)
       [] Skipped(cx, b, layer)   -> << >>
       [] OTHER -> EmitLayer(cx, b, k, layer, tag, CommType(cx, layer), CommSize(cx, b, layer),
                             Local, Local)

EmitSequence(cx, b, k, tag, layers) ==
  Joined(layers, LAMBDA layer : InSequence(cx, b, k, tag, layer))

PreAttnLayers == Sequence["pre_attn"]
PostAttnLayers(cx) == Sequence["post_attn"] \o Sequence[IF cx.moe THEN "mlp_moe" ELSE "mlp_dense"]

PreAttn(cx, b, k, tag) == EmitSequence(cx, b, k, tag, PreAttnLayers)
PostAttn(cx, b, k, tag) == EmitSequence(cx, b, k, tag, PostAttnLayers(cx))
Block(cx, b, k, tag) == PreAttn(cx, b, k, tag) \o PostAttn(cx, b, k, tag)

(* The first layer reads its input from, the last writes its output to,    *)
(* the memory of the node.                                                 *)
Prologue(cx, b, tag) ==
  LET layers == Sequence["prologue"]
  IN  Joined(layers, LAMBDA l : EmitLayer(cx, b, NoBlock, l, tag, "NONE", 0,
                                          IF l = Head(layers) THEN Remote(cx) ELSE Local, Local))

FinalLayers(cx, b, tag) ==
  LET layers == Sequence["head"]
  IN  Joined(layers, LAMBDA l : EmitLayer(cx, b, NoBlock, l, tag, "NONE", 0, Local,
                                          IF l = Last(layers) THEN Remote(cx) ELSE Local))

-----------------------------------------------------------------------------
(* A block is emitted for every layer, or once and copied; a routing that  *)
(* is not to be copied is emitted once unless blocks are placed one by one.*)
Copies(cx, n) == IF cx.place.blockMode \/ ~cx.moe \/ cx.blockCopy THEN n ELSE 1

(* The layer_num of each of n blocks: the first one's for copies. *)
Numbered(cx, n) == [i \in 1..Copies(cx, n) |-> IF cx.place.blockMode THEN i - 1 ELSE 0]

(* _synthesize_trace: rows, and the 0-based row each block starts at. *)
WithBlock(made, block) ==
  [rows |-> made.rows \o block, starts |-> Append(made.starts, Len(made.rows))]

LayersOf(cx, b) ==
  LET made == FoldLeft(LAMBDA acc, k : WithBlock(acc, Block(cx, b, k, "NONE")),
                       [rows |-> Prologue(cx, b, "NONE"), starts |-> << >>], Numbered(cx, NumLayers))
  IN  [made EXCEPT !.rows = @ \o FinalLayers(cx, b, "NONE")]

SynthesizeTrace(cx, batch) == LayersOf(cx, Timed(cx, BatchCtx(cx, batch)))

(* _synthesize_interleaved_trace: the halves take turns at half a block. *)
TurnsOneShort(n) == n - 2  \* variant: the last turn is forgotten

Turns(n) == n - 1

(* One half's turn: from the attention of block k to that of k + 1. *)
Turn(cx, b, k, tag) == PostAttn(cx, b, k, tag) \o PreAttn(cx, b, k + 1, tag)

Interleaved(cx, halves) ==
  LET opening(h) == Prologue(cx, h.b, h.tag) \o PreAttn(cx, h.b, 0, h.tag)
      closing(h) == PostAttn(cx, h.b, NumLayers - 1, h.tag) \o FinalLayers(cx, h.b, h.tag)
      turns(k)   == Joined(halves, LAMBDA h : Turn(cx, h.b, k, h.tag))
  IN  [rows   |-> Joined(halves, opening) \o Joined(Numbered(cx, Turns(NumLayers)), turns)
                  \o Joined(halves, closing),
       starts |-> << >>]

SynthesizeInterleavedTrace(cx, parts) ==
  Interleaved(cx, [n \in 1..2 |-> [b   |-> Timed(cx, BatchCtx(cx, parts[n])),
                                   tag |-> <<"BATCH_1", "BATCH_2">>[n]]])

-----------------------------------------------------------------------------
(* _pp_stage_boundaries: even shares of the blocks, what is left over one  *)
(* each to the stages before the last.                                     *)
ShareToLast(n, pp, stage) ==  \* variant: the last stage gets all that is left over
  n \div pp + IF stage = pp THEN n % pp ELSE 0

Share(n, pp, stage) ==
  n \div pp + IF stage \in (pp - (n % pp))..(pp - 1) THEN 1 ELSE 0

StageBoundaries(starts, pp) ==
  [s \in 1..(pp - 1) |->
     starts[Total([k \in 1..s |-> k], LAMBDA k : Share(Len(starts), pp, k)) + 1]]

GenerateRaises(cx, batch) ==
  \/ Unprofiled({cx.tp}) # {}
  \/ cx.pp > 1 /\ Len(Parts(cx, batch)) = 2
  \/ cx.pp > 1 /\ cx.pp > Copies(cx, NumLayers)

MemoryRow(cx, name, bytes) ==
  IF bytes = 0 THEN << >>
  ELSE <<Row(name, 0, Size(0, bytes, 0), "NONE", 0, "NONE", Local,
             GetDevice(cx.place, NoBlock, NoLayer, "kv_evict_loc"), Local)>>

(* generate_trace: the cuts count from the first row after the memory's. *)
Trace(cx, batch, made) ==
  [header |-> [type |-> cx.pd, pp |-> cx.pp, cuts |-> StageBoundaries(made.starts, cx.pp)],
   rows   |-> MemoryRow(cx, "kv_load", batch.load) \o MemoryRow(cx, "kv_evict", batch.evict) \o made.rows]

GenerateTrace(cx, batch) ==
  Trace(cx, batch, IF Len(Parts(cx, batch)) = 2
                   THEN SynthesizeInterleavedTrace(cx, Parts(cx, batch))
                   ELSE SynthesizeTrace(cx, batch))

(* generate_event *)
EventTrace(alarm) ==
  [header |-> [type |-> "EVENT", pp |-> 1, cuts |-> << >>],
   rows   |-> <<Row("event", alarm, Size(0, 0, 0), "NONE", 0, "NONE", <<"REMOTE">>, Local,
                   <<"REMOTE">>)>>]
=============================================================================
