---------------------------- MODULE PowerCharges ----------------------------
(***************************************************************************)
(* What a batch adds to the power model while its trace is made: the time  *)
(* NPUs and PIM are active, bytes read from memories other than the NPU's  *)
(* own, bytes on links (PowerAccumulator and the calls of PowerModel in    *)
(* core/trace_generator.py, total_ring_data of core/power_model.py).  The  *)
(* watts and joules per unit are factors and left out, as is the CPU,      *)
(* which is charged with the NPUs' time.                                   *)
(***************************************************************************)
EXTENDS LayerTrace

NoCharge == [npu |-> 0, pim |-> 0, dram |-> 0, link |-> 0]

Plus(a, b) ==
  [npu |-> a.npu + b.npu, pim |-> a.pim + b.pim, dram |-> a.dram + b.dram, link |-> a.link + b.link]

SumOf(charges) == FoldLeft(Plus, NoCharge, charges)

(* total_ring_data, cut to whole bytes. *)
RingData(bytes, n, collective) ==
  IF collective = "ALLREDUCE" THEN (2 * (n - 1) * bytes) \div n ELSE ((n - 1) * bytes) \div n

FromMemory(cx, k, layer, bytes) == IF WeightsAt(cx, k, layer) # Local THEN bytes ELSE 0

(* _emit_layer with a PowerAccumulator. *)
LayerCharge(cx, b, k, layer) ==
  [npu  |-> b.ns[layer], pim |-> 0,
   dram |-> FromMemory(cx, k, layer, LayerSize(cx, b, layer).wt),
   link |-> IF CommType(cx, layer) = "NONE" THEN CommSize(cx, b, layer)
            ELSE RingData(CommSize(cx, b, layer), cx.tp, CommType(cx, layer))]

PimCharge(cx, b) ==
  LET lens == DecodeLens(b.items)
      rows == Joined([c \in Channels |-> c], LAMBDA c : lens[c])
      one  == PimRow(cx, NoBlock, 0, "")
  IN  [NoCharge EXCEPT !.pim = Total(rows, PimLatency),
                       !.dram = Len(rows) * (one.in + one.out)]

(* Ranks run side by side: the slowest is charged, the weights of all. *)
MoeCharge(cx, b, k) ==
  LET loads == SelectSeq(LocalLoads(cx, b), LAMBDA l : l.tokens > 0)
  IN  [npu  |-> Max({0} \cup {ExpertNs(l) : l \in ToSet(loads)}), pim |-> 0,
       dram |-> FromMemory(cx, k, "moe", Total(loads, LAMBDA l : ExpertSize(cx, l).wt)),
       link |-> IF Spread(cx) THEN RingData(GatherBytes(cx, b), cx.epTotal, "ALLGATHER")
                                   + RingData(ScatterBytes(cx, b), cx.epTotal, "REDUCESCATTER")
                ELSE 0]

InSequenceCharge(cx, b, k, layer) ==
  Plus(IF layer = "attention" /\ cx.offload THEN PimCharge(cx, b) ELSE NoCharge,
       CASE layer = "moe"         -> MoeCharge(cx, b, k)
         [] Skipped(cx, b, layer) -> NoCharge
         [] OTHER                 -> LayerCharge(cx, b, k, layer))

SequenceCharge(cx, b, k, layers) ==
  SumOf([n \in DOMAIN layers |-> InSequenceCharge(cx, b, k, layers[n])])

PreAttnCharge(cx, b, k) == SequenceCharge(cx, b, k, PreAttnLayers)
PostAttnCharge(cx, b, k) == SequenceCharge(cx, b, k, PostAttnLayers(cx))

(* _emit_prologue and _emit_final_layers; the prologue's weights are       *)
(* charged unsharded.                                                      *)
AroundCharge(cx, b) ==
  LET layers  == Sequence["prologue"] \o Sequence["head"]
      ranks(n) == IF n <= Len(Sequence["prologue"]) THEN 1 ELSE cx.tp
  IN  SumOf([n \in DOMAIN layers |->
               [NoCharge EXCEPT
                  !.npu  = b.ns[layers[n]],
                  !.dram = FromMemory(cx, NoBlock, layers[n], Weight(ModelOf(cx), layers[n], ranks(n)))]])

(* _emit_pp_pd_power *)
StageCharge(cx, b) ==
  [NoCharge EXCEPT !.link =
     (IF cx.pp > 1 THEN b.total * Model.hidden * (cx.pp - 1) ELSE 0)
     + (IF cx.pd = "prefill" THEN (b.total + b.lmHead) * Model.hidden * Fp ELSE 0)]

(* Variant: a block that is copied is flushed once. *)
OnceForCopies(cx, charge, nums) == SumOf([n \in 1..Cardinality(ToSet(nums)) |-> charge[nums[n]]])

(* flush: once for every block of the trace, copies included. *)
Flushed(cx, charge, nums) == SumOf([n \in DOMAIN nums |-> charge[nums[n]]])

LayersCharge(cx, b) ==
  LET nums == Numbered(cx, NumLayers)
  IN  SumOf(<<AroundCharge(cx, b), StageCharge(cx, b),
              Flushed(cx, [k \in ToSet(nums) |-> Plus(PreAttnCharge(cx, b, k), PostAttnCharge(cx, b, k))],
                      nums)>>)

BatchCharge(cx, batch) == LayersCharge(cx, Timed(cx, BatchCtx(cx, batch)))

InterleavedCharge(cx, parts) ==
  LET nums    == Numbered(cx, Turns(NumLayers))
      half(b) ==
        SumOf(<<AroundCharge(cx, b), PreAttnCharge(cx, b, 0), PostAttnCharge(cx, b, NumLayers - 1),
                Flushed(cx, [k \in ToSet(nums) |->
                               Plus(PostAttnCharge(cx, b, k), PreAttnCharge(cx, b, k + 1))], nums)>>)
  IN  Plus(StageCharge(cx, BatchCtx(cx, parts[1])),
           SumOf([n \in 1..2 |-> half(Timed(cx, BatchCtx(cx, parts[n])))]))

(* generate_trace *)
TraceCharge(cx, batch) ==
  LET parts == Parts(cx, batch)
  IN  Plus(IF Len(parts) = 2 THEN InterleavedCharge(cx, parts) ELSE BatchCharge(cx, batch),
           [NoCharge EXCEPT !.dram = batch.load + batch.evict])
=============================================================================
