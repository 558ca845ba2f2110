------------------------------ MODULE GRStages ------------------------------
(***************************************************************************)
(* What the back end runs for one generative-recommendation request:       *)
(* decode_steps and the work of evaluate (gr/model.py), the stages of      *)
(* GRScheduler.traces (gr/scheduler.py) and the operators of each stage    *)
(* (gr/trace.py).  Work is counted in tokens and in (query, key) pairs;    *)
(* the coefficients that turn it into FLOPs and nanoseconds are left out.  *)
(*                                                                         *)
(* A request is [user, arrival, history, inc, version, next, candidates,   *)
(* widths]; widths = << >> when decode_widths is not given.                *)
(***************************************************************************)
EXTENDS LruKCache

CONSTANTS
  Paradigm,      (* "hstu" or "openonerec"                                  *)
  Vocab,         (* semantic_vocab_sizes                                    *)
  NumLayers,     (* model.num_layers                                        *)
  WeightBytes,   (* model.weight_bytes                                      *)
  ChunkTokens,   (* astra.prefill_chunk_tokens                              *)
  WorkspaceBytes,(* astra.workspace_capacity_bytes                          *)
  Locations      (* tier_location of each tier, fastest first               *)

ASSUME GRStagesAssumption ==
  /\ Paradigm \in {"hstu", "openonerec"} /\ Len(Vocab) = 3
  /\ {NumLayers, ChunkTokens} \subseteq Nat \ {0}
  /\ WeightBytes \in Nat /\ WorkspaceBytes \in Nat
  /\ Locations \in Seq({"local", "remote", "cxl", "storage"})
  /\ IsInjective(Locations)  \* build_configs: one cache tier per memory location

NoTier == 0
-----------------------------------------------------------------------------
(* decode_steps: the width of a step is given, or what the step before it  *)
(* has scored.                                                             *)
Width(candidates) ==
  LET width[k \in 1..3] ==
        IF k = 1 THEN 1 ELSE Min({candidates, width[k - 1] * Vocab[k - 1]})
  IN  width

Queries(req, k) ==
  CASE Paradigm = "hstu"  -> req.candidates
    [] req.widths # << >> -> req.widths[k]
    [] OTHER              -> Width(req.candidates)[k]

NumSteps == IF Paradigm = "hstu" THEN 1 ELSE 3
DecodeSteps(req) ==
  [k \in 1..NumSteps |-> [step |-> k, queries |-> Queries(req, k),
                          context |-> Updated(req) + (k - 1)]]

Causal(first, n) == n * first + (n * (n + 1)) \div 2

(* evaluate: the pairs that attention computes for the whole request. *)
ModelPairs(req, hit) ==
  (IF hit THEN 0 ELSE Causal(0, req.history)) + Causal(req.history, req.inc)
  + FoldLeft(LAMBDA sum, s : sum + s.queries * s.context, 0, DecodeSteps(req))

-----------------------------------------------------------------------------
(* GRScheduler.traces: history and increment in chunks, then the dependent *)
(* decode steps.                                                           *)
ChunksFromHistory(name, first, last) ==  \* variant: chunk bounds counted from 0
  [k \in 1..((last - first + ChunkTokens - 1) \div ChunkTokens) |->
     LET begin == (k - 1) * ChunkTokens
     IN  [name |-> name, queries |-> Min({last - begin, ChunkTokens}), context |-> begin,
          pairs |-> Causal(begin, Min({last - begin, ChunkTokens})), step |-> 0, prefix |-> 0]]

Chunks(name, first, last) ==
  [k \in 1..((last - first + ChunkTokens - 1) \div ChunkTokens) |->
     LET begin == first + (k - 1) * ChunkTokens
         count == Min({last - begin, ChunkTokens})
     IN  [name |-> name, queries |-> count, context |-> begin,
          pairs |-> Causal(begin, count), step |-> 0, prefix |-> 0]]

DecodeStages(req) ==
  [k \in 1..NumSteps |->
     LET s == DecodeSteps(req)[k]
     IN  [name |-> "candidate_decode", queries |-> s.queries, context |-> Updated(req),
          pairs |-> s.queries * s.context, step |-> k,
          prefix |-> IF Paradigm = "openonerec" THEN (k - 1) * s.queries ELSE 0]]

RecallStage(req) ==
  [name |-> "recall", queries |-> 0, context |-> req.history, pairs |-> 0, step |-> 0, prefix |-> 0]

RecallsFirst(req, source) == source # NoTier /\ req.history > 0 /\ Locations[source] = "remote"

Stages(req, source) ==
  (IF RecallsFirst(req, source) THEN <<RecallStage(req)>> ELSE << >>)
  \o (IF source = NoTier THEN Chunks("history_prefill", 0, req.history) ELSE << >>)
  \o Chunks("incremental_prefill", req.history, Updated(req))
  \o DecodeStages(req)

Scratch(req) == Max({s.queries * s.step : s \in ToSet(DecodeSteps(req))})

TracesRaise(req) ==
  \/ (Updated(req) + Scratch(req)) * KvBytes > WorkspaceBytes
  \/ Paradigm = "hstu" /\ req.widths # << >>
  \/ Paradigm = "openonerec" /\ req.candidates > Vocab[1] * Vocab[2] * Vocab[3]

-----------------------------------------------------------------------------
(* operator_trace and recall_trace: the operators of a stage, those of     *)
(* size 0 left out (GraphBuilder.memory).  An operator is [name, kind,     *)
(* layer, bytes, at]; the order among the operators of a stage and the     *)
(* computing ones' durations are left out, the weights are in HBM.         *)
Share(total, layer) == (total * (layer + 1)) \div NumLayers - (total * layer) \div NumLayers

Op(name, kind, layer, bytes, at) ==
  [name |-> name, kind |-> kind, layer |-> layer, bytes |-> bytes, at |-> at]

Memory(name, kind, layer, bytes, at) ==
  IF bytes = 0 THEN << >> ELSE <<Op(name, kind, layer, bytes, at)>>

Direct(source) == source # NoTier /\ Locations[source] \in {"storage", "cxl"}

(* Tokens of the history that this stage streams from their tier. *)
Streamed(req, stage, source) ==
  IF Direct(source) /\ stage.name # "history_prefill" THEN req.history ELSE 0

LocalTokens(req, stage, source) ==
  stage.context - Streamed(req, stage, source)
  + IF stage.step = 0 THEN stage.queries ELSE stage.prefix

LayerOps(req, stage, source, layer) ==
  LET kv == Share(KvBytes, layer)
  IN  Memory("weights", "load", layer, Share(WeightBytes, layer), "local")
      \o <<Op("projection", "compute", layer, 0, "npu")>>
      \o Memory("working_kv_append", "store", layer, stage.queries * kv, "local")
      \o Memory("user_history", "load", layer, Streamed(req, stage, source) * kv,
                IF Direct(source) THEN Locations[source] ELSE "local")
      \o Memory("working_kv_read", "load", layer, LocalTokens(req, stage, source) * kv, "local")
      \o <<Op("attention", "compute", layer, 0, "npu"), Op("output_ffn", "compute", layer, 0, "npu")>>

(* Writeback of what the plans keep overlaps the first decode step. *)
Publish(plans, t) ==
  Memory("publish_source", "load", 0, plans[t].writes, "local")
  \o Memory("publish", "store", 0, plans[t].writes, Locations[t])

RecallOps(req) ==
  Memory("recall_history", "load", 0, req.history * KvBytes, "remote")
  \o Memory("stage_history", "store", 0, req.history * KvBytes, "local")

Operators(req, stage, source, plans) ==
  IF stage.name = "recall" THEN RecallOps(req)
  ELSE FlattenSeq([l \in 1..NumLayers |-> LayerOps(req, stage, source, l - 1)])
       \o (IF stage.step > 0 THEN <<Op("head", "compute", NumLayers, 0, "npu")>> ELSE << >>)
       \o (IF stage.step = 1 THEN FlattenSeq([t \in DOMAIN Locations |-> Publish(plans, t)])
           ELSE << >>)

Bytes(ops, names) ==
  FoldLeft(LAMBDA sum, op : IF op.name \in names THEN sum + op.bytes ELSE sum, 0, ops)

(* What these operators write of a snapshot at a location. *)
Published(op, at) == IF op.name = "publish" /\ op.at = at THEN op.bytes ELSE 0

BytesPublished(ops, at) == FoldLeft(LAMBDA sum, op : sum + Published(op, at), 0, ops)
=============================================================================
