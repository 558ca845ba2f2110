--------------------------- MODULE BatchPipeline ---------------------------
(***************************************************************************)
(* From batches to the graphs ASTRA-Sim is handed, for instances of one    *)
(* shape: the main loop calls generate_trace and generate_graph for the    *)
(* batch an instance has scheduled, or for those of all members of a       *)
(* data-parallel round, padded to the longest, into one folder.            *)
(***************************************************************************)
EXTENDS PowerCharges, GraphCache

CONSTANTS
  Instances,     (* 1..n; their NPUs follow each other                      *)
  Setups         (* [cx, rules, dp, pool, last]: the configuration, its     *)
                 (* placement rules, whether the instances are a DP group,  *)
                 (* and the jobs [items, load] they are given; last bounds  *)
                 (* the batches (or rounds) of the run                      *)

ASSUME PipelineAssumption ==
  /\ IsFiniteSet(Instances) /\ Instances = 1..Cardinality(Instances)
  /\ \A s \in Setups : /\ DOMAIN s = {"cx", "rules", "dp", "pool", "last"} /\ s.last \in Nat
                         /\ {"tp", "pp"} \subseteq DOMAIN s.cx /\ {s.cx.tp, s.cx.pp} \subseteq Nat \ {0}

VARIABLES
  setup,         (* the run's configuration                                 *)
  graphs,        (* files and cache                                         *)
  handed,        (* what was asked of the generators: [folder, instance,    *)
                 (* batch, trace, npus, offset]                             *)
  power,         (* what the power model was charged with so far            *)
  served         (* batches or rounds so far                                *)

vars == <<setup, graphs, handed, power, served>>

cx == setup.cx
NpusPerInstance == cx.tp * cx.pp
OffsetOf(i) == (i - 1) * NpusPerInstance
EventFolder == <<"event_handler">>
-----------------------------------------------------------------------------
(* _build_batch: more than one token is a chunk, one is a decode. *)
Batch(job) ==
  LET items == job.items
  IN  [items |-> items, total |-> Load(items),
       prefills |-> Len(Chunks(items)), decodes |-> Len(Decodes(items)),
       chunks |-> Chunks(items), contexts |-> Contexts(items), evict |-> 0, load |-> job.load,
       send |-> IF cx.pd = "prefill" THEN Load(items) ELSE 0, dpTotal |-> 0]

Idle == [items |-> << >>, load |-> 0]

(* What an idle member of a round runs: one token of no request. *)
Dummy == [Batch(Idle) EXCEPT !.total = 1, !.decodes = 1, !.contexts = <<1>>]

MemberBatch(job) == IF job = Idle THEN Dummy ELSE Batch(job)

Padded(batch, longest) ==
  [batch EXCEPT !.total = longest, !.decodes = @ + (longest - batch.total), !.dpTotal = longest]

(* generate_trace and generate_graph for one instance's batch. *)
Order(folder, i, batch) ==
  [folder |-> folder, instance |-> i, batch |-> batch, trace |-> GenerateTrace(cx, batch),
   npus |-> NpusPerInstance, offset |-> OffsetOf(i)]

Made(g, order) == GenerateGraph(g, order.folder, order.trace, order.npus, order.offset)

(* The graphs after one order and the next. *)
AllMade(g, orders) ==
  LET made[n \in 0..Len(orders)] == IF n = 0 THEN g ELSE Made(made[n - 1], orders[n])
  IN  made[Len(orders)]

EventOrder ==
  [folder |-> EventFolder, instance |-> 0, batch |-> Batch(Idle), trace |-> EventTrace(1),
   npus |-> NpusPerInstance * Cardinality(Instances), offset |-> 0]

(* The configuration with its placement tables (build_cluster_config). *)
Placed(s) ==
  [s EXCEPT !.cx = [f \in DOMAIN @ \cup {"place"} |->
                      IF f = "place" THEN Resolved(s.rules, s.cx.node, NumLayers) ELSE @[f]]]

Init ==
  /\ setup \in {Placed(s) : s \in Setups}
  /\ power = NoCharge
  /\ graphs = Made(NewGraphs, EventOrder)
  /\ handed = <<EventOrder>>
  /\ served = 0

(* generate_trace and generate_graph, for one order after the other. *)
Serve(orders) ==
  /\ graphs' = AllMade(graphs, orders)
  /\ handed' = handed \o orders
  /\ power' = Plus(power, SumOf([n \in DOMAIN orders |-> TraceCharge(cx, orders[n].batch)]))
  /\ served' = served + 1
  /\ UNCHANGED setup

(* An independent instance's batch. *)
ServeBatch(i) ==
  /\ ~setup.dp /\ served < setup.last
  /\ \E job \in setup.pool :
       /\ ~GenerateRaises(cx, Batch(job))
       /\ Serve(<<Order(<<"instance", i, served>>, i, Batch(job))>>)

(* A round of the group: a member without work joins with a dummy, and all *)
(* are padded to the longest.                                              *)
PaddedRound(round) ==
  LET longest == Max({MemberBatch(round[i]).total : i \in Instances})
  IN  [i \in Instances |-> Padded(MemberBatch(round[i]), longest)]

ServeRound ==
  /\ setup.dp /\ served < setup.last
  /\ \E round \in [Instances -> setup.pool \cup {Idle}] :
       /\ \E i \in Instances : round[i] # Idle
       /\ \A i \in Instances : ~GenerateRaises(cx, PaddedRound(round)[i])
       /\ Serve([i \in Instances |-> Order(<<"dp", served>>, i, PaddedRound(round)[i])])

(* generate_trace refuses more stages than blocks, and a degree of tensor  *)
(* parallelism that was not profiled: the run ends.                        *)
Refuse ==
  /\ served < setup.last
  /\ \E job \in setup.pool : GenerateRaises(cx, Batch(job))
  /\ served' = setup.last
  /\ UNCHANGED <<setup, graphs, handed, power>>

Next == \/ \E i \in Instances : ServeBatch(i)
        \/ ServeRound
        \/ Refuse

Spec == Init /\ [][Next]_vars
-----------------------------------------------------------------------------
(* Every NPU of an instance finds in the folder it is pointed at the graph *)
(* of the trace generated for this very batch, whether it was converted or *)
(* comes from the cache, and whichever other batches, instances or members *)
(* of the round the cache served in between (graph_generator.py, the cache *)
(* keyed by rows, NPUs and offset).                                        *)
GraphIsTheTrace ==
  \A h \in ToSet(handed) : \A n \in h.offset..(h.offset + h.npus - 1) :
    /\ <<h.folder, n>> \in DOMAIN graphs.disk
    /\ graphs.disk[<<h.folder, n>>] = Convert(h.trace, h.npus, h.offset)[n]

LastN(s, n) == SubSeq(s, AtLeastOne(Len(s) - n + 1), Len(s))

(* The properties of single traces look at a trace when it is handed over. *)
Latest == LastN(handed, IF setup.dp THEN Cardinality(Instances) ELSE 1)
Fresh  == {h \in ToSet(Latest) : h.instance # 0}

(* The layers of a trace without what stands around them. *)
MemoryRows(trace) == Len(SelectSeq(trace.rows, LAMBDA r : r.layer \in {"kv_load", "kv_evict"}))
LayerRows(trace) == SubSeq(trace.rows, MemoryRows(trace) + 1, Len(trace.rows))

StageRows(trace, s) ==
  LET rows == LayerRows(trace)
      cuts == <<0>> \o trace.header.cuts \o <<Len(rows)>>
  IN  SubSeq(rows, cuts[s] + 1, cuts[s + 1])

Sized(rows) == SelectSeq(rows, LAMBDA r : ~IsMarker(r))
BlocksIn(rows) == Len(SelectSeq(rows, LAMBDA r : r.layer = "qkv_proj"))

(* The stages of a pipeline run the whole model once: together all blocks, *)
(* each stage some, no two stages more than one block apart, and a stage   *)
(* is handed exactly the bytes that the one before it ends with            *)
(* (_pp_stage_boundaries; a mismatch leaves the receiver waiting).  With   *)
(* experts spread over ranks the last row of a block is the rank's share   *)
(* of tokens, so that the bytes are compared without expert parallelism.   *)
StagesShareBlocks ==
  \A h \in Fresh : h.trace.header.pp > 1 =>
    LET stage(s) == StageRows(h.trace, s)
        stages   == 1..h.trace.header.pp
    IN  /\ FoldSet(LAMBDA s, sum : sum + BlocksIn(stage(s)), 0, stages) = NumLayers
        /\ \A s, t \in stages : BlocksIn(stage(s)) <= BlocksIn(stage(t)) + 1 /\ BlocksIn(stage(s)) > 0
        /\ \A s \in stages \ {1} :
             /\ stage(s)[1].layer = "layernorm"
             /\ BlocksIn(stage(s)) <= BlocksIn(stage(s - 1)) \/ s < Max(stages)
             /\ cx.epTotal = 1 => Last(Sized(stage(s - 1))).out = stage(s)[1].in

(* No stage loads more weights than the memory model has taken off the KV  *)
(* cache for a rank, but for one block: get_weight does not know where a   *)
(* stage is cut, and charges layers \div pp blocks to each, when stages    *)
(* before the last run the blocks left over.                               *)
LeftOver == IF NumLayers % cx.pp = 0 THEN 0 ELSE WeightPerBlock(ModelOf(cx), cx.tp, cx.epTotal)

StageWeightsAreCharged ==
  \A h \in Fresh :
    cx.localEp = 1 /\ Len(Parts(cx, h.batch)) = 1 =>
      \A s \in 1..cx.pp :
        Total(StageRows(h.trace, s), LAMBDA r : IF IsMarker(r) THEN 0 ELSE r.wt)
          <= GetWeight(ModelOf(cx), cx.tp, cx.pp, cx.epTotal) + LeftOver

(* The pipeline runs the model once, in stages that fit their memory up to *)
(* a block that is left over (_pp_stage_boundaries, get_weight).           *)
StagesPartitionModel == StagesShareBlocks /\ StageWeightsAreCharged

RunsAlone(rows, half, tag) ==
  SelectSeq(rows, LAMBDA r : r.tag = tag)
    = LET alone == Sized(SynthesizeTrace(cx, half).rows)
      IN  [n \in DOMAIN alone |-> [alone[n] EXCEPT !.tag = tag]]

SharedOut(items, one, two) ==
  LET ids(list) == {i.id : i \in ToSet(list)}
      most      == Max({i.q : i \in ToSet(items)})
      inOrder(list) == \A a, b \in DOMAIN list : a < b => list[a].arrival <= list[b].arrival
  IN  /\ ids(one) \cap ids(two) = {} /\ ids(one) \cup ids(two) = ids(items)
      /\ Load(one) - Load(two) \in -most..most
      /\ inOrder(one) /\ inOrder(two)

(* Interleaving two halves of a batch changes when layers run and nothing  *)
(* else: each half runs the layers it would run alone, in that order; the  *)
(* halves share out the requests, and the difference of their tokens is at *)
(* most one request's (_make_sub_batch, _synthesize_interleaved_trace).    *)
HalvesRunAsAlone ==
  \A h \in Fresh :
    LET parts == Parts(cx, h.batch)
    IN  Len(parts) = 2 =>
          /\ SharedOut(h.batch.items, parts[1].items, parts[2].items)
          /\ \A k \in 1..2 : RunsAlone(h.trace.rows, parts[k], <<"BATCH_1", "BATCH_2">>[k])

(* What the rules say of a kind of data of a layer: a rule for the layer   *)
(* decides alone; of those for the block the last that names the kind.     *)
IsFor(rule, block) ==
  \E p \in ToSet(rule.ids) : Min(ToSet(p)) <= block /\ block <= Max(ToSet(p))

RuledAt(block, layer, kind) ==
  LET rules    == setup.rules
      deciding == {n \in DOMAIN rules.blocks : IsFor(rules.blocks[n], block)
                                               /\ kind \in DOMAIN rules.blocks[n].set}
      names    == CASE layer \in DOMAIN rules.layers /\ rules.layers[layer] # << >> -> rules.layers[layer]
                    [] deciding # {} -> rules.blocks[Max(deciding)].set
                    [] OTHER         -> << >>
  IN  MemStr((names @@ rules.default @@ Usual)[kind], cx.node)

KvRow(r) == r.layer \in {"kv_load", "kv_evict"}
RuledName(r) == IF r.layer = "expert" THEN "moe" ELSE r.layer
Before == Len(Sequence["prologue"])
After  == Len(Sequence["head"])

(* Every layer of every block reads its weights where the rules of the     *)
(* cluster description want them, whether blocks are traced one by one,    *)
(* copied from the first, or interleaved with another half's; and the KV   *)
(* cache goes to and from its place (get_device, block_mode_on).           *)
WeightsComeFromTheirPlace ==
  \A h \in Fresh :
    /\ \A r \in ToSet(h.trace.rows) : KvRow(r) => r.at = RuledAt(NoBlock, NoLayer, "kv_evict_loc")
    /\ \A tag \in {r.tag : r \in ToSet(h.trace.rows)} \ {""} :
         LET rows == SelectSeq(h.trace.rows, LAMBDA r : r.tag = tag /\ ~KvRow(r))
             per  == (Len(rows) - Before - After) \div BlocksIn(rows)
             inside(n) == n > Before /\ n <= Len(rows) - After
         IN  \A n \in DOMAIN rows :
               rows[n].at = RuledAt(IF inside(n) THEN (n - Before - 1) \div per ELSE NoBlock,
                                    RuledName(rows[n]), "weights")

(* What a trace says is done: ranks of a MoE block run side by side.       *)
IsPim(r) == r.layer = "attention" /\ r.from # Local

Ends(rows) == {n \in DOMAIN rows : rows[n].layer = "EXPERT END"}

SlowestBefore(rows, end) ==
  LET start == Max({0} \cup {e \in Ends(rows) : e < end})
  IN  Max({0} \cup {rows[n].ns : n \in {n \in start + 1..end : rows[n].layer = "expert"}})

ExpertGroups(rows) == FoldSet(LAMBDA end, sum : sum + SlowestBefore(rows, end), 0, Ends(rows))

RowLink(r) ==
  CASE r.comm # "NONE" -> RingData(r.size, IF r.comm = "ALLREDUCE" THEN cx.tp ELSE cx.epTotal, r.comm)
    [] OTHER           -> r.size

RowDram(r) ==
  CASE IsPim(r)      -> r.in + r.out
    [] KvRow(r)      -> r.wt
    [] r.at # Local  -> r.wt
    [] OTHER         -> 0

Done(rows) ==
  [npu  |-> ExpertGroups(rows)
            + Total(rows, LAMBDA r : IF IsPim(r) \/ r.layer = "expert" THEN 0 ELSE r.ns),
   pim  |-> Total(rows, LAMBDA r : IF IsPim(r) THEN r.ns ELSE 0),
   dram |-> Total(rows, RowDram), link |-> Total(rows, RowLink)]

(* The power model is charged with what the traces handed over do, which   *)
(* is added up on another path than the rows: every copy of a block, both  *)
(* halves, the slowest rank.  Bytes of memory are compared unless sharded  *)
(* embeddings are not local, bytes on links without stages and handover,   *)
(* for there the charge is not the trace's (see the README).               *)
ChargedFor(latest) ==
  LET done == Plus(power, SumOf([n \in DOMAIN latest |-> Done(latest[n].trace.rows)]))
  IN  /\ power'.npu = done.npu /\ power'.pim = done.pim
      /\ cx.tp = 1 \/ WeightsAt(cx, NoBlock, "embedding") = Local => power'.dram = done.dram
      /\ cx.pp = 1 /\ cx.pd # "prefill" => power'.link = done.link

PowerIsTheTrace == [][IF handed' = handed THEN power' = power ELSE ChargedFor(Latest')]_vars

(* Item lists of the same requests, none with more to do. *)
NoMoreWork(small, big) ==
  /\ Len(small) = Len(big)
  /\ \A n \in DOMAIN small : small[n].id = big[n].id /\ small[n].q <= big[n].q
                             /\ small[n].k <= big[n].k /\ (small[n].q > 1) = (big[n].q > 1)

TimeOf(batch) ==
  Total(SynthesizeTrace(cx, batch).rows, LAMBDA r : r.ns)

(* A batch never gets faster by more tokens or longer histories, between   *)
(* measured points, beyond them, and where a measurement is missing        *)
(* (_lookup_1d, _lookup_attention, _lookup_moe, on profiles that grow).    *)
MoreWorkIsNotFaster ==
  \A h \in Fresh :
    h.batch.dpTotal = 0 =>
      \A job \in setup.pool :
        job.items # h.batch.items /\ NoMoreWork(job.items, h.batch.items) => TimeOf(Batch(job)) <= TimeOf(h.batch)
=============================================================================
