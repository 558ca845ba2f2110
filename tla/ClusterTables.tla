--------------------------- MODULE ClusterTables ---------------------------
(***************************************************************************)
(* core/config_builder.py: the tables of a run, computed from the cluster  *)
(* description.  Each instance's parallelism is inferred from the keys the *)
(* user gave (_resolve_parallelism) and the instance gets the next NPUs    *)
(* (build_cluster_config); then the DP groups are validated and the        *)
(* collectives get their dimensions (_resolve_dp_groups), and the topology *)
(* of ASTRA-Sim is sized (_compute_network_dims).  Power and bandwidth     *)
(* settings are left out, memory is in MemorySetup.                        *)
(*                                                                         *)
(* An instance of the description is a record [num_npus, tp, pp, ep, dp,   *)
(* pd, node, model, set]: Absent, NoGroup and "none" stand for a key left  *)
(* out; model has experts (0 for a dense one) and layers; set is what the  *)
(* tables here do not depend on.                                           *)
(***************************************************************************)
EXTENDS Naturals, FiniteSets, SequencesExt, FiniteSetsExt

CONSTANT NoGroup  (* dp_group is null *)

Absent == 0

-----------------------------------------------------------------------------
(* _resolve_parallelism *)
IsMoe(raw) == raw.model.experts > 0
Given(degree) == degree # Absent
OrOne(degree) == IF Given(degree) THEN degree ELSE 1

TpSize(raw) ==
  CASE Given(raw.tp)       -> raw.tp
    [] Given(raw.num_npus) -> raw.num_npus \div OrOne(raw.pp)
    [] OTHER               -> 1

PpSize(raw) ==
  IF Given(raw.num_npus) /\ Given(raw.tp) /\ raw.num_npus # raw.tp * OrOne(raw.pp)
  THEN raw.num_npus \div raw.tp ELSE OrOne(raw.pp)

NumNpus(raw) ==
  CASE Given(raw.num_npus) -> raw.num_npus
    [] Given(raw.tp)       -> raw.tp * OrOne(raw.pp)
    [] OTHER               -> 1

EpSize(raw) ==
  CASE Given(raw.ep) -> raw.ep
    [] IsMoe(raw)    -> TpSize(raw)
    [] OTHER         -> 1

ResolvesOnItsOwn(raw) ==
  /\ Given(raw.num_npus) /\ Given(raw.tp) /\ raw.num_npus # raw.tp * OrOne(raw.pp)
       => raw.num_npus % raw.tp = 0 /\ OrOne(raw.pp) \in {1, raw.num_npus \div raw.tp}
  /\ Given(raw.num_npus) /\ ~Given(raw.tp) => raw.num_npus % OrOne(raw.pp) = 0
  /\ NumNpus(raw) = TpSize(raw) * PpSize(raw)
  /\ TpSize(raw) >= 1
  /\ PpSize(raw) <= raw.model.layers
  /\ IsMoe(raw) => raw.model.experts % EpSize(raw) = 0

Resolves(raw) ==
  /\ ResolvesOnItsOwn(raw)
  /\ raw.dp = NoGroup => EpSize(raw) <= TpSize(raw)

(* build_cluster_config: a prefill instance has as many sender NPUs again. *)
Effective(numNpus, pd) == IF pd = "prefill" THEN 2 * numNpus ELSE numNpus

Instance(raw, start) ==
  [num_npus |-> NumNpus(raw), tp |-> TpSize(raw), pp |-> PpSize(raw), ep |-> EpSize(raw),
   moe |-> IsMoe(raw), dp |-> raw.dp, pd |-> raw.pd, start |-> start,
   node |-> raw.node, model |-> raw.model, set |-> raw.set]

LastOf(inst)  == inst.start + Effective(inst.num_npus, inst.pd) - 1
NpusOf(inst)  == inst.start..LastOf(inst)
NextStart(insts) == IF insts = << >> THEN 0 ELSE LastOf(Last(insts)) + 1
TotalNpu(insts) ==
  FoldLeft(LAMBDA sum, inst : sum + Effective(inst.num_npus, inst.pd), 0, insts)

Place(insts, raw) == Append(insts, Instance(raw, NextStart(insts)))

-----------------------------------------------------------------------------
(* _resolve_dp_groups *)
Members(insts, dg) == SelectSeq(insts, LAMBDA inst : inst.dp = dg)
Groups(insts) == {inst.dp : inst \in ToSet(insts)} \ {NoGroup}
EpTotal(inst) == IF inst.moe THEN inst.ep ELSE 1
LocalEp(inst, size) == IF inst.moe THEN inst.ep \div size ELSE 1

GroupResolves(members) ==
  /\ \A m \in ToSet(members) :
       m.tp = Head(members).tp /\ m.ep = Head(members).ep /\ m.pp = Head(members).pp
  /\ Head(members).moe => Head(members).ep % Len(members) = 0
  /\ LocalEp(Head(members), Len(members)) <= Head(members).tp

DpResolves(insts) == \A dg \in Groups(insts) : GroupResolves(Members(insts, dg))

(* Dimensions of the topology, innermost first, and the ones a collective  *)
(* of an instance spans.  << >> is None: every dimension.                  *)
DpTpDim(inst) == IF inst.pp > 1 THEN <<TRUE, FALSE, FALSE>> ELSE <<TRUE, FALSE>>

(* Variant: the middle dimension, of the pipeline, is spanned too. *)
DpEpDimAcrossStages(inst) ==
  IF EpTotal(inst) <= inst.tp THEN DpTpDim(inst)
  ELSE IF inst.pp > 1 THEN <<inst.tp > 1, TRUE, TRUE>> ELSE <<inst.tp > 1, TRUE>>

DpEpDim(inst) ==
  IF EpTotal(inst) <= inst.tp THEN DpTpDim(inst)
  ELSE IF inst.pp > 1 THEN <<inst.tp > 1, FALSE, TRUE>> ELSE <<inst.tp > 1, TRUE>>

(* _compute_network_dims: with DP groups the first one sizes the topology. *)
NoTrailingOnes(dims) ==
  LET kept == {n \in DOMAIN dims : n = 1 \/ \E k \in n..Len(dims) : dims[k] # 1}
  IN  SubSeq(dims, 1, Max(kept))

FirstGroup(insts) ==
  LET first == CHOOSE k \in DOMAIN insts : /\ insts[k].dp # NoGroup
                                           /\ \A j \in 1..(k - 1) : insts[j].dp = NoGroup
  IN  Members(insts, insts[first].dp)

DpDims(members) ==
  LET first == Head(members)
  IN  IF first.pp > 1 THEN <<first.tp, first.pp, Len(members)>> ELSE <<first.tp, Len(members)>>

TotalPp(insts) == FoldLeft(LAMBDA sum, inst : sum + Effective(inst.pp, inst.pd), 0, insts)
NumGroups(insts) ==
  Len(insts) + Cardinality({k \in DOMAIN insts : insts[k].pd = "prefill"})

PlainDims(insts) ==
  IF TotalNpu(insts) = TotalPp(insts)
  THEN <<TotalNpu(insts) \div NumGroups(insts), NumGroups(insts)>>
  ELSE <<TotalNpu(insts) \div TotalPp(insts), TotalPp(insts)>>

NetworkDims(insts) ==
  NoTrailingOnes(IF Groups(insts) # {} THEN DpDims(FirstGroup(insts)) ELSE PlainDims(insts))

LocalDim(insts) ==
  IF Len(NetworkDims(insts)) > 1
  THEN [k \in DOMAIN NetworkDims(insts) |-> k = 1] ELSE << >>

TpDim(insts, inst) == IF inst.dp # NoGroup THEN DpTpDim(inst) ELSE LocalDim(insts)
EpDim(insts, inst) ==
  CASE inst.dp # NoGroup -> DpEpDim(inst)
    [] inst.ep > 1       -> LocalDim(insts)
    [] OTHER             -> << >>

(* Stage of an NPU in its instance, and the NPUs of that stage. *)
StageOf(inst, n) == (n - inst.start) \div inst.tp
StagePeers(inst, n) == {m \in NpusOf(inst) : StageOf(inst, m) = StageOf(inst, n)}
=============================================================================
