-------------------------- MODULE MCClusterConfig --------------------------
(* Small instances of ClusterConfig: every key is given or left out, for   *)
(* the topology; memories that hold a few blocks, for what goes into them. *)
EXTENDS ClusterConfig

Sized(experts, layers) ==
  [hidden |-> 4, heads |-> 4, kvHeads |-> 1, headDim |-> 1, vocab |-> 8, ffn |-> 6, moeFfn |-> 2,
   experts |-> experts, layers |-> layers]

Ample == [fp |-> 2, kvDtype |-> "auto", block |-> 2, caching |-> FALSE, npuMem |-> 2000, util |-> 100,
          offload |-> FALSE, sub |-> FALSE, rules |-> NoRules]

Raw(numNpus, tp, pp, ep, dps, pds, experts) ==
  [num_npus : numNpus, tp : tp, pp : pp, ep : ep, dp : dps, pd : pds, node : {0},
   model : {Sized(e, 4) : e \in experts}, set : {Ample}]

(* Which keys are given, for an instance in no group. *)
Partial == Raw({Absent, 2, 4}, {Absent, 2}, {Absent, 2, 3}, {Absent}, {NoGroup}, {"none"}, {0})

(* Clusters of prefill, decode and plain instances. *)
Disaggregated == Raw({Absent}, {1, 2}, {1, 2}, {Absent}, {NoGroup}, {"prefill", "decode", "none"}, {0})

(* DP groups, with experts inside an instance or across the group. *)
Grouped == Raw({Absent}, {1, 2}, {1, 2}, {Absent, 2, 4, 6}, {"g"}, {"none"}, {12})
           \cup Raw({Absent}, {2}, {Absent}, {Absent}, {"g", "h"}, {"none"}, {0})

Bare == [nodes |-> 1, cpuMem |-> [n \in {0} |-> 100], cxlMem |-> 0, numCxl |-> 0,
         storage |-> "None", sharing |-> FALSE]

-----------------------------------------------------------------------------
(* Instances that differ in one thing from the first; 856 bytes of weights *)
(* for one NPU, 12 bytes of KV for a token.                                *)
Small == [Ample EXCEPT !.npuMem = 1200, !.caching = TRUE]
ByNode == [default |-> [weights |-> <<"cxl", 1>>, kv_evict_loc |-> <<"cpu">>], blocks |-> << >>,
           layers |-> << >>]
Settings ==
  {Small, [Small EXCEPT !.caching = FALSE], [Small EXCEPT !.block = 4, !.util = 80],
   [Small EXCEPT !.util = 70], [Small EXCEPT !.kvDtype = "fp8"],
   [Small EXCEPT !.rules = ByNode, !.offload = TRUE, !.sub = TRUE]}

Hosted(tps, nodes, settings) ==
  [num_npus : {Absent}, tp : tps, pp : {Absent}, ep : {Absent}, dp : {NoGroup}, pd : {"none"},
   node : nodes, model : {Sized(0, 3)}, set : settings]

Memories ==
  Hosted({1}, {0, 1}, Settings) \cup Hosted({2}, {0}, {Small})
  \cup Hosted({4}, {1}, {[Small EXCEPT !.kvDtype = "fp8"]})

Machines ==
  {[nodes |-> 2, cpuMem |-> (0 :> 200 @@ 1 :> 60), cxlMem |-> cxl, numCxl |-> IF cxl = 0 THEN 0 ELSE 2,
    storage |-> storage, sharing |-> sharing] :
     cxl \in {0, 100}, storage \in {"CPU", "CXL"}, sharing \in BOOLEAN}

MCClusters ==
  {[machine |-> Bare, raws |-> Partial \cup Disaggregated \cup Grouped]}
  \cup {[machine |-> m, raws |-> Memories] : m \in Machines}
=============================================================================
