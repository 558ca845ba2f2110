--------------------------- MODULE ClusterConfig ---------------------------
(***************************************************************************)
(* How a run comes to its cluster: build_cluster_config of                 *)
(* core/config_builder.py reads the description one instance at a time and *)
(* resolves the DP groups at the end; then serving/__main__.py builds the  *)
(* shared prefix pools, and every scheduler its memory.  The tables are in *)
(* ClusterTables, the memories in MemorySetup.                             *)
(***************************************************************************)
EXTENDS MemorySetup

CONSTANTS
  Clusters,      (* [machine, raws]: a machine, and the instances a user    *)
                 (* may write for it                                        *)
  MaxInstances   (* bound: instances of a cluster                           *)

VARIABLES
  cluster,    (* the one that is described                                  *)
  instances,  (* total_instances, in order of instance_id, each with its    *)
              (* first NPU (inst2npu_mapping)                               *)
  npu2inst,   (* npu2inst_mapping                                           *)
  pools,      (* prefix_pools, by pool; << >> if none is shared             *)
  memories,   (* of every instance whose scheduler is made, [blocks,        *)
              (* storage]                                                   *)
  phase       (* reading the nodes, the cluster is ready, then the pools;   *)
              (* the simulation can start, or the description is rejected   *)

vars == <<cluster, instances, npu2inst, pools, memories, phase>>

machine == cluster.machine

Init == /\ cluster \in Clusters
        /\ instances = << >> /\ npu2inst = << >> /\ pools = << >> /\ memories = << >>
        /\ phase = "reading"

(* One turn of the loops over the nodes and their instances. *)
AddInstance(raw) ==
  /\ phase = "reading" /\ Len(instances) < MaxInstances
  /\ instances # << >> => Last(instances).node <= raw.node
  /\ \/ /\ Resolves(raw)
        /\ instances' = Place(instances, raw)
        /\ npu2inst' = npu2inst \o
             [n \in 1..Effective(NumNpus(raw), raw.pd) |-> Len(instances')]
        /\ UNCHANGED phase
     \/ /\ ~Resolves(raw)
        /\ phase' = "rejected"
        /\ UNCHANGED <<instances, npu2inst>>
  /\ UNCHANGED <<cluster, pools, memories>>

(* The end of build_cluster_config, and the settings of the run. *)
ResolveCluster ==
  /\ phase = "reading" /\ instances # << >>
  /\ phase' = IF /\ DpResolves(instances) /\ PlacementsValid(instances, machine)
                 /\ \A inst \in ToSet(instances) : SettingsResolve(inst)
              THEN "ready" ELSE "rejected"
  /\ UNCHANGED <<cluster, instances, npu2inst, pools, memories>>

BuildPools ==
  /\ phase = "ready"
  /\ \/ /\ ~SharesPools(instances, machine)
        /\ phase' = "pooled"
        /\ UNCHANGED pools
     \/ /\ SharesPools(instances, machine)
        /\ \A p \in PoolIds(machine) : Poolable(instances, machine, p)
        /\ phase' = "pooled"
        /\ pools' = [p \in PoolIds(machine) |-> SharedPool(instances, machine, p)]
     \/ /\ SharesPools(instances, machine)
        /\ \E p \in PoolIds(machine) : ~Poolable(instances, machine, p)
        /\ phase' = "rejected"
        /\ UNCHANGED pools
  /\ UNCHANGED <<cluster, instances, npu2inst, memories>>

(* The next instance's scheduler, with its MemoryModel. *)
BuildScheduler ==
  /\ phase = "pooled"
  /\ LET inst == instances[Len(memories) + 1]
     IN  \/ /\ FitsNpu(inst) /\ StorageBuilds(inst, machine, pools)
            /\ memories' = Append(memories, [blocks  |-> BlocksOf(inst),
                                             storage |-> StorageOf(inst, machine, pools)])
            /\ phase' = IF Len(memories') = Len(instances) THEN "running" ELSE phase
         \/ /\ ~(FitsNpu(inst) /\ StorageBuilds(inst, machine, pools))
            /\ phase' = "rejected"
            /\ UNCHANGED memories
  /\ UNCHANGED <<cluster, instances, npu2inst, pools>>

Next == \/ \E raw \in cluster.raws : AddInstance(raw)
        \/ ResolveCluster
        \/ BuildPools
        \/ BuildScheduler

Spec == Init /\ [][Next]_vars
-----------------------------------------------------------------------------
(* The topology as ASTRA-Sim reads it (external): an NPU's coordinates are *)
(* its number in the mixed radix of the dimensions, and a collective joins *)
(* the NPUs that differ in the spanned dimensions only.                    *)
Stride(dims, k) == FoldLeft(LAMBDA p, d : p * d, 1, SubSeq(dims, 1, k - 1))
Coordinate(dims, n, k) == (n \div Stride(dims, k)) % dims[k]

Peers(dims, spanned, n) ==
  {m \in 0..(Stride(dims, Len(dims) + 1) - 1) :
     \A k \in DOMAIN dims :
       (spanned = << >> \/ spanned[k]) \/ Coordinate(dims, m, k) = Coordinate(dims, n, k)}

(* One shape of instance throughout, and all of them or none in one group. *)
Uniform(insts) ==
  /\ \A i, j \in DOMAIN insts :
       insts[i].tp = insts[j].tp /\ insts[i].pp = insts[j].pp /\ insts[i].dp = insts[j].dp
  /\ \A i \in DOMAIN insts : insts[i].dp # NoGroup => insts[i].pd # "prefill"

(* The description is read and accepted. *)
Described == phase \in {"ready", "pooled", "running"}

(* Every NPU has a place in the topology and every place an NPU: without   *)
(* it ASTRA-Sim waits for ranks that do not exist (comment of              *)
(* _compute_network_dims).                                                 *)
TopologyHoldsEveryNpu ==
  Described => Stride(NetworkDims(instances), Len(NetworkDims(instances)) + 1)
                       = TotalNpu(instances)

(* A tensor-parallel collective (there is one when tp > 1) joins exactly   *)
(* the NPUs of one stage of one instance; an expert-parallel one that      *)
(* outgrows its instance joins the same stage of every member of the DP    *)
(* group, and no other stage.                                              *)
TpStaysInStage(inst, n) ==
  inst.tp > 1 => Peers(NetworkDims(instances), TpDim(instances, inst), n) = StagePeers(inst, n)

EpSpansOneStage(inst, n) ==
  inst.dp # NoGroup /\ EpTotal(inst) > inst.tp =>
    Peers(NetworkDims(instances), EpDim(instances, inst), n)
      = UNION {StagePeers(m, m.start + (n - inst.start)) : m \in ToSet(instances)}

CollectivesStayInStage ==
  Described =>
    \A n \in DOMAIN npu2inst :
      LET inst == instances[npu2inst[n]]
      IN  TpStaysInStage(inst, n - 1) /\ EpSpansOneStage(inst, n - 1)

(* In a cluster of one shape of instance the topology holds every NPU and  *)
(* every collective joins the NPUs it is for (_compute_network_dims,       *)
(* _resolve_dp_groups).                                                    *)
UniformTopologyFits ==
  Uniform(instances) => TopologyHoldsEveryNpu /\ CollectivesStayInStage

-----------------------------------------------------------------------------
(* A shared pool is sized twice: __main__ builds it for the model and data *)
(* types of the first sharer, and each instance's MemoryModel compares its *)
(* bytes with what it makes of its own shard.  Where a token's KV divides  *)
(* over the NPUs of an instance the two agree, whatever the degrees, data  *)
(* types and block sizes of the sharers: no instance turns down the pool   *)
(* built for it (_build_storage_pool).                                     *)
SharersAreAccepted ==
  phase = "pooled" /\ pools # << >> =>
    \A inst \in ToSet(instances) :
      ClusterKvPerToken(Typed(inst)) % inst.num_npus = 0 =>
        AcceptsPool(inst, pools[PoolIdOf(inst, machine)])
=============================================================================
