---------------------------- MODULE MemorySetup ----------------------------
(***************************************************************************)
(* The memories of a cluster as serving/__main__.py and MemoryModel set    *)
(* them up: the settings of a run, the prefix pools that instances share,  *)
(* and then, one instance after the other, the KV cache of its NPUs and    *)
(* the pool of its second tier (core/memory_model.py).                     *)
(*                                                                         *)
(* A machine is [nodes, cpuMem, cxlMem, numCxl, storage, sharing]: bytes   *)
(* of each node's CPU memory (0..nodes-1) and of all CXL memory, with the  *)
(* options --prefix-storage ("CPU", "CXL" or "None") and                   *)
(* --enable-prefix-sharing.  The settings of an instance are [fp, kvDtype, *)
(* block, caching, npuMem, util, offload, sub, rules], fp the bytes of an  *)
(* element, util in percent.                                               *)
(***************************************************************************)
EXTENDS ClusterTables, MemoryModel, Placement

CONSTANT ChunkTokens  (* LOWER_TIER_CHUNK_TOKENS *)

ASSUME MemorySetupAssumption == ChunkTokens \in Nat \ {0}

NoPool == [tier |-> "None", blockSize |-> 0, bytesPerBlock |-> 0, numBlocks |-> 0]

(* The model in an instance's data types. *)
Typed(inst) ==
  inst.model @@ [fp |-> inst.set.fp, kvFp |-> IF inst.set.kvDtype = "fp8" THEN 1 ELSE inst.set.fp]

-----------------------------------------------------------------------------
(* build_cluster_config and _validate_memory_config: every place a rule    *)
(* names is there.                                                         *)
PlacementOf(inst) == Resolved(inst.set.rules, inst.node, inst.model.layers)

PlacementsValid(insts, machine) ==
  \A inst \in ToSet(insts) : PlacementValid(PlacementOf(inst), Devices(machine.nodes, machine.numCxl))

(* _build_instance_runtime_configs and _resolve_mem_util *)
SettingsResolve(inst) ==
  /\ inst.set.sub => inst.set.offload /\ inst.pp = 1
  /\ inst.set.util \in 1..100

-----------------------------------------------------------------------------
(* Shared pools: one on every node, or one of CXL memory for all. *)
AnyCaching(insts) == \E inst \in ToSet(insts) : inst.set.caching
SharesPools(insts, machine) == AnyCaching(insts) /\ machine.sharing /\ machine.storage # "None"

PoolIds(machine) == IF machine.storage = "CPU" THEN 0..(machine.nodes - 1) ELSE {0}
PoolIdOf(inst, machine) == IF machine.storage = "CPU" THEN inst.node ELSE 0
PoolMem(machine, p) == IF machine.storage = "CPU" THEN machine.cpuMem[p] ELSE machine.cxlMem

Sharers(insts, machine, p) == SelectSeq(insts, LAMBDA inst : PoolIdOf(inst, machine) = p)

KvShape(inst) == <<inst.model, inst.set.fp, inst.set.kvDtype>>

SharedPool(insts, machine, p) ==
  LET first == Head(Sharers(insts, machine, p))
  IN  PrefixPool(machine.storage, PoolMem(machine, p), first.set.block, ChunkTokens,
                 ClusterKvPerToken(Typed(first)))

(* A pool needs memory, sharers that agree, and room for a chunk. *)
Poolable(insts, machine, p) ==
  LET sharers == Sharers(insts, machine, p)
  IN  /\ PoolMem(machine, p) > 0 /\ sharers # << >>
      /\ \A a, b \in ToSet(sharers) : a.set.block = b.set.block /\ KvShape(a) = KvShape(b)
      /\ SharedPool(insts, machine, p).numBlocks >= 1

-----------------------------------------------------------------------------
(* MemoryModel.__init__ *)
WeightOf(inst) == GetWeight(Typed(inst), inst.tp, inst.pp, EpTotal(inst))
TokenBytes(inst) == BytesPerToken(Typed(inst), inst.num_npus)
BlockBytes(inst) == TokenBytes(inst) * inst.set.block

BlocksOf(inst) == NpuBlocks(inst.set.npuMem, inst.set.util, WeightOf(inst), BlockBytes(inst))

FitsNpu(inst) ==
  /\ WeightOf(inst) <= inst.set.npuMem
  /\ BlockBytes(inst) > 0
  /\ BlocksOf(inst) >= 1

(* _build_storage_pool: what an instance takes a token for in all its NPUs *)
(* is rounded for each of them.                                            *)
RankPerToken(inst) == TokenBytes(inst)  \* variant: the bytes of one rank
RoundedPerToken(inst) == TokenBytes(inst) * inst.num_npus

AcceptsPool(inst, pool) ==
  /\ pool.blockSize % inst.set.block = 0
  /\ pool.bytesPerBlock = RoundedPerToken(inst) * pool.blockSize

PrivatePool(inst, machine) ==
  PrefixPool(machine.storage, IF machine.storage = "CPU" THEN machine.cpuMem[inst.node] ELSE machine.cxlMem,
             inst.set.block, ChunkTokens, RoundedPerToken(inst))

HasStorage(inst, machine) == inst.set.caching /\ machine.storage # "None"

StorageBuilds(inst, machine, pools) ==
  HasStorage(inst, machine) =>
    IF pools # << >> THEN AcceptsPool(inst, pools[PoolIdOf(inst, machine)])
    ELSE PrivatePool(inst, machine).numBlocks >= 1

StorageOf(inst, machine, pools) ==
  CASE ~HasStorage(inst, machine) -> NoPool
    [] pools # << >>              -> pools[PoolIdOf(inst, machine)]
    [] OTHER                      -> PrivatePool(inst, machine)
=============================================================================
