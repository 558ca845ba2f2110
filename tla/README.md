# A verification project for GRServingSim

The repository holds two simulators. LLMServingSim (`src/serving`) serves LLM
requests on simulated NPUs: a Python frontend with a vLLM-like scheduler, and
ASTRA-Sim as the back end that runs each batch. GR (`src/serving/gr`) serves
generative-recommendation requests over a tiered cache of user histories. A
profiler (`src/profiler`) measures the layer times both read. These modules
model the control of all three. TLC checks small instances; TLAPS proves the
central properties of the KV cache manager, of an instance's scheduler, of a
prefill/decode pair, of the way from batches to graphs, of GR's server and of the
profiler's sessions for every size. `PROJECT.json` ties
every definition to source lines, every property to a run, every hazard to the
properties that would catch it, and every property to a change of the model that
breaks it.

Contents: 1 the system, 2 the modules, 3 state and actions against the code,
4 runs and bounds, 5 fairness, 6 properties, 7 proofs, 8 what is not modelled,
9 where code and text disagree, 10 the plan.

## 1. The system

The frontend (`serving/__main__.py`) runs one loop. It reads a report from
ASTRA-Sim ("NPU n ended workload i, at this cycle"), completes the batch that is
over, asks the instance's scheduler for the next one, writes a trace and a graph
for it, and answers with a workload, `pass`, `done` or `exit`. Everything in
Python is single-threaded. What interleaves is the *order of reports*, the
arrival of requests, the members of a data-parallel (DP) group and, with
pipeline parallelism, several batches in flight.

| Part | State | Operations | Talks to | Hard because | Correct when |
|---|---|---|---|---|---|
| Block pool, `core/block_pool.py` | `ref_cnt` and hash per block, hash index, free list (LRU) | `get_new_blocks`, `touch`, `free_blocks`, `cache_full_blocks`, `cache_copy` | manager | freed blocks stay findable; two blocks under one hash | free list = unheld blocks; index never lies; counts = holders |
| KV cache manager, `core/kv_cache_manager.py` | `req_to_blocks`, `num_cached_block`, a pool per tier | `get_computed_blocks`, `allocate_slots`, `cache_blocks`, `free`, `preempt` | pools, scheduler | hits over three tiers, recall, write-through of coarse blocks, all-or-nothing allocation | a table holds its request's own prefix, as long as its grant; nothing raises half-way |
| Scheduler, `core/scheduler.py` | `waiting`, `running`, `inflight`, `done`; counters of each request | `add_request`, `schedule`, `add_done`, `add_decode` | manager, router, loop | preemption inside a step; counters ahead of completion; a request in several batches | each batch once; first come first served; every request finishes |
| Router, `core/router.py` | pending list, sessions, round-robin counters | route arrivals, release a session's next sub-request, transfer to decode | schedulers | insertion into a list that is being consumed | each request routed once, a session in order |
| Loop and DP barrier, `__main__.py`, `core/controller.py` | clock, `dp_pending`, `dp_ready_workloads`, done sets | complete, schedule, join or open a round, dummies, answer | everything | rounds others complete; suppressed questions; deciding the end | nobody waits for ever; batches in order on every NPU |
| P/D disaggregation | a prefill and decode instances | `transfer_prefill_request`, `add_decode` | two schedulers | nothing holds back the prefill side | one side holds a request, its whole prompt has been sent |
| Configuration, `core/config_builder.py` | none (start-up) | infer degrees, place NPUs, size topology, memories, placement rules | loop, ASTRA-Sim files | products over instances, groups, stages | every rank exists; a collective joins whom it should; memory is not overbooked |
| Memory model, `core/memory_model.py` | block counts | weights and KV bytes, shared-pool checks | pools | two computations of the same bytes | pools fit, equal sharers are accepted |
| Trace and graph generation, `core/trace_generator.py`, `core/graph_generator.py`, `core/pim_model.py`, `core/gate_function.py` | profile tables, cache of converted graphs, folders | batch to rows to graph files | loop, Chakra's converter | interpolation, block copies, halves, stages, cache keys | a graph is the trace of its batch; stages are the model once; energy is the trace's |
| Power model, `core/power_model.py` | energy sums | add energy | trace generation, loop | charged on another path than the rows | equals the rows |
| GR, `serving/gr/` | LRU-K tiers of histories, one server, FCFS queue | plan, commit, serve | own cost model | a plan is made when a service starts and committed when it ends | capacity kept, snapshots whole and current, a request's work done |
| Profiler, `profiler/core/` | CSV files, `meta.yaml` | sessions: categories, skew sweep, fit | simulator reads the files | sessions stop and resume over degrees of tensor parallelism | no measurement lost or left out; the fit is found again |
| ASTRA-Sim | external (an empty submodule) | runs workloads | loop | order of reports | - |
| `bench/`, `workloads/`, `profiler/v0`, logging | offline tools, output | - | - | - | - |

## 2. Modules

| Module | What it is | Code |
|---|---|---|
| `Queues` | lists out of whose middle elements are taken | `core/block_pool.py`, `core/scheduler.py` |
| `BlockPool` | one tier's pool as operators on a record | `core/block_pool.py` |
| `BlockHashes` | the chained hashes of a request's blocks | `core/kv_cache_manager.py` |
| `KVCache` | the manager as operators on pools and tables | `core/kv_cache_manager.py` |
| `KVCacheManager` | the manager under its *most general* caller: the abstract specification of what it promises | the contract `core/scheduler.py` keeps |
| `Scheduler` | one instance in full: scheduler, handshakes, its NPUs | `core/scheduler.py`, loop of `__main__.py` |
| `SchedulerRefines` | the instance as a caller of `KVCacheManager`: the refinement mapping | - |
| `PrefillDecode` | two `Scheduler`s that share the requests | `add_done`, `add_decode`, transfer |
| `Router` | pending list, sessions and policies as operators | `core/router.py` |
| `Frontend` | the loop over all instances, with the DP barrier and ASTRA-Sim | `__main__.py`; extends `ClusterTables`, `Router` |
| `ClusterTables`, `MemorySetup`, `ClusterConfig` | reading a cluster description; its memories and pools; the start-up as a machine | `core/config_builder.py`, start of `__main__.py` |
| `MemoryModel` | bytes of weights, KV and blocks | `core/memory_model.py` |
| `Placement` | placement rules and their lookup | `core/config_builder.py` |
| `Fractions`, `SkewLookup`, `ProfileLookup` | exact arithmetic, the skew correction, tables and interpolation | `core/trace_generator.py` |
| `GateRouting` | tokens per expert and rank | `core/gate_function.py` |
| `LayerTrace`, `PowerCharges` | rows of a batch; what each emitter charges | `core/trace_generator.py`, `core/power_model.py` |
| `GraphCache`, `BatchPipeline` | converted graphs and their cache; batches to graphs as a machine | `core/graph_generator.py`, call sites in the loop |
| `LruKCache`, `GRStages`, `GRSimulator` | a tier's cache, the stages of a request, the server | `gr/cache.py`, `gr/scheduler.py`, `gr/model.py`, `gr/trace.py`, `gr/simulator.py` |
| `ProfileGrids`, `AlphaFit`, `ProfileSweep`, `FitReadBack` | shots and their feasibility, the skew fit, sessions over files that may stop; sessions and the simulator's lookup together | `profiler/core/` |
| `MC...` | the small instances TLC checks | - |
| `QueueLemmas` | lemmas on numbers, sequences and queues that all other proofs use | - |
| `KVCacheProofs`, `KVCacheManagerProofs` | lemmas on the operations of pools and of the manager, and on what a caller knows; the manager's theorems | - |
| `SchedulerProofs` | the scheduler's theorems, and its refinement of `KVCacheManager` | - |
| `PrefillDecodeProofs` | what each side's steps keep; the theorems of the pair | - |
| `GRSimulatorProofs` | sums of bytes, histories, one tier, the operators of a stage; the server's theorems | - |
| `MainLoopProofs` | what becomes of a scheduled batch: the cache of graphs, files of a folder, rounds; then the barrier, the handover and the NPUs' logs; the theorems of `BatchPipeline` and `Frontend` | - |
| `ProfileSweepProofs` | what is in memory against what is on the disk; the sessions' theorems | - |

How they compose. `Scheduler` is shown to be a caller of the manager by a
refinement, `KeepsManagerContract == Manager!Spec`, with `granted` mapped to
what the step in progress has scheduled and `gone` to the finished requests: so
what is checked and proved of `KVCacheManager` holds inside an instance.
`PrefillDecode` instantiates `Scheduler` twice over one set of requests.
`Frontend` takes its clusters from `ClusterTables` and abstracts each scheduler
to one whose blocks and budget never run out, since `Scheduler` has those in
full: a request is in one batch at most and each pass yields a token.
`BatchPipeline` starts where the loop calls the generators, so the batches are
its input. `FitReadBack` extends `ProfileSweep` by the simulator's own lookup
(`SkewLookup`, instantiated with the files on the profiler's disk).

## 3. State and actions

**Manager.** The linked free list is the sequence it represents, next victim
first. A hash stands for the token prefix it is computed from: the code chains
hashes, so equal prefixes, and only they, have equal hashes; `Chain[r][i]` is
that of the i-th block of request r. A missing entry and an empty list of
`req_to_blocks` behave alike and are both the empty table; a missing
`num_cached_block` entry is `Untracked`. Exceptions are not actions: that none
can be raised is `NeverRaises`. `Kept` (a subsequence) is written with ranks
because the prover has no `SelectSeq`; an assumption of `MCKVCacheManager`
compares the two on all small sequences.

**Scheduler.** A report is one action (`HandBack` from an NPU that ended a
workload, `Poll` from one that had none). The handshake it starts runs to its
end before the next report; `step.at` is its program counter (`complete` is the
loop of `add_done`, `handover` the transfer, `schedule` the early returns,
`running` and `waiting` the two phases, `build` is `_build_batch`), and each turn
of a loop of the code is an action with the loop's locals in `step`. Request ids
are in arrival order.

**Frontend.** One turn answers one report (`Report`, `Ask`): route what has
arrived, complete the batch that is over, notify the router, hand over finished
prefills, then find the NPU something to run: the graph it is owed, a batch to
join, a new batch, a dummy for its group. The answer is one action, as the code
between two reports is straight-line. ASTRA-Sim is external: an NPU ends a
workload after its peers in its stage and its group were given it and after the
stage before it ended it; after `pass` it asks again only when its deadline comes
or another NPU reports, as the docstring of `_pass_response` says. `Tick`
advances the clock, which is watched only while an arrival is still to come.

**ClusterConfig.** Start-up in the order of the code: `AddInstance` (the loop of
the builder), `ResolveCluster`, `BuildPools`, `BuildScheduler`. **BatchPipeline.**
`ServeBatch` for an independent instance, `ServeRound` for a padded DP round,
`Refuse` where `generate_trace` raises. **GRSimulator.** Arrivals queue, a
service plans at its start, its stages run, and the plan is committed at its
end. **ProfileSweep.** A session is a set of jobs, each with its place in the
loops of the command (`at`), done in that order; a file is there or not, and its
rows are a function of their keys. Rows are collected in memory
and written at the end of a category or every `SaveEvery` skew cases; `Stop` may
come between any two steps, and leaves a file that is being written empty.

## 4. Runs and bounds

All runs but the last four must pass. States are distinct ones.

| Run | Instance | States | Question |
|---|---|---|---|
| `KVCacheManager` | 3 requests with shared prefixes, 3 NPU blocks, a tier of 1 coarse block and one of 2 fine ones | 71,436 | is every promise kept under every caller? |
| `Scheduler` | 5 requests with shared prefixes, 2 NPUs, 2 batches in flight, 6 blocks, host tier of 2 coarse blocks, budget 6, cap 4, caching | 11,672 | reports in any order, preemption of what is in flight, recall at admission and resumption, no leak; refinement; liveness |
| `PrefillDecode` | 4 requests, 3 prefill blocks (1 stage, no caching), 7 decode blocks (2 stages, caching) | 7,969 | handover while both sides preempt and the decode side finds prefixes again, or raise |
| `Frontend` | `DpStages` 2 members of 2 stages, `DpRanks` 2 of 2 ranks, `DpTrio` 3 members, `PdPair` 1 prefill and 2 decode, `Agents` sessions and a flat request | 142,718 | order of batches, sessions, the end of the run |
| `ClusterConfig` | all clusters of at most 3 instances over partial, disaggregated and grouped descriptions, and over 2 nodes with CPU, CXL, shared or private pools | 132,021 | does the topology have a place for everybody, is a pool accepted by those it is built for? |
| `BatchPipeline` | 15 configurations (stages, MoE, placement, offloading, interleaving, P/D, TPU), 5 blocks; 4 batches or 3 rounds of 2 instances where the cache matters | 1,381 | graph = trace = batch; stages; halves; places; energy; monotone times |
| `GRSimulator` | 4 requests of 3 users over 3 tiers, LRU-1 and LRU-2, gaps of 0, 3, 8, 30 | 250,436 | are plans still valid when they are committed? |
| `Profiler` | 10 histories of sessions over degrees 1, 2, 4, a save every 2 cases, one failing case | 87,154 | does every measurement survive, what is left out, and does the simulator find it? |
| `Scheduler_uncapped_recall`, `Frontend_lost_wakeup`, `PrefillDecode_two_stages`, `Profiler_hidden_shots` | - | - | what the text says and the code does not do (section 9) |

**Bounds.** No run has a state constraint. Requests have finite outputs and
preemption returns them to a state seen before, so `Scheduler` and
`PrefillDecode` are finite as they are; in `Frontend` the workload is finite. The
named bounds: `NpuIds` (NPUs a scenario may have), `MaxInstances` (of a cluster),
`last` (batches of a scenario), `MaxFailures` (failing cases of a session), the
lengths of workloads and session lists. `MaxSeen` and `MaxBytes` are no bounds of
the model but the code's own limits on its cache of graphs (`_ET_SEEN_MAX`,
`_ET_CACHE_MAX_BYTES` of `graph_generator.py`), small enough to be reached.

Why they are enough. Counts of holders from 0 to 3 occur; two tiers show "first
tier that is worth it"; pools of 3 and 4 blocks for requests that need up to 3
make allocation fail, evict and preempt in most states, and larger pools only
make these rarer. Each request must fit the pool on its own
(`SchedulerAssumption`): one that does not preempts itself for ever, and the
code leaves its rejection to whoever writes the trace. In `Scheduler` no
length reached is a multiple of the coarse block, which keeps out the defect
`Scheduler_uncapped_recall` shows. A DP group of three is the least in which a
dummy does not complete its round. Five blocks over 1, 2, 3 and 5 stages give
every kind of remainder. Three degrees of tensor parallelism are the least in
which one that is not 1 can lag behind another. The ten histories widen a grid, resume,
reorder the degrees, measure one degree or one category on its own, and force;
two of them leave shots out (section 9).

**CHECK_DEADLOCK FALSE** is said only where the system stops: a raise in
`add_decode` ends the run (`PrefillDecode`), a cluster is built once
(`ClusterConfig`), the loop exits (`Frontend`), the workload ends
(`GRSimulator`), a scenario's batches are used up (`BatchPipeline`), the user
starts no further session (`Profiler`). The scheduler and manager runs check it.

## 5. Fairness

`FairSpec` (`Scheduler`). A handshake is straight-line code, so it ends: weak
fairness of `InStep`, with its `ENABLED` written out (`InStep` is enabled whenever
the loop is inside a handshake, which deadlock checking confirms). The trace is
handed over to its end (`SF(AddRequest)`), and ASTRA-Sim reports for each NPU
again and again (`SF(HandBack)`, `SF(Poll)`): the loop blocks on its reports, and
an idle NPU polls. Strong fairness is needed because both are disabled during
each handshake. Nothing is assumed of the scheduler, which makes no choices.

`FairPairSpec` (`PrefillDecode`): the same for both, and the transfer, straight-line
too, takes place. The weak fairness of the steps is again spelled out with its
`ENABLED`: a step of the prefill side can be taken unless it is idle or about to
hand over, one of the decode side unless it is idle or has raised, and neither
where its scheduler is `Stranded`, which is where `schedule` raises.

`FairLoopSpec` (`Frontend`): every report is answered, time passes while an
arrival is awaited, and ASTRA-Sim goes round its NPUs: none stays able to
report, or open to ask, for ever without its turn. It is weak fairness of
`Report(n)` and `Ask(n)`, each taken as one step with its answer. A *held* NPU
gets no turn by fairness: whether it is asked again is what the run shows.

The other machines have safety properties only.

## 6. Properties, by hazard

- *A pool at its limit, eviction and sharing.* `NpuPoolOK`, `RefCountIsSharers`,
  `PinnedKeepsContent` (a held block keeps its content through every step),
  `NeverRaises` (also: a full lower tier always has a victim), `NothingLeaked`.
- *Whose content, how much.* `TableHoldsOwnPrefix`, `TableCoversGrant`,
  `WrittenDown` (with write-through, what is indexed above is below).
- *Several batches in flight.* `EachBatchOnce` (no batch dropped before its last
  NPU ran it; no position scheduled twice), `QueuesMatchStatus`,
  `TokenFromInFlight` (no token without a batch in flight that computes the position
  before it), `KeepsManagerContract`. That no position is scheduled twice
  is claimed of the checked instance: a preempted request starts again from 0,
  and only timing keeps its old batch from being in flight still.
- *Progress under preemption.* `OldestNeverPreempted`, `EveryRequestFinishes`.
- *Handover.* `ShipsWholePrompt`, `PrefillLetsGo`, `BlocksOnOneSide` (blocks are held on
  one side at a time, and come back on both, also when a hit has been counted twice),
  `ServedOrRaised`.
- *Barrier, sessions, end of the run.* `RunInOrder` (every NPU runs its instance's
  batches in order, and those who meet in a collective run the same one),
  `SessionsInOrder`, `DoneMeansDone`, `RunEnds`.
- *Start-up arithmetic.* `UniformTopologyFits`, `SharersAreAccepted` (a pool sized for the
  first sharer is accepted by all of them, who size it again).
- *From batch to graph.* `GraphIsTheTrace`, `StagesPartitionModel` (each block in one
  stage; what a stage loads is what the memory model charged, up to one block where
  blocks are left over),
  `HalvesRunAsAlone`, `WeightsComeFromTheirPlace`, `PowerIsTheTrace`,
  `MoreWorkIsNotFaster`.
- *A plan that is committed later.* `NeverOverfull`, `SnapshotIsLatest`,
  `AdmitsByRecency` (against a definition of LRU-K over the whole history),
  `StagesDoTheWork`.
- *Crash and resume.* `OnlyHiddenGaps` (whatever is left out hides behind a row
  replicated from degree 1; `SessionLeavesNoGap`, which allows nothing to be left out,
  is what `Profiler_hidden_shots` refutes), `StopLosesLittle`, `RowsSurvive` (a stop
  costs at most the one file that is being rewritten),
  `UniformShotsFit`, `FitIsFound`.

## 7. What is proved

All theorems hold for every value of the constants that satisfies the named
assumptions (`HashAssumption`, `KVAssumption`, `LengthAssumption`,
`SchedulerAssumption`): any number of requests, blocks, tiers, NPUs, any block
size, hash chains and budgets. `PairAssumption` says the same of both instances
of a pair. `LruKAssumption`, `GRStagesAssumption` and `GRAssumption` type the
configuration and the workloads of GR: any users, requests, capacities, K, layers,
vocabularies and durations, at most one tier per memory location, as
`build_configs` has it. `PipelineAssumption` and `GraphCacheAssumption` say that
instances are numbered, degrees of parallelism and the limits of the cache positive.
`PlacedAssumption` says of the clusters of `Frontend` what `build_cluster_config`
builds: instances of at least one NPU share the NPUs of the cluster out.
`SessionsAssumption` is what the profiler's command line enforces (a list of degrees
that contains 1, a known group), `SaveAssumption` that the save period is positive,
`EngineAssumption` that an engine has room for one request of a token and its
answer: any catalog, grid, engine, degrees and histories of sessions.

| Theorem | States | Where |
|---|---|---|
| `NpuPoolIsOK`, `RefCountsAreSharers`, `TablesCoverGrants`, `TablesHoldOwnPrefix`, `NothingEverRaises` | `Spec => []` of `NpuPoolOK`, `RefCountIsSharers`, `TableCoversGrant`, `TableHoldsOwnPrefix`, `NeverRaises` | `KVCacheManagerProofs` |
| `HeldBlocksKeepContent`, `WritesAreThrough` | the action properties `PinnedKeepsContent`, `WrittenDown` | `KVCacheManagerProofs` |
| `QueuesAreInOrder`, `EverythingComesBack` | `Spec => []` of `QueuesMatchStatus`, `NothingLeaked` | `SchedulerProofs` |
| `OldestStays` | the action property `OldestNeverPreempted` | `SchedulerProofs` |
| `TokensInFlight` | the action property `TokenFromInFlight` | `SchedulerProofs` |
| `BatchesRunOnce` | `Spec => []EachBatchOnce`, while the back end keeps the order of the stages (`[]InStages`) and nothing is preempted | `SchedulerProofs` |
| `TwoNpusLoseNothing` | `Spec => []NoBatchLost`, for at most two NPUs | `SchedulerProofs` |
| `KeepsContract` | `Spec => KeepsManagerContract`: an instance implements the manager's specification | `SchedulerProofs` |
| `LetsGo` | `PairSpec => []PrefillLetsGo`, for `PrefillStages = 1` | `PrefillDecodeProofs` |
| `ShipsAll` | `PairSpec => []ShipsWholePrompt`, for `PrefillStages = 1` and no prefix cache on the prefill side | `PrefillDecodeProofs` |
| `HeldOnOneSide` | `PairSpec => []OneSide`, the first half of `BlocksOnOneSide`, for `PrefillStages = 1` | `PrefillDecodeProofs` |
| `TiersNeverOverfull`, `SnapshotsAreLatest` | `GRSpec => []` of `NeverOverfull`, `SnapshotIsLatest` | `GRSimulatorProofs` |
| `ServicesAdmitByRecency` | the action property `AdmitsByRecency` | `GRSimulatorProofs` |
| `GraphsAreTheTraces` | `Spec => []GraphIsTheTrace` | `MainLoopProofs` |
| `BatchesRunInOrder` | `LoopSpec => []RunInOrder` | `MainLoopProofs` |
| `NoRowIsLost` | the action property `RowsSurvive` | `ProfileSweepProofs` |
| `LittleIsLost`, `ShotsAreFeasible` | `Spec => []` of `StopLosesLittle`, `UniformShotsFit` | `ProfileSweepProofs` |

**The manager.** The argument is one inductive invariant, `Booked` of
`KVCacheProofs` (with types it is `IInv`, theorem `Inductive`). No promise is
inductive alone. That a claim of hits leaves enough free blocks needs: a block on
the free list is one nobody holds, and the blocks of a hit differ (`KVOK`: the
index is sound, a chain repeats nothing, counts are sharers); an empty table has
no `num_cached_block` entry, or the claim is not counted (`Tracked`); a request
that holds nothing has computed nothing (`Covered`, which contains
`TableCoversGrant`). That a table carries its own prefix needs that whatever is
shared is full and hashed (`Content`): else indexing one request's blocks would
name another's. That a write down never raises needs that nothing on a victim
tier is pinned (`Victims`).

The steps are proved of the *operations*, with the caller's knowledge as
parameters: `AdmitBooked`, `ExtendBooked`, `PreemptBooked`, `CompleteBooked`,
`FinishBooked` of `KVCacheProofs` say what each keeps of `Booked(kv, computed,
granted, live)`. `KVCacheManagerProofs` and `SchedulerProofs` use the same
lemmas, each with its own meaning of granted and live. Under them
is one lemma per operation of a pool, and one per operation of the manager.

**The scheduler.** `IInv` of `SchedulerProofs` is `Booked`, where *granted* is what
the step in progress has scheduled, and four parts. `InLine`: queues, statuses and
order of arrival. `RunningHold`: exactly the running requests hold blocks
(`EverythingComesBack` is this and `RefCountsAreSharers`). `Lengths`: nobody has
slots beyond what it has reached, nor reached its output, so a completion makes
one token and finishes at the right one. `StepFits`: each scheduled request runs,
once, from where it is, and at a turn of the running loop none of the batch is
still ahead: the victim taken from the tail is never in the batch being built.
`OldestStays` also uses that each request fits the pool alone
(`SchedulerAssumption`): when the queue is down to its head nothing else holds a
block.

`TokensInFlight` is about counters that run ahead: they move when a batch is built,
a preemption sets one back to 0, and an admission after it may set it beyond what any
old batch reaches. The invariant is `Backed`: if a batch in flight has work of a
request, then that batch or a later one takes the request to its counter, or the step
that is scheduling now is to do so. It is about *later* batches because only these
are still there when a batch is over, which rests on the batches being numbered in
order and marked by the NPUs that have reported (`InOrder`). `ToComplete` says that
the work still to be completed in a handshake belongs to one batch that has not been
dropped yet. A token is appended when the counter has reached what the request has,
so some batch in flight takes it there. That it is the batch *just reported* is false
with two stages (section 9).

`BatchesRunOnce` needs, of the batches in flight, that they are numbered in their order
and marked by just the NPUs that have reported them, and that whatever an NPU has
still to run is among them (`Numbered`). A batch is over when its first and last NPU
have ended it, so that one between them is not overtaken rests on the order in
which ASTRA-Sim runs the stages. The model leaves that open (beyond "not before the
first"), and the theorem assumes it: no NPU lags behind *both* ends (`InStages`).
Without it the statement is false for three NPUs. With two it holds by itself
(`TwoNpusInStages`). That no position is in two batches is inductive with `Behind`,
no batch in flight goes beyond the counters, as long as counters only rise
(`CountersRise`); a preemption in flight sets one back, and then it is false, hence
the hypothesis `[][~PreemptTail]_vars`.

**The refinement.** `NextIsManagers`: each action of `Scheduler` maps to one of
`KVCacheManager` (an admission to `Admit`, a scheduled running request to
`Extend`, a victim to `Preempt`, a batch at its build to `Advance`, the completion
of an item to `Complete` or `Finish`) or to a stutter.
The operators of the instance are the module's own (the `Same...` lemmas), since
both extend `KVCache` over the same constants; so every theorem of
`KVCacheManagerProofs` holds of `kv` in an instance under the mapping.

**The pair.** The two sides share the fields of a request, so neither side's
invariant is inductive in the pair: what has to be known is that a step of one
side touches no request of the other. `PHas` and `DHas` are the requests a side
can still touch (queues, batches in flight, the step in progress); each of its
steps keeps its types, adds nothing to them and changes the fields of nothing
else (`PStays`, `DStays`, one lemma per action). The
inductive invariant `PairInv` (theorem `PairInductive`) says that the two sets are
disjoint (`Apart`), and of the prefill side that it serves in order of arrival
(`InLine`), that what is handed over has left its queues (`Handing`), that its one
batch is over before anything is handed over or scheduled (`OneBatch`), and that a
victim is not in the batch being formed (`Forming`). The last two are what one
stage gives: with two the older chunk's completion hands a request over while
its last chunk is in flight, which is the run `PrefillDecode_two_stages`.
`LetsGo` follows from `Apart`. `ShipsAll` adds `Sending`: tokens sent are at least
the tokens computed or in the batch, so the whole prompt once it has caught up.
A hit is not sent (section 9), hence no prefix cache on that side. `HeldOnOneSide`
adds to `PairInv` that on either side only running requests hold blocks (`PHolds`,
`DHolds`): a handover frees a request's blocks before the other side allocates, a
preemption takes a request from the running ones with its blocks, and each call of the
manager changes the table of its own request only (`Alters`), however many blocks it
evicts or finds. No hypothesis is made of the decode side's stages, the blocks of
either pool, or the caches.

**GR's server.** `GRInv` (theorem `TiersInductive`) says of the histories that no
two users share a reference and none has more than K (`HistoryOK`), of a tier
that its account is the sum of what it holds, within its capacity, and that
whoever it holds has K references (`TierOK`), and of the plans in flight that
their victims are held, are not the user's own entry, and make enough room
(`PlanOK`). The last is what a commit needs and why `NeverOverfull` is not
inductive alone: arrivals observed during a service change the recency the plan
was made from, and only the tiers, which nobody else commits to, stay as they
were. `Later` is all that observing does to a history; having K references is
never lost. `ServicesAdmitByRecency` compares two descriptions: the code walks the
candidates in the order of their priorities and stops when there is room, which
the model has as the shortest prefix of `Coldest`; LRU-K is stated over sets.
`Ranked` connects them: priorities differ, so the n-th candidate is the one with
n - 1 colder ones (`ColdestProperties`), and every prefix is the set of those
colder than the next.

`SnapshotInv` adds, of the service in flight, that what a plan writes and what it
builds on make up the whole snapshot (`Completes`; a local hit is a copy of just
the request's history, whole by `SnapshotIsLatest` itself), and that nothing has been
sent while the publishing stage is ahead, and everything since (`Progress`). That
one stage publishes (`StagesPublishOnce`), and to each tier just its plan's bytes
(`StagePublishes`), is proved of the operators the trace generator emits: bytes are
counted along sequences of operators (`PublishingJoin`, `PublishingFlat`), and tiers
have different locations.

**From batch to graph.** `GraphInv` (theorem `GraphsInductive`) says that an entry of
the cache holds what the trace of its key is converted to (`Faithful`), that the
folders of batches and rounds to come are empty (`Free`), and that each order
handed over finds its graphs on the disk. The second is what the cache needs: the
code takes the files that are *new* in the folder for the graph to keep, which
is the whole graph only because nothing was there before (`FreshIsConverted`), and an
old folder's graphs stay because no later order names a file of it. Members of a
round share a folder, so that this also needs that their NPUs are disjoint
(`InstancesApart`). Nothing is assumed of what a trace is, which is why the emitters
of `LayerTrace` are not opened.

**From graph to NPU.** `LoopInv` (theorem `FrontendInductive`) counts. What an NPU has
run, followed by what it is owed, are the batches 0, 1, ... of its instance (`NpuOK`):
`RunInOrder` is its first half, and cannot be kept alone, since a handover runs what a
round decided long before. The barrier splits an instance's batches at a number
(`Due`): those below it have been through a round and have their name, those from it
on are exactly the pending ones (`PendingOK`). It is the same number for all members
of a group, so a round's name, which is taken from one of them, fits every
member's batch. A participant of a batch has run it or is owed it, or has opened
it and waits at the barrier with all before it run or owed (`BatchOK`); and only one
NPU of an instance has batches at the barrier (`BatchesOK`), which is why the graphs
that a round gives to the openers are the next one of each. `_schedule_existing`
gives an NPU the batch of its own number if it finds it in flight, and else it may
open a new one; that the new one is its next (`MayOpen`) needs that a batch no
longer in flight has been ended by the first and the last NPU (`NoneMissing`), and
hence run by everybody between them (`StagesOK`: what ASTRA-Sim's collectives are
assumed to do, `CanEnd`). Routing, handover between
instances and `add_done` change the queues only (`QueuesOnly`, `DoneAdded`); the other
actions have one lemma each (`HandOverOK` to `TickOK`).

**The profiler's sessions.** Every flush rewrites a whole file, so a row survives
only if what is in memory contains it. `RowsInv` (theorem `SweepInductive`) relates
the two. A category that is open without `--force` has in memory all rows of its file
as they are there, and no shot to fire that one of them is of (`SinkKeeps`): a row
fired has a key the file has not. A skew sweep has in memory what it has saved
and what it has fired since, and no case to fire that either has (`SweepKeeps`).
Both need that nothing else writes the file while they are open, which is that a
category or a sweep is open only while it is the job to be done (`Working`). A fit
and a replication write files of other names or other degrees, and the replication,
which does change rows, changes those of stable layers only. `LittleIsLost`
counts. A save is due at the multiples of `SaveEvery`, but a case that fails is
counted and skips the save that would be due, so the number of unsaved rows is not
bounded by `SaveEvery`: it is at most `fired % SaveEvery` for the current period
and `SaveEvery` for each case that has failed in this sweep (`LossInv`). The
failures are those no longer to be fired (`Gone`); a warning that an earlier sweep
of the session left for a case still to come would else count twice.
`ShotsAreFeasible` compares two computations. The filter of the grid rounds contexts
up to blocks and multiplies; the worker adds up the blocks of one request after the
other. Every shot is a first request and decodes of one context (`Listed`), so the
sum is the product (`SumOfShot`), and a block is charged for every one that is taken
(`ShotAddsUp`). For the experts, K in a row modulo E are K different ones
(`RowOfExperts`), and n tokens reach all E when E <= nK (`ReachesAll`).

**How data is handled.** Nothing is proved by an induction scheme over data.
A loop that changes state as it goes (write-through) is a recursive function over
positions, and what it keeps is shown by the least position at which it would
fail (`LeastElement`); a search (NPU hits, the first tier that is worth it) is the
least place or the longest run. A fold of the community modules is the value that
a recursion over subsets chooses; that there is one (`RecursionExists`) is proved
from finiteness, and what it computes by the same least position (`BytesSplit`,
`PublishedConcat`, `Flattened`, `SumOfShot`). `Kept`, the subsequence that
`Without` and `DropBatch` are, is written with ranks, as the provers have no
`SelectSeq`; `Sent` is a function over the requests, as a step schedules a request
at most once.

**Only model-checked**, and why. `EachBatchOnce` without the hypotheses of
`BatchesRunOnce`, which the code does not establish. The theorems of the pair without
their hypotheses are false. The second half of `BlocksOnOneSide` (when all is served
both pools are whole), which needs the books of both managers. `DoneMeansDone` of `Frontend`: false for some constants (section
9). The properties of `ClusterConfig`, those of `BatchPipeline` but
`GraphIsTheTrace`, and `StagesDoTheWork` of `GRSimulator`, compare sums over
tables whose terms are products and quotients of sizes. `SessionsInOrder` of
`Frontend` speaks of what the folds of `Router` have put into its queues. `OnlyHiddenGaps`
follows each shot through the loops of several sessions. `FitIsFound` depends on sorted
axes. Every liveness property, and the fairness part of any formula.

## 8. Not modelled

- *Manager and scheduler*: byte counts of recalls and write-through, metrics,
  time stamps; `reset()` of a pool, which runs when the run is over.
- *Frontend*: budgets, blocks, caching, several batches of one request (they are
  in `Scheduler` and `PrefillDecode`); padding (in `BatchPipeline`); the RAND and
  CUSTOM policies; power and standby accounting; periodic reports; the pipe
  protocol; the path without a dataset.
- *Configuration and memory*: bandwidths and latencies, checks of power
  settings, the files written for ASTRA-Sim; functions nothing calls
  (`allocate`, `free`, `is_avail`, `get_total_kv`, `pd_kv_bytes`).
- *Traces*: the dimension suffix of collectives, RAND and CUSTOM routing, text
  files and their loading, floating-point noise (times are fractions or rounded
  integers), watts, joules per byte and time series of the power model.
- *GR*: coefficients of FLOPs and bandwidth (a stage takes any of a set of
  durations), dependencies inside a stage, write amplification, summary
  statistics, processes, command line, generator of workloads.
- *Profiler*: the timing itself and the least-squares arithmetic (the fitted
  alpha is stood for by the cases it was fitted to), files cut in the middle,
  booting the engine, fields of `meta.yaml` other than `skew_fit`.
- *Not at all*: `bench/`, `workloads/`, `profiler/v0`, logging: offline tools that
  run on real hardware, plots, dataset conversion; nothing of their state is
  shared with the simulator but the CSV files it reads.

## 9. Where code and text disagree

With a run that stops at the disagreement, and an entry under `findings`:

- `Scheduler_uncapped_recall`: the NPU hit is capped one token short of the
  length, the lower-tier hit is not; a request whose length is a multiple of the
  tier's block has nothing left to schedule, at the head of the queue.
- `Frontend_lost_wakeup`: a session whose tool answers at once
  (`tool_duration_ns` 0, the default) leaves its only instance held for ever.
- `PrefillDecode_two_stages`: a prefill instance with two stages hands a request
  over while its last chunk is in flight: the completion of the chunk before credits
  the token of the last one. The decode instance then runs a request that is still
  in a batch of the prefill side, contrary to the comment at `scheduler.py:427-430`.
- `Profiler_hidden_shots`: a shot is "already there" when a row of *any* layer is
  (`writer.py:155` drops the layer), and rows replicated from degree 1 count. After
  `slice --tp 1 --group dense` and then the full `profile --tp 1,2`, the layers of
  degree 2 that are its own are never measured, though `running.md:114-118` and
  `runner.py:98-100` have it that only what is there is left out. The same comes of
  widening degree 1 before degree 2 (`--tp 1` wide, `--tp 1,2` narrow, then wide).

Without a run; the passing runs are set up to stay clear of them where they
would meet them, and the constants that reproduce them are given.

*Scheduler and handover.* Blocks are indexed when a step is scheduled, not when
it has been computed (`kv_cache_manager.py:283` against :48-49). What
`PrefillDecode_two_stages` shows of a pair happens to a plain instance with two stages
too: the completion of an earlier chunk credits the token of the last one while that
one is still in flight (in `Scheduler.cfg`, where `PPSize = 2`: require in
`TokenFromInFlight` that the work which reaches the position is the one being
completed, `w = Head(step.todo)`; against "A token is produced exactly when the request
has caught up", `scheduler.py:427-430`, and `reading-output.md:305`).
Without chunked prefill a preempted request that has outgrown the budget is
refused at every later step (`EveryRequestFinishes` with
`EnableChunkedPrefill = FALSE`; `prefix-caching.md:151`, `__main__.py:278`). A hit on
the prefill side is not sent (`scheduler.py:312-316`; `ShipsWholePrompt` with
`PrefillCaching = TRUE` and a shared prompt). `add_decode` counts a hit twice,
once in the prompt and once in `num_computed_tokens`, so it takes more blocks than the
request needs, and raises "need more blocks than the pool has free" with room left (`scheduler.py:484-489`;
in `PrefillDecode.cfg` with `Prompt <- SharedPrompt` and `DecodeBlocks = 4`, when
the blocks found are held by nobody: three blocks would do, four are free, and it
raises); it ignores `max_num_seqs`. A second block indexed under a hash
leaves the older one hashed but unreachable (`block_pool.py:279`, harmless). A
one-token chunk is not counted as prompt (`scheduler.py:421`).

*Loop.* Sessions over a P/D pair never end the run: the last completion is on
the decode side (`MCFrontend!PdAgents`). With a plain instance beside a P/D pair a
decode instance may be told it is done too early (`MCFrontend!Mixed`,
`__main__.py:1135-1137`). The first token of a P/D request is not counted
(`EveryTokenCounted`; comment at `scheduler.py:409-414`). The leak check at the
end looks at the last instance only (`__main__.py:1146`). Two sessions with one
`session_id` overwrite each other. Setting the clock to the next arrival
(`__main__.py:1160-1163`) has no effect.

*Configuration and memory.* For instances that differ in size the topology may
miss NPUs (`TopologyHoldsEveryNpu`, `config_builder.py:241-247`; checked of uniform
clusters only). `get_weight` is not the "conservative upper bound" its docstring
says when stages do not divide the layers: a stage with a left-over block loads one
block more than was taken off the KV cache (`memory_model.py:158-170`;
`StagesPartitionModel` with `LeftOver == 0`, 5 layers over 2 stages). It also leaves
out `qk_norm` and ignores placement. Private host pools each get the node's
whole CPU (or CXL) memory, so two instances with private pools on a node book it
twice (`kv-cache-and-memory.md:48-50`). The two computations
of a shared block's bytes differ by rounding, so that legitimate sharers can be
refused when the NPUs do not divide the bytes. `build_prefix_pool` rounds down,
its docstring says up. A node without instances raises for CPU pools. A layer
rule fills missing kinds from the default, not from the block rule
(`config_builder.py:645` against `get_device`). `cxl` without a number is
validated as `CXL:0` and written as `CXL`.

*Traces and power.* Interleaving recomputes the total of a half from its
requests: DP padding and `pd_kv_send_tokens` are lost, and the handover's energy
is charged for the first half only. The row of a KV load uses `kv_evict_loc`
(`trace_generator.py:1682`). Without block copying a MoE stage is emitted as one
block (`trace_generator.py:1419-1448` against `trace-generation.md:224-243`). With
stages, experts and EP > 1 the bytes of the last row of a stage are the rank's
share of tokens (docstring at 1565-1573), so `StagesPartitionModel` compares bytes
without EP only. BALANCED routing of few tokens over many ranks gives every rank
none. The weights of the prologue are charged unsharded to DRAM energy (1392); link
energy of stages lacks the bytes of an element (1362) and that of a handover is
charged twice: `PowerIsTheTrace` leaves these out. Standby energy is undercounted
when an idle gap is polled several times (`power_model.py:54-72` against
`power-model.md:47-53`).

*Profiler.* A file cut in
the middle hides missing layers likewise. `slice` without
`--force` fires nothing if the file is complete (`running.md:226`); `--force` wipes
only the files visited. "Previously completed shots stay cached" holds at the end
of a category only (`running.md:308-310`). The feasibility of a skew case "mirrors"
that of attention but charges fewer blocks than its decodes take. "Rewrite
atomically" (`skew.py:384`) truncates in place: a stop between the truncation and the
end of the write loses every row of the file, those of earlier sessions included
(`Stop` with `BeingWritten`; drop the first disjunct of `RowsSurvive`). An empty `skew.csv` makes the fit raise. The
20th case, if it fails, skips the save. A `--tp 1` session drops the fit of other
degrees from `meta.yaml`; a stop between the fit's table and `meta.yaml` leaves the
old axes with the new table. The refreshed replication a comment promises for
`slice` at degree 1 copies nothing with the default `--tp 1`.

## 10. The plan

Done so far, in this order: manager and scheduler with their proofs; router,
barrier, P/D; configuration and memory; traces, placement, power, graphs; GR; the
profiler; then the manager's remaining invariants, the scheduler's proofs and the
refinement between the two; then the proofs about the pair, GR's server, the
graphs, the batches of an instance, the profiler's sessions, and the order in which
NPUs run batches.

Next:

1. A model of ASTRA-Sim's stages (sends and receives between NPUs) that implies
   `InStages`, which `BatchesRunOnce` assumes.
2. Lemmas of `ClusterTables`: the places of NPUs are disjoint and without gaps, which
   would turn `PlacedAssumption` into a theorem.
3. A machine for the standby interval of the power model; one for the linked list
   refining the sequence.

The project keeps to twelve runs and forty property checks, so that all of it is
re-checked in reasonable time; a new property takes the place of a weaker one.
