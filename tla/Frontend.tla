------------------------------ MODULE Frontend ------------------------------
(***************************************************************************)
(* The loop of __main__.py over all instances: one turn is a handshake     *)
(* with ASTRA-Sim, which reports for one NPU (Report after a workload, Ask *)
(* when it has none) and gets one answer (Answer). A turn routes what has  *)
(* arrived, completes the batch that is over, tells the router, hands      *)
(* finished prefills over to a decode instance, and then finds the NPU     *)
(* something to run: the graph it is owed, a batch to join, a new batch, a *)
(* dummy for its DP group. Otherwise it passes, or the instance is told    *)
(* that the run is over.                                                   *)
(*                                                                         *)
(* The schedulers are abstract here (module Scheduler has them in full):   *)
(* the budget admits every prompt whole and blocks never run out, so a     *)
(* pass of a request yields one token and a request is in one batch in     *)
(* flight at most.  ASTRA-Sim is external; its suppression of questions is *)
(* the one the docstring of _pass_response describes.                      *)
(***************************************************************************)
EXTENDS ClusterTables, Router

CONSTANTS
  Scenarios,   (* [cluster: placed instances, rows: dataset, policy]        *)
  MaxNumSeqs,  (* max_num_seqs, of every instance                           *)
  NpuIds,      (* bound: the NPUs a scenario may have                       *)
  NoName       (* batch.workload_name is None                               *)

ASSUME FrontendAssumption == MaxNumSeqs \in Nat \ {0}

(* The instances share the NPUs of the cluster out between them (Place).   *)
ASSUME PlacedAssumption ==
  \A s \in Scenarios :
    LET insts == s.cluster
    IN  /\ insts \in Seq(ToSet(insts))
        /\ \A n \in 0..(TotalNpu(insts) - 1) : \E i \in DOMAIN insts : n \in NpusOf(insts[i])
        /\ \A i \in DOMAIN insts :
             /\ insts[i].start \in Nat /\ {insts[i].num_npus, insts[i].tp} \subseteq Nat \ {0}
             /\ NpusOf(insts[i]) \subseteq 0..(TotalNpu(insts) - 1)
             /\ \A j \in DOMAIN insts : i # j => NpusOf(insts[i]) \cap NpusOf(insts[j]) = {}

VARIABLES
  scenario,   (* what is run                                                *)
  clock,      (* the cycle ASTRA-Sim is at                                  *)
  core,       (* [router, sched, made, served, gen, finished]: the router,  *)
              (* instance -> scheduler, request -> output tokens it has,    *)
              (* requests done, total_gen, and finished_reqs of the turn    *)
  dpPending,  (* instance -> ids of its batches waiting for their round     *)
  dpReady,    (* NPU -> graphs it is owed (dp_ready_workloads)              *)
  done,       (* [inst, npus, prefill, exit]: done_instance,                *)
              (* done_inst_npus, is_prefill_done, and the loop is left      *)
  turn,       (* the NPU whose report is to be answered, if there is one    *)
  npu         (* NPU -> [mode, until, log, ended]: ASTRA-Sim's side; ended  *)
              (* is the iteration number it reports                         *)

loop == <<scenario, clock, core, dpPending, dpReady, done, turn, npu>>

Insts == scenario.cluster
Rows  == scenario.rows
Npus  == DOMAIN npu
Reqs  == Ids(Rows)
Output(r) == SubRequest(Rows, r).tokens
InstOf(n) == CHOOSE i \in DOMAIN Insts : n \in NpusOf(Insts[i])
GroupOf(i) == {j \in DOMAIN Insts : j = i \/ (Insts[j].dp = Insts[i].dp /\ Insts[i].dp # NoGroup)}
InGroup(i) == Insts[i].dp # NoGroup
Role(pd) == SelectSeq([i \in DOMAIN Insts |-> i], LAMBDA i : (Insts[i].pd = "decode") = (pd = "decode"))

NewScheduler == [waiting |-> << >>, running |-> << >>, inflight |-> << >>, nextId |-> 0]

LoopInit ==
  /\ scenario \in Scenarios
  /\ clock = 0
  /\ core = [router |-> LoadRequests(Rows), sched |-> [i \in DOMAIN Insts |-> NewScheduler],
             made |-> [r \in Reqs |-> 0], served |-> {}, gen |-> 0, finished |-> << >>]
  /\ dpPending = [i \in DOMAIN Insts |-> << >>]
  /\ npu = [n \in 0..(TotalNpu(Insts) - 1) |->
              [mode |-> "open", until |-> 0, log |-> << >>, ended |-> 0]]
  /\ dpReady = [n \in Npus |-> << >>]
  /\ turn = {}
  /\ done = [inst |-> {}, npus |-> [i \in DOMAIN Insts |-> {}], prefill |-> FALSE, exit |-> FALSE]

-----------------------------------------------------------------------------
(* route_arrived_requests; add_request keeps (arrival, id) order. *)
Insort(queue, req) ==
  InsertAt(queue, 1 + Cardinality({k \in DOMAIN queue :
      queue[k].arrival < req.arrival
      \/ (queue[k].arrival = req.arrival /\ queue[k].id < req.id)}), req)

RouteFirst(c) ==
  LET role   == Role("prefill")
      chosen == Select(scenario.policy, c.router, "prefill",
                       [k \in DOMAIN role |-> c.sched[role[k]]])
  IN  [c EXCEPT !.router.counter = chosen.counter,
                !.router.pending = Tail(@),
                !.sched[role[chosen.idx + 1]].waiting = Insort(@, FirstPending(c.router))]

Arrived(c) == SelectInSeq(c.router.pending, LAMBDA req : req.arrival > clock)

AfterRouting(c) ==
  FoldLeft(LAMBDA d, k : RouteFirst(d), c,
           SubSeq(c.router.pending, 1,
                  IF Arrived(c) = 0 THEN Len(c.router.pending) ELSE Arrived(c) - 1))

(* Routing changes the router and the waiting lists. *)
RouteArrived(c) ==
  LET d == AfterRouting(c)
  IN  [c EXCEPT !.router = d.router,
                !.sched = [i \in DOMAIN Insts |-> [@[i] EXCEPT !.waiting = d.sched[i].waiting]]]

(* add_done: the batch is over when the first and the last NPU of the      *)
(* instance have ended it.                                                 *)
Finishes(c, i, r) == Insts[i].pd = "prefill" \/ c.made[r] + 1 >= Output(r)

CompleteBatch(c, i, k) ==
  LET batch    == c.sched[i].inflight[k]
      finished == SelectSeq(batch.reqs, LAMBDA r : Finishes(c, i, r))
  IN  [c EXCEPT
        !.made = [r \in Reqs |-> IF r \in ToSet(batch.reqs) THEN @[r] + 1 ELSE @[r]],
        !.gen = IF Insts[i].pd = "prefill" THEN @ ELSE @ + Len(batch.reqs),
        !.sched[i].running = SelectSeq(@, LAMBDA r : r \notin ToSet(finished)),
        !.sched[i].inflight = RemoveAt(@, k),
        !.served = IF Insts[i].pd = "prefill" THEN @ ELSE @ \cup ToSet(finished),
        !.finished = finished]

AddDone(c, n) ==
  LET i       == InstOf(n)
      batches == {k \in DOMAIN c.sched[i].inflight : c.sched[i].inflight[k].id + 1 = npu[n].ended
                                                 /\ n \notin c.sched[i].inflight[k].ended}
      k       == CHOOSE k \in batches : TRUE
      marked  == [c EXCEPT !.sched[i].inflight[k].ended = @ \cup {n}]
  IN  IF batches = {} THEN c
      ELSE IF {Insts[i].start, LastOf(Insts[i])} \subseteq marked.sched[i].inflight[k].ended
           THEN CompleteBatch(marked, i, k)
           ELSE marked

(* notify_request_completed is for what has finished altogether;           *)
(* transfer_prefill_request and add_decode for what has finished prefill.  *)
NotifiesRouter(i) == Insts[i].pd # "prefill"

Notify(c, i) ==
  IF NotifiesRouter(i)
  THEN [c EXCEPT !.router =
          FoldLeft(LAMBDA router, r : NotifyCompleted(router, Rows, r, clock), @, c.finished)]
  ELSE c

TransferOne(c, r) ==
  LET role   == Role("decode")
      chosen == Select(scenario.policy, c.router, "decode",
                       [k \in DOMAIN role |-> c.sched[role[k]]])
  IN  [c EXCEPT !.router.counter = chosen.counter,
                !.sched[role[chosen.idx + 1]].running = Append(@, r)]

(* The handover changes the router and the running lists. *)
Transfer(c, i) ==
  LET d == FoldLeft(TransferOne, c, c.finished)
  IN  IF Insts[i].pd = "prefill"
      THEN [c EXCEPT !.router = d.router,
                     !.sched = [j \in DOMAIN Insts |-> [@[j] EXCEPT !.running = d.sched[j].running]]]
      ELSE c

-----------------------------------------------------------------------------
(* schedule and _schedule_existing. *)
Fired(batch) == ToSet(batch.fired)
JoinsNewest(c, n) ==  \* variant: the newest batch that the NPU has not run
  {k \in DOMAIN c.sched[InstOf(n)].inflight :
     /\ n \notin Fired(c.sched[InstOf(n)].inflight[k])
     /\ \A l \in DOMAIN c.sched[InstOf(n)].inflight :
          l > k => n \in Fired(c.sched[InstOf(n)].inflight[l])}

Joinable(c, n) ==
  {k \in DOMAIN c.sched[InstOf(n)].inflight :
     LET batch == c.sched[InstOf(n)].inflight[k] IN batch.id = npu[n].ended /\ n \notin Fired(batch)}

InFlight(s, r) == \E k \in DOMAIN s.inflight : r \in ToSet(s.inflight[k].reqs)
Admitted(s) ==
  [k \in 1..Min({Len(s.waiting), MaxNumSeqs - Len(s.running)}) |-> s.waiting[k].id]

Schedulable(s) == SelectSeq(s.running, LAMBDA r : ~InFlight(s, r)) \o Admitted(s)
HasRoom(s, i) == Len(s.inflight) < Insts[i].pp

CanBuild(c, n) ==
  LET i == InstOf(n)
  IN  n = Insts[i].start /\ HasRoom(c.sched[i], i) /\ Schedulable(c.sched[i]) # << >>

NewBatch(s, n, reqs) ==
  [id |-> s.nextId, reqs |-> reqs, fired |-> <<n>>, ended |-> {}, name |-> NoName]

Registered(s, batch) == [s EXCEPT !.inflight = Append(@, batch), !.nextId = @ + 1]

Opened(s, batch) ==
  [Registered(s, batch) EXCEPT
    !.running = @ \o Admitted(s),
    !.waiting = SubSeq(@, Len(Admitted(s)) + 1, Len(@))]

-----------------------------------------------------------------------------
(* The answers, and what they do to ASTRA-Sim (external).  A report, a     *)
(* workload and pass -1 open every NPU that has been told to pass.         *)
Reopened(npus) ==
  [n \in DOMAIN npus |-> IF npus[n].mode = "held" THEN [npus[n] EXCEPT !.mode = "open"] ELSE npus[n]]

GiveWorkload(npus, n, graph) ==
  [Reopened(npus) EXCEPT ![n].mode = "busy", ![n].log = Append(@, graph)]

(* _pass_response *)
NoDeadline(c) == 0  \* variant: a pass never says when the next one arrives

Deadline(c) ==
  IF HasPending(c.router) /\ FirstPending(c.router).arrival > clock
  THEN FirstPending(c.router).arrival ELSE 0
PassFor(npus, c, n) == [npus EXCEPT ![n].mode = "held", ![n].until = Deadline(c)]
PassChanged(npus) == Reopened(npus)

-----------------------------------------------------------------------------
(* The DP barrier.  A round takes the oldest batch of every member, names  *)
(* the workload after the first one's, and owes each graph to the NPU that *)
(* opened the batch.                                                       *)
BatchOf(s, id) == s.inflight[CHOOSE k \in DOMAIN s.inflight : s.inflight[k].id = id]
RoundComplete(pending, i) == \A m \in GroupOf(i) : pending[m] # << >>
RoundName(pending, i) ==
  [dir |-> Insts[i].dp, round |-> Head(pending[Min(GroupOf(i))])]

Graph(name, batch) == [dir |-> name.dir, round |-> name.round, batch |-> batch.id]

NamedIn(s, id, name) ==
  [s EXCEPT !.inflight = [k \in DOMAIN s.inflight |->
     IF s.inflight[k].id = id THEN [s.inflight[k] EXCEPT !.name = name] ELSE s.inflight[k]]]

Named(c, pending, i) ==
  [c EXCEPT !.sched = [m \in DOMAIN Insts |->
     IF m \in GroupOf(i) THEN NamedIn(c.sched[m], Head(pending[m]), RoundName(pending, i))
                         ELSE c.sched[m]]]

(* NPU n brings batch id of its instance to the barrier.  When that makes  *)
(* the round complete, n gets its graph at once if it opened the batch.    *)
JoinRound(c, n, id) ==
  LET i       == InstOf(n)
      pending == [dpPending EXCEPT ![i] = Append(@, id)]
      graph(m) == Graph(RoundName(pending, i), BatchOf(c.sched[m], Head(pending[m])))
      opener(m) == Head(BatchOf(c.sched[m], Head(pending[m])).fired)
  IN  IF RoundComplete(pending, i)
      THEN /\ core' = Named(c, pending, i)
           /\ dpPending' = [m \in DOMAIN Insts |->
                              IF m \in GroupOf(i) THEN Tail(pending[m]) ELSE pending[m]]
           /\ dpReady' = [q \in Npus |->
                IF q # n /\ \E m \in GroupOf(i) : opener(m) = q
                THEN Append(dpReady[q], graph(InstOf(q))) ELSE dpReady[q]]
           /\ npu' = IF opener(i) = n THEN GiveWorkload(npu, n, graph(i)) ELSE PassChanged(npu)
      ELSE /\ core' = c
           /\ dpPending' = pending
           /\ npu' = PassChanged(npu)
           /\ UNCHANGED dpReady

-----------------------------------------------------------------------------
(* The answers, in the order of the code's tests.  c is the core after the *)
(* first steps of the turn.                                                *)
HandOver(n, c) ==
  /\ dpReady[n] # << >>
  /\ core' = c
  /\ npu' = GiveWorkload(npu, n, Head(dpReady[n]))
  /\ dpReady' = [dpReady EXCEPT ![n] = Tail(@)]
  /\ UNCHANGED <<dpPending, done>>

Owed(n) == dpReady[n] # << >>

HasWorkload(i, batch) == ~InGroup(i) \/ batch.name # NoName

(* A joiner of a batch whose round is not complete gives its claim back.   *)
JoinBatch(n, c) ==
  /\ ~Owed(n) /\ Joinable(c, n) # {}
  /\ LET i     == InstOf(n)
         k     == CHOOSE k \in Joinable(c, n) : TRUE
         batch == c.sched[i].inflight[k]
         name  == IF batch.name # NoName THEN batch.name ELSE [dir |-> i, round |-> batch.id]
     IN  IF HasWorkload(i, batch)
         THEN /\ core' = [c EXCEPT !.sched[i].inflight[k].fired = Append(@, n)]
              /\ npu' = GiveWorkload(npu, n, Graph(name, batch))
         ELSE core' = c /\ npu' = PassChanged(npu)
  /\ UNCHANGED <<dpPending, dpReady, done>>

OpenBatch(n, c) ==
  /\ ~Owed(n) /\ Joinable(c, n) = {} /\ CanBuild(c, n)
  /\ LET i == InstOf(n)
     IN  \E batch \in {NewBatch(c.sched[i], n, Schedulable(c.sched[i]))} :
           \E opened \in {[c EXCEPT !.sched[i] = Opened(@, batch)]} :
             \/ /\ ~InGroup(i)
                /\ core' = opened
                /\ npu' = GiveWorkload(npu, n, Graph([dir |-> i, round |-> batch.id], batch))
                /\ UNCHANGED <<dpPending, dpReady>>
             \/ /\ InGroup(i)
                /\ JoinRound(opened, n, batch.id)
  /\ UNCHANGED done

(* Any NPU of the instance opens a dummy, not only the first. *)
NeedsDummy(n, c) ==
  LET i == InstOf(n)
  IN  /\ InGroup(i)
      /\ dpPending[i] = << >> /\ HasRoom(c.sched[i], i)
      /\ \E m \in GroupOf(i) : dpPending[m] # << >>

OpenDummy(n, c) ==
  /\ ~Owed(n) /\ Joinable(c, n) = {} /\ ~CanBuild(c, n) /\ NeedsDummy(n, c)
  /\ LET i == InstOf(n)
     IN  \E dummy \in {NewBatch(c.sched[i], n, << >>)} :
           \E opened \in {[c EXCEPT !.sched[i] = Registered(@, dummy)]} :
             JoinRound(opened, n, dummy.id)
  /\ UNCHANGED done

NothingToRun(n, c) ==
  ~Owed(n) /\ Joinable(c, n) = {} /\ ~CanBuild(c, n) /\ ~NeedsDummy(n, c)

(* The end of the run, instance by instance.  A DP group ends together.    *)
IsEmpty(s) == s.waiting = << >> /\ s.running = << >> /\ s.inflight = << >>

EndBeforeRelease(i, c) ==  \* variant: open sessions are forgotten
  /\ Insts[i].pd = "decode" => done.prefill
  /\ i \notin done.inst /\ IsEmpty(c.sched[i]) /\ ~HasPending(c.router)

EndReached(i, c) ==
  /\ Insts[i].pd = "decode" => done.prefill
  /\ i \notin done.inst /\ IsEmpty(c.sched[i])
  /\ ~HasPending(c.router) /\ ~HasDeferred(c.router)

MembersEmpty(i, c) == \A m \in GroupOf(i) : IsEmpty(c.sched[m])

NpusToTell(i) == IF Insts[i].num_npus = 1 THEN 1 ELSE 2
NumPrefill == Cardinality({i \in DOMAIN Insts : Insts[i].pd = "prefill"})

TellDone(n, c) ==
  LET i     == InstOf(n)
      told  == [done.npus EXCEPT ![i] = @ \cup {n}]
      insts == IF Cardinality(told[i]) = NpusToTell(i) THEN done.inst \cup {i} ELSE done.inst
  IN  /\ NothingToRun(n, c) /\ EndReached(i, c) /\ MembersEmpty(i, c)
      /\ done' = [inst |-> insts, npus |-> told,
                  prefill |-> done.prefill \/ Cardinality(insts) = NumPrefill,
                  exit |-> insts = DOMAIN Insts]
      /\ core' = c
      /\ npu' = [npu EXCEPT ![n].mode = "asleep"]
      /\ UNCHANGED <<dpPending, dpReady>>

Pass(n, c) ==
  /\ NothingToRun(n, c)
  /\ ~(EndReached(InstOf(n), c) /\ MembersEmpty(InstOf(n), c))
  /\ core' = c
  /\ npu' = PassFor(npu, c, n)
  /\ UNCHANGED <<dpPending, dpReady, done>>

(* The answer; the existentials name the core after each step before it.   *)
Answer ==
  \E n \in turn :
    \E routed \in {RouteArrived(core)} :
      \E completed \in {AddDone(routed, n)} :
        \E notified \in {Notify(completed, InstOf(n))} :
          \E c \in {[Transfer(notified, InstOf(n)) EXCEPT !.finished = << >>]} :
            /\ \/ HandOver(n, c)
               \/ JoinBatch(n, c)
               \/ OpenBatch(n, c)
               \/ OpenDummy(n, c)
               \/ TellDone(n, c)
               \/ Pass(n, c)
            /\ turn' = {}
            /\ UNCHANGED <<scenario, clock>>

-----------------------------------------------------------------------------
(* ASTRA-Sim (external).  An NPU ends a workload after its peers of the    *)
(* stage have been given it, in its instance and in its DP group, for they *)
(* meet in collectives, and after the stage before it has ended it.        *)
Workload(graph) == <<graph.dir, graph.round>>
Has(m, graph) == \E k \in DOMAIN npu[m].log : Workload(npu[m].log[k]) = Workload(graph)
HasEnded(m, graph) == \E k \in 1..npu[m].ended : Workload(npu[m].log[k]) = Workload(graph)

CanEnd(n) ==
  LET i     == InstOf(n)
      graph == Last(npu[n].log)
      stage == StageOf(Insts[i], n)
  IN  /\ \A j \in GroupOf(i) : \A m \in NpusOf(Insts[j]) :
           StageOf(Insts[j], m) = stage => Has(m, graph)
      /\ stage > 0 => HasEnded(n - Insts[i].tp, graph)

Report(n) ==
  /\ ~done.exit /\ turn = {} /\ npu[n].mode = "busy" /\ CanEnd(n)
  /\ turn' = {n}
  /\ npu' = [Reopened(npu) EXCEPT ![n].mode = "open", ![n].ended = @ + 1]
  /\ UNCHANGED <<scenario, clock, core, dpPending, dpReady, done>>

Ask(n) ==
  /\ ~done.exit /\ turn = {} /\ npu[n].mode = "open"
  /\ turn' = {n}
  /\ UNCHANGED <<scenario, clock, core, dpPending, dpReady, done, npu>>

(* Time is only watched while somebody has yet to arrive. *)
Tick ==
  /\ ~done.exit /\ turn = {}
  /\ HasPending(core.router) /\ FirstPending(core.router).arrival > clock
  /\ clock' = clock + 1
  /\ npu' = [n \in Npus |->
       IF npu[n].mode = "held" /\ npu[n].until > clock /\ npu[n].until <= clock'
       THEN [npu[n] EXCEPT !.mode = "open"] ELSE npu[n]]
  /\ UNCHANGED <<scenario, core, dpPending, dpReady, done, turn>>

LoopNext == Tick \/ Answer \/ \E n \in Npus : Report(n) \/ Ask(n)

LoopSpec == LoopInit /\ [][LoopNext]_loop

(* The loop answers every report (an answer is always possible), the clock *)
(* of ASTRA-Sim advances, and it goes round its NPUs: none stays ready to  *)
(* report, or open, for ever without its turn.  That is weak fairness of   *)
(* Report(n) and Ask(n) each taken as one step with its answer.            *)
FairLoopSpec ==
  /\ LoopSpec /\ SF_loop(Tick)
  /\ []<>(turn = {})
  /\ \A n \in NpuIds :
       /\ []<>(n \in Npus /\ npu[n].mode = "busy" /\ CanEnd(n) => turn = {n} \/ done.exit)
       /\ []<>(n \in Npus /\ npu[n].mode = "open" => turn = {n} \/ done.exit)
-----------------------------------------------------------------------------
(* Each NPU runs the batches of its instance in the order they were opened *)
(* and skips none, which is what completion by id assumes, whoever opened  *)
(* the batch and however its graph reaches the NPU; and a round pairs the  *)
(* members' j-th batches, so that those who meet in the collectives of one *)
(* workload run batches of the same number.                                *)
RunInOrder ==
  \A n \in Npus : \A k \in DOMAIN npu[n].log :
    /\ npu[n].log[k].batch = k - 1
    /\ \A m \in Npus : \A l \in DOMAIN npu[m].log :
         Workload(npu[n].log[k]) = Workload(npu[m].log[l]) => k = l

(* A request that has been routed is queued on one instance, once, until   *)
(* it is served, also across the handover from prefill to decode.          *)
Holds(s) == [k \in DOMAIN s.waiting |-> s.waiting[k].id] \o s.running
HeldOnce ==
  LET held == FoldLeft(LAMBDA all, s : all \o Holds(s), << >>, core.sched)
  IN  /\ IsInjective(held)
      /\ ToSet(held) \cap core.served = {}
      /\ \A i \in DOMAIN Insts : \A k \in DOMAIN core.sched[i].inflight :
           ToSet(core.sched[i].inflight[k].reqs) \subseteq ToSet(core.sched[i].running)

(* So it is, and a sub-request is in the system only after the one before  *)
(* it has got its last token: in a P/D pair not when its prefill is over.  *)
SessionsInOrder ==
  HeldOnce /\ \A r \in Reqs :
    /\ Rows[RowOf(Rows, r)].agentic /\ SubIndex(Rows, r) > 0
    /\ \/ r \in {core.router.pending[k].id : k \in DOMAIN core.router.pending}
       \/ core.made[r] > 0 \/ \E i \in DOMAIN Insts : r \in ToSet(Holds(core.sched[i]))
    => r - 1 \in core.served

(* An instance that was told to sleep never has work again, and the run    *)
(* ends with every request served.                                         *)
DoneMeansDone ==
  /\ \A i \in done.inst : IsEmpty(core.sched[i])
  /\ done.exit => core.served = Reqs

(* No barrier, owed graph, suppressed question or sleeping instance ever   *)
(* stops the run: it comes to its end.                                     *)
RunEnds == <>done.exit

(* total_gen counts the output tokens of the requests.  No run checks it:  *)
(* between a prefill and a decode instance the first token is not counted. *)
EveryTokenCounted ==
  done.exit => core.gen = FoldSet(LAMBDA r, sum : sum + Output(r), 0, Reqs)
=============================================================================
