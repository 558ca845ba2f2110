------------------------------ MODULE Scheduler ------------------------------
(***************************************************************************)
(* One serving instance: core/scheduler.py driven by the handshake loop of *)
(* __main__.py.  An NPU of the instance reports to the loop (HandBack when *)
(* it ended a workload, Poll when it had none); the loop completes the     *)
(* batch that is over (add_done), then asks for the next one (schedule).   *)
(* A handshake runs to its end before the next: step.at is where it is.    *)
(*                                                                         *)
(*   idle -> complete -> schedule -> running -> waiting -> build -> idle   *)
(*                                                                         *)
(* The NPUs themselves are external (ASTRA-Sim): an NPU runs the batches   *)
(* 0, 1, ... in order, and the last pipeline stage ends a batch after the  *)
(* first one.                                                              *)
(*                                                                         *)
(* Next is an instance without a role.  HandOver and AddDecode are for the *)
(* two of a prefill/decode pair (module PrefillDecode).                    *)
(***************************************************************************)
EXTENDS KVCache

CONSTANTS
  Prompt,                (* Prompt[r]: original_input                       *)
  Output,                (* Output[r]: the length at which r is done        *)
  MaxNumSeqs,            (* max_num_seqs                                    *)
  MaxBatchedTokens,      (* max_num_batched_tokens                          *)
  LongPrefillThreshold,  (* long_prefill_token_threshold, 0 for none        *)
  EnableChunkedPrefill,  (* enable_chunked_prefill                          *)
  ReserveFullISL,        (* reserve_full_isl                                *)
  NumNpus,               (* num_npus                                        *)
  PPSize,                (* pp_size                                         *)
  PdType                 (* pd_type: "none", "prefill" or "decode"          *)

ASSUME SchedulerAssumption ==
  /\ Reqs = 1..Cardinality(Reqs)
  /\ Prompt \in [Reqs -> Nat \ {0}] /\ Output \in [Reqs -> Nat]
  /\ \A r \in Reqs : Prompt[r] < Output[r]
  /\ \A r \in Reqs : CDiv(Output[r] - 1, BlockSize) <= NumBlocks  \* each fits alone
  /\ {MaxNumSeqs, MaxBatchedTokens, NumNpus, PPSize} \subseteq Nat \ {0}
  /\ LongPrefillThreshold \in Nat
  /\ {EnableChunkedPrefill, ReserveFullISL} \subseteq BOOLEAN
  /\ PdType \in {"none", "prefill", "decode"}

(* A prefill instance has as many NPUs again, which receive the KV for the *)
(* decode side; the last of them ends a batch last.                        *)
StartNpu == 0
LastNpu  == NumNpus * (IF PdType = "prefill" THEN 2 ELSE 1) - 1
Npus     == StartNpu..LastNpu

VARIABLES
  kv,         (* self.kv                                                     *)
  status,     (* req.status; "future" before the router hands r over         *)
  computed,   (* req.num_computed_tokens                                     *)
  reached,    (* req.num_tokens_reached                                      *)
  isInit,     (* requests with req.is_init set                               *)
  waiting,    (* self.waiting                                                *)
  running,    (* self.running                                                *)
  inflight,   (* self.inflight: [id, work, fired, ended], work a sequence of *)
              (* [req, n, before]: n tokens of req from position before on   *)
  nextId,     (* self.batch_ids + 1                                          *)
  finished,   (* self.done                                                   *)
  shipping,   (* [hit, sent]: prefix_cache_hit of a request, and the tokens  *)
              (* that batches have been told to send to its decode NPUs; of  *)
              (* a prefill instance                                          *)
  ran,        (* NPU -> workloads it has run, the id it reports              *)
  busy,       (* NPUs with a workload                                        *)
  step        (* where the current handshake is, and its local variables     *)

requests == <<status, computed, reached, isInit>>
queues   == <<waiting, running>>
batches  == <<inflight, nextId>>
npus     == <<ran, busy>>
vars     == <<kv, requests, queues, batches, finished, shipping, npus, step>>

(* at, npu; todo: work of the ended batch still to complete; handed: its   *)
(* end_reqs that go on to a decode instance; budget, i, scheduled,         *)
(* preempted: the locals of schedule and _schedule_running.                *)
Idle == [at |-> "idle", npu |-> StartNpu, todo |-> << >>, handed |-> << >>,
         budget |-> 0, i |-> 1, scheduled |-> << >>, preempted |-> {}]

At(where) == step.at = where
Goto(where) == step' = [step EXCEPT !.at = where]
Return == step' = Idle

Init ==
  /\ kv = NewKV
  /\ status = [r \in Reqs |-> "future"]
  /\ computed = [r \in Reqs |-> 0]
  /\ reached = Prompt
  /\ isInit = Reqs
  /\ waiting = << >> /\ running = << >>
  /\ inflight = << >> /\ nextId = 0
  /\ finished = << >>
  /\ shipping = [hit |-> [r \in Reqs |-> 0], sent |-> [r \in Reqs |-> 0]]
  /\ ran = [n \in Npus |-> 0] /\ busy = {}
  /\ step = Idle

-----------------------------------------------------------------------------
(* add_request.  Ids are in (arrival, id) order, and the router hands over *)
(* what has arrived in that order; the insort therefore goes by id.        *)
Insort(queue, r) ==
  LET earlier == Cardinality({i \in DOMAIN queue : queue[i] < r})
  IN  InsertAt(queue, earlier + 1, r)

AddRequest(r) ==
  /\ At("idle")
  /\ status[r] = "future" /\ \A q \in Reqs : q < r => status[q] # "future"
  /\ status' = [status EXCEPT ![r] = "waiting"]
  /\ waiting' = Insort(waiting, r)
  /\ UNCHANGED <<kv, computed, reached, isInit, running, batches, finished, shipping, npus, step>>

-----------------------------------------------------------------------------
(* The NPU's report, and add_done up to its early returns: the batch is    *)
(* over when the start NPU and the last NPU have both ended it.            *)
BatchStarted(batch) == StartNpu \in batch.ended  \* variant: the last stage is not awaited

BatchOver(batch) == {StartNpu, LastNpu} \subseteq batch.ended

Ended(batch, n) == [batch EXCEPT !.ended = @ \cup {n}]

HandBack(n) ==
  /\ At("idle") /\ n \in busy
  /\ (PPSize > 1 \/ PdType = "prefill") /\ n # StartNpu => ran[StartNpu] > ran[n]
  /\ busy' = busy \ {n}
  /\ ran' = [ran EXCEPT ![n] = @ + 1]
  /\ \E k \in DOMAIN inflight :
       /\ inflight[k].id = ran'[n] - 1
       /\ inflight' = [inflight EXCEPT ![k] = Ended(@, n)]
       /\ step' = IF BatchOver(inflight'[k])
                  THEN [Idle EXCEPT !.at = "complete", !.npu = n, !.todo = inflight[k].work]
                  ELSE [Idle EXCEPT !.at = "schedule", !.npu = n]
  /\ UNCHANGED <<kv, requests, queues, nextId, finished, shipping>>

(* An NPU without a workload asks again. *)
Poll(n) ==
  /\ At("idle") /\ n \notin busy
  /\ step' = [Idle EXCEPT !.at = "schedule", !.npu = n]
  /\ UNCHANGED <<kv, requests, queues, batches, finished, shipping, npus>>

(* The body of add_done's loop, for the request of one piece of work.  A   *)
(* token is appended when r has caught up with the length it has reached.  *)
NeverOver(r) == FALSE  \* variant: the FINISHED test is left out

Over(r) == status[r] = "finished"
PrefillDone(r) == r \in isInit /\ computed[r] >= Prompt[r]
AlmostCaughtUp(r) == computed[r] + 1 >= reached[r]  \* variant: off by one

CaughtUp(r) == computed[r] >= reached[r]
StaysRunning(queue, r) == queue  \* variant: the request stays in running

Without(queue, r) == Kept(queue, ToSet(queue) \ {r})
IsChunk(n) == n > 1

SkipFinished ==
  /\ At("complete") /\ step.todo # << >> /\ Over(Head(step.todo).req)
  /\ step' = [step EXCEPT !.todo = Tail(@)]
  /\ UNCHANGED <<kv, requests, queues, batches, finished, shipping, npus>>

(* On a prefill instance a request is over when its prompt is computed.    *)
HandedOver(r) == PdType = "prefill" /\ PrefillDone(r)

FirstTokenLeft(r) == reached[r]  \* variant: the first token is left to the decode side

FirstToken(r) == reached[r] + 1

CompleteRequest ==
  /\ At("complete") /\ step.todo # << >> /\ ~Over(Head(step.todo).req)
  /\ ~HandedOver(Head(step.todo).req)
  /\ LET r      == Head(step.todo).req
         cached == IF PrefillDone(r) \/ IsChunk(Head(step.todo).n) \/ CaughtUp(r)
                   THEN CacheBlocks(kv, r, computed[r]) ELSE kv
     IN  /\ isInit' = IF PrefillDone(r) THEN isInit \ {r} ELSE isInit
         /\ reached' = [reached EXCEPT ![r] = IF CaughtUp(r) THEN @ + 1 ELSE @]
         /\ \/ /\ reached'[r] < Output[r]
               /\ kv' = cached
               /\ UNCHANGED <<status, running, finished>>
            \/ /\ reached'[r] >= Output[r]
               /\ kv' = Free(cached, r)
               /\ status' = [status EXCEPT ![r] = "finished"]
               /\ running' = Without(running, r)
               /\ finished' = Append(finished, r)
  /\ step' = [step EXCEPT !.todo = Tail(@)]
  /\ UNCHANGED <<computed, waiting, batches, shipping, npus>>

CompletePrefill ==
  /\ At("complete") /\ step.todo # << >> /\ ~Over(Head(step.todo).req)
  /\ HandedOver(Head(step.todo).req)
  /\ LET r == Head(step.todo).req
     IN  /\ kv' = Free(CacheBlocks(kv, r, computed[r]), r)
         /\ isInit' = isInit \ {r}
         /\ reached' = [reached EXCEPT ![r] = FirstToken(r)]
         /\ status' = [status EXCEPT ![r] = "finished"]
         /\ running' = Without(running, r)
         /\ step' = [step EXCEPT !.todo = Tail(@), !.handed = Append(@, r)]
  /\ UNCHANGED <<computed, waiting, batches, finished, shipping, npus>>

DropBatch ==
  /\ At("complete") /\ step.todo = << >>
  /\ inflight' = Kept(inflight, {batch \in ToSet(inflight) : ~BatchOver(batch)})
  /\ Goto(IF step.handed = << >> THEN "schedule" ELSE "handover")
  /\ UNCHANGED <<kv, requests, queues, nextId, finished, shipping, npus>>

(* transfer_prefill_request takes the next request away; the request's own *)
(* fields are the decode instance's from here.                             *)
HandOver(r) ==
  /\ At("handover") /\ r = Head(step.handed)
  /\ step' = [step EXCEPT !.handed = Tail(@),
                          !.at = IF Len(step.handed) = 1 THEN "schedule" ELSE @]
  /\ UNCHANGED <<kv, queues, batches, finished, shipping, npus>>

-----------------------------------------------------------------------------
(* add_decode: take over a request whose prefill ran elsewhere.  Without   *)
(* room for one more token of it the code raises, and the run stops.       *)
HandoffHit(r) == GetComputedBlocks(kv, r, reached[r])

HandoffTokens(r) == 1
HandoffFits(r) == SlotsFit(kv, r, computed[r], HandoffTokens(r), HandoffHit(r))

AddDecode(r) ==
  /\ At("idle") /\ HandoffFits(r)
  /\ kv' = AllocateSlots(kv, r, computed[r], reached[r], HandoffTokens(r), HandoffHit(r))
  /\ status' = [status EXCEPT ![r] = "running"]
  /\ running' = Append(running, r)
  /\ UNCHANGED <<computed, reached, isInit, waiting, batches, finished, shipping, npus, step>>

AddDecodeRaises(r) ==
  /\ At("idle") /\ ~HandoffFits(r)
  /\ Goto("raised")
  /\ UNCHANGED <<kv, requests, queues, batches, finished, shipping, npus>>

-----------------------------------------------------------------------------
(* schedule: join a batch already formed, if there is one for this NPU.    *)
Joinable(n) ==
  {k \in DOMAIN inflight : inflight[k].id = ran[n] /\ n \notin inflight[k].fired}

JoinBatch ==
  /\ At("schedule")
  /\ \E k \in Joinable(step.npu) :
       inflight' = [inflight EXCEPT ![k].fired = @ \cup {step.npu}]
  /\ busy' = busy \cup {step.npu}
  /\ Return
  /\ UNCHANGED <<kv, requests, queues, nextId, finished, shipping, ran>>

PipelineFull == Len(inflight) >= PPSize

Pass ==
  /\ At("schedule") /\ Joinable(step.npu) = {}
  /\ step.npu # StartNpu \/ PipelineFull
  /\ Return
  /\ UNCHANGED <<kv, requests, queues, batches, finished, shipping, npus>>

StartSchedule ==
  /\ At("schedule") /\ Joinable(step.npu) = {}
  /\ step.npu = StartNpu /\ ~PipelineFull
  /\ step' = [step EXCEPT !.at = "running", !.budget = MaxBatchedTokens]
  /\ UNCHANGED <<kv, requests, queues, batches, finished, shipping, npus>>

-----------------------------------------------------------------------------
(* _schedule_running *)
Capped(n) == IF 0 < LongPrefillThreshold /\ LongPrefillThreshold < n
             THEN LongPrefillThreshold ELSE n

NumNewTokens(r) == Lesser(Capped(reached[r] - computed[r]), step.budget)

Schedule(r, n, before) ==
  step' = [step EXCEPT !.scheduled = Append(@, [req |-> r, n |-> n, before |-> before]),
                       !.budget = @ - n, !.i = @ + 1]

Serving == At("running") /\ step.i <= Len(running) /\ step.budget > 0
Current == running[step.i]
InFlight(r) == \E k \in DOMAIN inflight : \E w \in ToSet(inflight[k].work) : w.req = r

ServeRunning ==
  /\ Serving /\ NumNewTokens(Current) > 0
  /\ SlotsFit(kv, Current, computed[Current], NumNewTokens(Current), NoHit)
  /\ kv' = AllocateSlots(kv, Current, computed[Current], reached[Current],
                         NumNewTokens(Current), NoHit)
  /\ Schedule(Current, NumNewTokens(Current), computed[Current])
  /\ UNCHANGED <<requests, queues, batches, finished, shipping, npus>>

(* Nothing left to compute until a batch in flight moves the request on;   *)
(* without such a batch the code raises.                                   *)
Stranded == Serving /\ NumNewTokens(Current) <= 0 /\ ~InFlight(Current)

SkipRunning ==
  /\ Serving /\ NumNewTokens(Current) <= 0 /\ InFlight(Current)
  /\ step' = [step EXCEPT !.i = @ + 1]
  /\ UNCHANGED <<kv, requests, queues, batches, finished, shipping, npus>>

(* _preempt_request on the tail of running, then the allocation is tried   *)
(* again, unless the request preempted itself.                             *)
OldestRunning == Head(running)  \* variant: preempt from the head

Victim == Last(running)

PreemptTail ==
  /\ Serving /\ NumNewTokens(Current) > 0
  /\ ~SlotsFit(kv, Current, computed[Current], NumNewTokens(Current), NoHit)
  /\ kv' = Free(kv, Victim)
  /\ status' = [status EXCEPT ![Victim] = "preempted"]
  /\ computed' = [computed EXCEPT ![Victim] = 0]
  /\ running' = Without(running, Victim)
  /\ waiting' = <<Victim>> \o waiting
  /\ step' = [step EXCEPT !.preempted = @ \cup {Victim},
                          !.at = IF Victim = Current THEN "build" ELSE @]
  /\ UNCHANGED <<reached, isInit, batches, finished, shipping, npus>>

EndRunning ==
  /\ At("running") /\ ~Serving
  /\ Goto(IF step.preempted = {} THEN "waiting" ELSE "build")
  /\ UNCHANGED <<kv, requests, queues, batches, finished, shipping, npus>>

-----------------------------------------------------------------------------
(* _schedule_waiting: each condition that fails breaks the loop.           *)
NextHit == IF computed[Head(waiting)] = 0
           THEN GetComputedBlocks(kv, Head(waiting), reached[Head(waiting)]) ELSE NoHit

NextBefore == computed[Head(waiting)] + HitTokens(NextHit)
NextWanted == Capped(reached[Head(waiting)] - NextBefore)
NextTokens == Lesser(NextWanted, step.budget)

(* Variant: only a request that never ran is admitted. *)
FirstAdmission ==
  /\ waiting # << >> /\ step.budget > 0 /\ Len(running) < MaxNumSeqs
  /\ status[Head(waiting)] = "waiting"
  /\ NextTokens > 0
  /\ SlotsFit(kv, Head(waiting), computed[Head(waiting)], NextTokens, NextHit)

Admissible ==
  /\ waiting # << >> /\ step.budget > 0 /\ Len(running) < MaxNumSeqs
  /\ EnableChunkedPrefill \/ NextWanted <= step.budget
  /\ NextTokens > 0
  /\ ReserveFullISL => CanFitFullSequence(kv, Head(waiting), computed[Head(waiting)],
                                          reached[Head(waiting)], NextHit)
  /\ SlotsFit(kv, Head(waiting), computed[Head(waiting)], NextTokens, NextHit)

AdmitWaiting ==
  /\ At("waiting") /\ Admissible
  /\ LET r == Head(waiting)
     IN  /\ kv' = AllocateSlots(kv, r, computed[r], reached[r], NextTokens, NextHit)
         /\ computed' = [computed EXCEPT ![r] = NextBefore]
         /\ status' = [status EXCEPT ![r] = "running"]
         /\ running' = Append(running, r)
         /\ Schedule(r, NextTokens, NextBefore)
         /\ shipping' = IF PdType = "prefill" THEN [shipping EXCEPT !.hit[r] = HitTokens(NextHit)]
                        ELSE shipping
  /\ waiting' = Tail(waiting)
  /\ UNCHANGED <<reached, isInit, batches, finished, npus>>

EndWaiting ==
  /\ At("waiting") /\ ~Admissible
  /\ Goto("build")
  /\ UNCHANGED <<kv, requests, queues, batches, finished, shipping, npus>>

-----------------------------------------------------------------------------
(* _build_batch: num_computed_tokens advances now, not at completion.  On  *)
(* a prefill instance the batch is told how many tokens of KV to send.     *)
ChunksShipped(w) == IF IsChunk(w.n) THEN w.n ELSE 0  \* variant: one token is a decode

Shipped(w) == w.n + IF w.before = 0 THEN shipping.hit[w.req] ELSE 0

(* A step schedules a request at most once. *)
InBatch(r) == \E w \in ToSet(step.scheduled) : w.req = r
WorkOf(r)  == CHOOSE w \in ToSet(step.scheduled) : w.req = r

Sent == [r \in Reqs |-> shipping.sent[r] + IF InBatch(r) THEN Shipped(WorkOf(r)) ELSE 0]

Advanced(before, n) == before + n

BuildBatch ==
  /\ At("build") /\ step.scheduled # << >>
  /\ computed' = [r \in Reqs |-> IF InBatch(r) THEN Advanced(WorkOf(r).before, WorkOf(r).n)
                                 ELSE computed[r]]
  /\ inflight' = Append(inflight, [id |-> nextId, work |-> step.scheduled,
                                   fired |-> {StartNpu}, ended |-> {}])
  /\ nextId' = nextId + 1
  /\ busy' = busy \cup {StartNpu}
  /\ shipping' = IF PdType = "prefill" THEN [shipping EXCEPT !.sent = Sent] ELSE shipping
  /\ Return
  /\ UNCHANGED <<kv, status, reached, isInit, queues, finished, ran>>

NothingToBuild ==
  /\ At("build") /\ step.scheduled = << >>
  /\ Return
  /\ UNCHANGED <<kv, requests, queues, batches, finished, shipping, npus>>

Handshake(n) == HandBack(n) \/ Poll(n)

(* The steps of a handshake, but for CompletePrefill and HandOver, which   *)
(* only the prefill instance of a pair (module PrefillDecode) takes.       *)
InStep ==
  \/ SkipFinished \/ CompleteRequest \/ DropBatch
  \/ JoinBatch \/ Pass \/ StartSchedule
  \/ ServeRunning \/ SkipRunning \/ PreemptTail \/ EndRunning
  \/ AdmitWaiting \/ EndWaiting \/ BuildBatch \/ NothingToBuild

Next ==
  \/ \E r \in Reqs : AddRequest(r)
  \/ \E n \in Npus : Handshake(n)
  \/ InStep

Spec == Init /\ [][Next]_vars

(* The loop never stops in a handshake, the trace is handed over to its    *)
(* end, and ASTRA-Sim goes round the NPUs: each reports again and again.   *)
(* The first conjunct is WF_vars(InStep) with its ENABLED written out:     *)
(* deadlock checking shows that InStep is enabled whenever not idle.       *)
FairSpec ==
  /\ Spec
  /\ []<>At("idle") \/ []<><<InStep>>_vars
  /\ \A r \in Reqs : SF_vars(AddRequest(r))
  /\ \A n \in Npus : SF_vars(HandBack(n)) /\ SF_vars(Poll(n))
-----------------------------------------------------------------------------
(* Type invariant (the manager's record is typed in KVCacheManager). *)
Work == [req : Reqs, n : Nat, before : Nat]

TypeOK ==
  /\ status \in [Reqs -> {"future", "waiting", "running", "preempted", "finished"}]
  /\ computed \in [Reqs -> Nat] /\ reached \in [Reqs -> Nat]
  /\ isInit \subseteq Reqs
  /\ {waiting, running, finished} \subseteq Seq(Reqs)
  /\ inflight \in Seq([id : Nat, work : Seq(Work),
                       fired : SUBSET Npus, ended : SUBSET Npus])
  /\ nextId \in Nat /\ ran \in [Npus -> Nat] /\ busy \subseteq Npus
  /\ shipping \in [hit : [Reqs -> Nat], sent : [Reqs -> Nat]]
  /\ step \in [at : {"idle", "complete", "handover", "raised",
                     "schedule", "running", "waiting", "build"},
               npu : Npus, todo : Seq(Work), handed : Seq(Reqs), budget : Nat, i : Nat \ {0},
               scheduled : Seq(Work), preempted : SUBSET Reqs]

(* A request is in the queue its status says, in self.done at most once,   *)
(* and holds blocks only while it runs: one that was preempted or finished *)
(* with a batch in flight takes nothing back when that batch completes.    *)
(* And first come, first served: everything running came before everything *)
(* waiting, both in arrival order, in the middle of a step too.  Preemption*)
(* from the tail, the prepend of the victim, the insort and the admission  *)
(* from the head only keep this together.                                  *)
QueuesMatchStatus ==
  LET line == running \o waiting
  IN  /\ TypeOK
      /\ \A r \in Reqs :
           /\ r \in ToSet(running) <=> status[r] = "running"
           /\ r \in ToSet(waiting) <=> status[r] \in {"waiting", "preempted"}
           /\ r \in ToSet(finished) <=> status[r] = "finished"
           /\ kv.table[r] # << >> => status[r] = "running"
      /\ IsInjective(finished)
      /\ \A i, j \in DOMAIN line : i < j => line[i] < line[j]

(* The leak check of the end of a run: once every request is done, every   *)
(* tier has all its blocks back.                                           *)
NothingLeaked ==
  (\A r \in Reqs : status[r] = "finished") =>
    IsFree(kv.npu) /\ \A t \in DOMAIN Tiers : IsFree(kv.lower[t])

(* A batch an NPU has still to run is still in flight when it asks: no     *)
(* batch is dropped before its last NPU has run it, and no id is skipped.  *)
NoBatchLost ==
  \A n \in Npus : ran[n] < nextId => \E k \in DOMAIN inflight : inflight[k].id = ran[n]

(* Positions of a request scheduled in different batches in flight never   *)
(* overlap: nothing is computed twice (where nothing was preempted).       *)
NothingInFlightTwice ==
  \A j, k \in DOMAIN inflight : j < k =>
    \A v \in ToSet(inflight[j].work), w \in ToSet(inflight[k].work) :
      v.req = w.req => v.before + v.n <= w.before

(* Batches reach every NPU, and their tokens no second batch (_build_batch,*)
(* _schedule_existing, add_done).                                          *)
EachBatchOnce == NoBatchLost /\ NothingInFlightTwice

(* The oldest running request is never preempted (each fits the pool on    *)
(* its own), so the line always moves.                                     *)
OldestNeverPreempted ==
  [][running # << >> => status'[running[1]] # "preempted"]_vars

(* A token is appended only while a batch that reaches the last position  *)
(* before it is in flight.                                                 *)
TokenFromInFlight ==
  [][\A r \in Reqs : reached'[r] # reached[r] =>
       \E k \in DOMAIN inflight : \E w \in ToSet(inflight[k].work) :
         w.req = r /\ w.before + w.n >= reached[r]]_vars

(* A lookup leaves at least one token to compute. *)
HitLeavesOneToken == At("waiting") /\ waiting # << >> => NextWanted >= 1

(* Every request of the trace gets its whole output. *)
EveryRequestFinishes == \A r \in Reqs : <>(status[r] = "finished")
=============================================================================
